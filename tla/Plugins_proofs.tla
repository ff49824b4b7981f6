--------------------------- MODULE Plugins_proofs ---------------------------
EXTENDS MCPlugins, MqttCommands, FiniteSetTheorems, WellFoundedInduction, TLAPS

(* Proofs about the plugins that MCPlugins runs (FanControl, PowerPlan, RunnerCommands and
   the Catalog of built-in plugins) and about MqttCommands, which brings a plugin its
   commands. One part is at work in a behaviour; IInv joins the inductive invariants of
   the four, each stated and preserved in its own section.

   What a plugin offers is made by sorting a finite map and by merging a list into one:
   operators defined by recursive functions. That such a function exists, what it
   leaves of the map and that sorting loses nothing is proved by induction on numbers,
   as a set of counterexamples without a least member (WellOrdered, Induction). *)

-----------------------------------------------------------------------------
(* Natural numbers *)

\* A set of numbers has a least one: induction, in the form the provers can use.
LEMMA WellOrdered ==
  ASSUME NEW T, T \subseteq Nat, T # {}
  PROVE  \E x \in T : \A y \in T : x <= y
<1>1. OpToRel(<, Nat) = {p \in Nat \X Nat : p[1] < p[2]}
  BY DEF OpToRel
<1>2. PICK x \in T : \A y \in T : <<y, x>> \notin OpToRel(<, Nat)
  BY NatLessThanWellFounded, WFMin
<1>3. ASSUME NEW a \in Nat, NEW b \in Nat, a < b
      PROVE  <<a, b>> \in OpToRel(<, Nat)
  <2>1. <<a, b>> \in Nat \X Nat
    OBVIOUS
  <2>2. <<a, b>>[1] < <<a, b>>[2]
    BY <1>3
  <2>3. <<a, b>> \in {p \in Nat \X Nat : p[1] < p[2]}
    BY <2>1, <2>2, Zenon
  <2>4. QED
    BY <2>3, <1>1, Zenon
<1>4. \A y \in T : ~(y < x)
  BY <1>2, <1>3
<1>5. QED
  BY <1>4

\* Induction, for a set of numbers.
LEMMA Induction ==
  ASSUME NEW T, 0 \in T, \A n \in Nat : n \in T => n + 1 \in T
  PROVE  Nat \subseteq T
<1> DEFINE Bad == Nat \ T
<1>1. SUFFICES ASSUME Bad # {} PROVE FALSE
  OBVIOUS
<1>2. PICK x \in Bad : \A y \in Bad : x <= y
  <2> HIDE DEF Bad
  <2>1. Bad \subseteq Nat
    BY DEF Bad
  <2>2. QED
    BY <1>1, <2>1, WellOrdered
<1>3. x # 0 /\ x - 1 \in Nat /\ x - 1 \notin Bad
  BY <1>2
<1>4. (x - 1) + 1 \in T
  BY <1>3
<1>5. QED
  BY <1>2, <1>4

\* Min finds it.
LEMMA Least ==
  ASSUME NEW T, T \subseteq Nat, T # {}
  PROVE  Min(T) \in T /\ \A y \in T : Min(T) <= y
BY WellOrdered DEF Min

\* A function on 1..n is a sequence of n.
LEMMA LenOf ==
  ASSUME NEW n \in Nat, NEW S, NEW f \in [1..n -> S]
  PROVE  f \in Seq(S) /\ Len(f) = n /\ DOMAIN f = 1..n
OBVIOUS

-----------------------------------------------------------------------------
(* Orders and sorted sequences *)

StrictOrder(S, order) ==
  /\ \A k \in S : <<k, k>> \notin order
  /\ \A k, l \in S : k # l => <<k, l>> \in order \/ <<l, k>> \in order
  /\ \A j, k, l \in S : <<j, k>> \in order /\ <<k, l>> \in order => <<j, l>> \in order

\* A finite set in a strict order can be sorted, and nothing is lost by it (sort.Slice).
LEMMA SortedMembers ==
  ASSUME NEW S, IsFiniteSet(S), NEW order, StrictOrder(S, order)
  PROVE  /\ Cardinality(S) \in Nat
         /\ Sorted(S, order) \in [1..Cardinality(S) -> S]
         /\ \A k \in S : \E i \in 1..Cardinality(S) : Sorted(S, order)[i] = k
<1> DEFINE n == Cardinality(S)
           Before(k) == {l \in S : <<l, k>> \in order}
           rank == [k \in S |-> Cardinality(Before(k)) + 1]
<1>1. n \in Nat
  BY FS_CardinalityType
<1>2. ASSUME NEW T, NEW U, IsFiniteSet(U), T \subseteq U, T # U
      PROVE  /\ IsFiniteSet(T) /\ Cardinality(T) \in Nat /\ Cardinality(U) \in Nat
             /\ Cardinality(T) < Cardinality(U)
  BY <1>2, FS_Subset, FS_CardinalityType
<1>3. ASSUME NEW k \in S
      PROVE  IsFiniteSet(Before(k)) /\ Cardinality(Before(k)) \in Nat /\ Cardinality(Before(k)) < n
  <2>1. Before(k) \subseteq S /\ Before(k) # S
    BY DEF StrictOrder
  <2> HIDE DEF Before
  <2>2. QED
    BY <2>1, <1>2
<1>4. ASSUME NEW k \in S, NEW l \in S, <<k, l>> \in order
      PROVE  Cardinality(Before(k)) < Cardinality(Before(l))
  <2>1. Before(k) \subseteq Before(l) /\ k \in Before(l) /\ k \notin Before(k)
    BY <1>4 DEF StrictOrder
  <2>2. IsFiniteSet(Before(l))
    BY <1>3
  <2> HIDE DEF Before
  <2>3. QED
    BY <2>1, <2>2, <1>2
<1> HIDE DEF Before
<1>5. rank \in [S -> 1..n]
  BY <1>1, <1>3
<1>6. ASSUME NEW k \in S, NEW l \in S, rank[k] = rank[l] PROVE k = l
  <2>1. Cardinality(Before(k)) = Cardinality(Before(l))
    BY <1>3, <1>6
  <2>2. <<k, l>> \notin order /\ <<l, k>> \notin order
    BY <2>1, <1>3, <1>4
  <2>3. QED
    BY <2>2 DEF StrictOrder
<1>7. \A i \in 1..n : \E k \in S : rank[k] = i
  <2>1. rank \in Injection(S, 1..n)
    BY <1>5, <1>6, Zenon DEF Injection, IsInjective
  <2>2. IsFiniteSet(1..n) /\ Cardinality(1..n) = n
    BY <1>1, FS_Interval
  <2>3. rank \in Surjection(S, 1..n)
    BY <2>1, <2>2, FS_Injection
  <2>4. QED
    BY <2>3 DEF Surjection
<1>8. ASSUME NEW i \in 1..n
      PROVE  Sorted(S, order)[i] \in S /\ rank[Sorted(S, order)[i]] = i
  <2>1. \E k \in S : Cardinality(Before(k)) = i - 1
    BY <1>3, <1>7
  <2>2. Sorted(S, order)[i] = CHOOSE k \in S : Cardinality(Before(k)) = i - 1
    BY DEF Sorted, Before
  <2>3. Sorted(S, order)[i] \in S /\ Cardinality(Before(Sorted(S, order)[i])) = i - 1
    BY <2>1, <2>2
  <2>4. QED
    BY <2>3, <1>1
<1>9. \A k \in S : \E i \in 1..n : Sorted(S, order)[i] = k
  BY <1>5, <1>6, <1>8
<1>10. Sorted(S, order) = [i \in 1..n |-> CHOOSE k \in S : Cardinality(Before(k)) = i - 1]
  BY DEF Sorted, Before
<1>11. Sorted(S, order) \in [1..n -> S]
  BY <1>8, <1>10
<1>12. QED
  BY <1>1, <1>9, <1>11

\* Words have different ranks, so keys are in a strict order.
LEMMA KeysDiffer ==
  ASSUME NEW k \in Keys, NEW l \in Keys, k # l
  PROVE  KeyBefore(k, l) \/ KeyBefore(l, k)
<1> DEFINE D == {n \in 1..Len(k) : n <= Len(l) /\ k[n] # l[n]}
<1>1. /\ Len(k) \in Nat /\ DOMAIN k = 1..Len(k) /\ k = [i \in 1..Len(k) |-> k[i]]
      /\ Len(l) \in Nat /\ DOMAIN l = 1..Len(l) /\ l = [i \in 1..Len(l) |-> l[i]]
      /\ \A i \in 1..Len(k) : k[i] \in Words
      /\ \A i \in 1..Len(l) : l[i] \in Words
  BY DEF Keys
<1>2. CASE D # {}
  <2> DEFINE n == Min(D)
  <2>1. n \in D /\ \A i \in D : n <= i
    <3>1. D \subseteq Nat
      OBVIOUS
    <3> HIDE DEF D
    <3>2. QED
      BY <3>1, <1>2, Least
  <2> HIDE DEF n
  <2>2. n \in 1..Len(k) /\ n \in 1..Len(l) /\ \A i \in 1..(n - 1) : k[i] = l[i]
    BY <2>1, <1>1
  <2>3. WordRank[k[n]] \in Nat /\ WordRank[l[n]] \in Nat /\ WordRank[k[n]] # WordRank[l[n]]
    BY <2>1, <2>2, <1>1, WordsAssumption DEF IsInjective, Words
  <2> HIDE DEF D
  <2>4. CASE WordRank[k[n]] < WordRank[l[n]]
    BY <2>2, <2>4, <1>1 DEF KeyBefore
  <2>5. CASE WordRank[l[n]] < WordRank[k[n]]
    BY <2>2, <2>5, <1>1 DEF KeyBefore
  <2>6. QED
    BY <2>3, <2>4, <2>5
<1>3. CASE D = {}
  <2>1. \A n \in 1..Len(k) : n <= Len(l) => k[n] = l[n]
    BY <1>3
  <2>2. Len(k) # Len(l)
    <3>1. SUFFICES ASSUME Len(k) = Len(l) PROVE k = l
      OBVIOUS
    <3>2. \A i \in 1..Len(k) : k[i] = l[i]
      BY <2>1, <3>1, <1>1
    <3>3. QED
      BY <3>1, <3>2, <1>1
  <2>3. CASE Len(k) < Len(l)
    <3>1. Len(k) + 1 \in 1..Len(l) /\ \A i \in 1..Len(k) : k[i] = l[i]
      BY <2>1, <2>3, <1>1
    <3>2. QED
      BY <3>1, <1>1 DEF KeyBefore
  <2>4. CASE Len(l) < Len(k)
    <3>1. Len(l) + 1 \in 1..Len(k) /\ \A i \in 1..Len(l) : k[i] = l[i]
      BY <2>1, <2>4, <1>1
    <3>2. QED
      BY <3>1, <1>1 DEF KeyBefore
  <2>5. Len(k) < Len(l) \/ Len(l) < Len(k)
    <3>1. Len(k) \in Nat /\ Len(l) \in Nat
      BY <1>1
    <3>2. QED
      BY <2>2, <3>1
  <2>6. QED
    BY <2>3, <2>4, <2>5, Zenon
<1>4. QED
  BY <1>2, <1>3

\* KeyBefore compares keys like strings.
LEMMA KeysTransitive ==
  ASSUME NEW j \in Keys, NEW k \in Keys, NEW l \in Keys, KeyBefore(j, k), KeyBefore(k, l)
  PROVE  KeyBefore(j, l)
<1>1. /\ Len(j) \in Nat /\ Len(k) \in Nat /\ Len(l) \in Nat
      /\ \A i \in 1..Len(j) : WordRank[j[i]] \in Nat
      /\ \A i \in 1..Len(k) : WordRank[k[i]] \in Nat
      /\ \A i \in 1..Len(l) : WordRank[l[i]] \in Nat
  BY WordsAssumption DEF Keys, Words
<1>2. PICK n \in 1..Len(k) : /\ n <= Len(j) + 1 /\ \A i \in 1..(n - 1) : j[i] = k[i]
                             /\ n <= Len(j) => WordRank[j[n]] < WordRank[k[n]]
  BY DEF KeyBefore
<1>3. PICK m \in 1..Len(l) : /\ m <= Len(k) + 1 /\ \A i \in 1..(m - 1) : k[i] = l[i]
                             /\ m <= Len(k) => WordRank[k[m]] < WordRank[l[m]]
  BY DEF KeyBefore
<1>4. CASE n < m
  <2>1. k[n] = l[n] /\ n \in 1..Len(l) /\ \A i \in 1..(n - 1) : j[i] = l[i]
    BY <1>1, <1>2, <1>3, <1>4
  <2>2. QED
    BY <2>1, <1>2 DEF KeyBefore
<1>5. CASE m <= n
  <2>1. m <= Len(j) + 1 /\ \A i \in 1..(m - 1) : j[i] = l[i]
    BY <1>1, <1>2, <1>3, <1>5
  <2>2. m <= Len(j) => WordRank[j[m]] < WordRank[l[m]]
    <3>1. CASE m = n
      <4>1. m <= Len(k) /\ WordRank[k[m]] < WordRank[l[m]]
        BY <1>1, <1>2, <1>3, <3>1
      <4>2. SUFFICES ASSUME m <= Len(j) PROVE WordRank[j[m]] < WordRank[l[m]]
        OBVIOUS
      <4>3. /\ WordRank[j[m]] < WordRank[k[m]] /\ WordRank[j[m]] \in Nat
            /\ WordRank[k[m]] \in Nat /\ WordRank[l[m]] \in Nat
        BY <1>1, <1>2, <3>1, <4>1, <4>2
      <4>4. QED
        BY <4>1, <4>3
    <3>2. CASE m < n
      <4>1. j[m] = k[m] /\ m <= Len(k)
        BY <1>1, <1>2, <1>3, <3>2
      <4>2. QED
        BY <4>1, <1>3
    <3>3. QED
      BY <1>1, <1>2, <1>3, <1>5, <3>1, <3>2
  <2>3. QED
    BY <2>1, <2>2, <1>3 DEF KeyBefore
<1>6. QED
  BY <1>1, <1>2, <1>3, <1>4, <1>5

\* No key is before itself.
LEMMA KeysIrreflexive == \A k \in Keys : ~KeyBefore(k, k)
BY WordsAssumption DEF KeyBefore, Keys, Words

\* So keys are ordered by it.
LEMMA ByKeyOrders ==
  ASSUME NEW S, S \subseteq Keys
  PROVE  StrictOrder(S, ByKey(S))
<1>1. \A k, l \in S : <<k, l>> \in ByKey(S) <=> KeyBefore(k, l)
  BY DEF ByKey
<1>2. QED
  BY <1>1, KeysDiffer, KeysTransitive, KeysIrreflexive DEF StrictOrder

\* So are the keys of a map by the ranks of names, and where these are equal by key.
LEMMA ByNameOrders ==
  ASSUME NEW map, DOMAIN map \subseteq Keys,
         \A k \in DOMAIN map : map[k].name \in DOMAIN NameRank
  PROVE  StrictOrder(DOMAIN map, ByName(map))
<1> DEFINE R(k) == NameRank[map[k].name]
<1>1. \A k \in DOMAIN map : R(k) \in Nat
  BY WordsAssumption
<1>2. \A k, l \in DOMAIN map :
        <<k, l>> \in ByName(map) <=> (R(k) < R(l) \/ (R(k) = R(l) /\ KeyBefore(k, l)))
  BY DEF ByName
<1> HIDE DEF R
<1>3. \A k \in DOMAIN map : <<k, k>> \notin ByName(map)
  BY <1>1, <1>2, KeysIrreflexive
<1>4. ASSUME NEW k \in DOMAIN map, NEW l \in DOMAIN map, k # l
      PROVE  <<k, l>> \in ByName(map) \/ <<l, k>> \in ByName(map)
  <2>1. KeyBefore(k, l) \/ KeyBefore(l, k)
    BY <1>4, KeysDiffer
  <2>2. QED
    BY <2>1, <1>1, <1>2
<1>5. ASSUME NEW j \in DOMAIN map, NEW k \in DOMAIN map, NEW l \in DOMAIN map,
             <<j, k>> \in ByName(map), <<k, l>> \in ByName(map)
      PROVE  <<j, l>> \in ByName(map)
  <2>1. KeyBefore(j, k) /\ KeyBefore(k, l) => KeyBefore(j, l)
    BY KeysTransitive
  <2>2. QED
    BY <2>1, <1>1, <1>2, <1>5
<1>6. QED
  BY <1>3, <1>4, <1>5 DEF StrictOrder

-----------------------------------------------------------------------------
(* Options *)

\* A finite map of keys.
KeyMap(map) == IsFiniteSet(DOMAIN map) /\ DOMAIN map \subseteq Keys

\* What assigning to a map leaves in it, by key.
LEMMA PutDomain ==
  ASSUME NEW map, NEW key, NEW thing
  PROVE  DOMAIN Put(map, key, thing) = (DOMAIN map) \cup {key}
BY DEF Put

\* A map of keys stays one, whichever module assigns to it.
LEMMA PutKeys ==
  ASSUME NEW map, KeyMap(map), NEW key \in Keys, NEW thing
  PROVE  KeyMap(Put(map, key, thing)) /\ KeyMap(Cmd!Put(map, key, thing))
<1>1. Cmd!Put(map, key, thing) = Put(map, key, thing)
  BY DEF Put, Cmd!Put
<1>2. IsFiniteSet((DOMAIN map) \cup {key}) /\ (DOMAIN map) \cup {key} \subseteq Keys
  BY FS_AddElement DEF KeyMap
<1>3. DOMAIN Put(map, key, thing) = (DOMAIN map) \cup {key}
  BY PutDomain
<1>4. KeyMap(Put(map, key, thing))
  BY <1>2, <1>3, Zenon DEF KeyMap
<1>5. QED
  BY <1>1, <1>4, Zenon

\* options has each key of map as a value, with a name.
Lists(list, map) ==
  /\ Len(list) \in Nat /\ DOMAIN list = 1..Len(list)
  /\ \A i \in 1..Len(list) : /\ list[i].value \in DOMAIN map
                             /\ list[i].name = map[list[i].value].name
  /\ \A k \in DOMAIN map : \E i \in 1..Len(list) : list[i].value = k

\* A map that is sorted by any strict order lists its keys with their names, each once.
LEMMA SortedLists ==
  ASSUME NEW map, IsFiniteSet(DOMAIN map), NEW order, StrictOrder(DOMAIN map, order),
         NEW list,
         LET keys == Sorted(DOMAIN map, order)
         IN  list = [i \in DOMAIN keys |-> [value |-> keys[i], name |-> map[keys[i]].name]]
  PROVE  Lists(list, map)
<1> DEFINE n == Cardinality(DOMAIN map)
           keys == Sorted(DOMAIN map, order)
<1>1. /\ n \in Nat /\ keys \in [1..n -> DOMAIN map]
      /\ \A k \in DOMAIN map : \E i \in 1..n : keys[i] = k
  BY SortedMembers
<1>2. list = [i \in DOMAIN keys |-> [value |-> keys[i], name |-> map[keys[i]].name]]
  OBVIOUS
<1> HIDE DEF n, keys
<1>3. list = [i \in 1..n |-> [value |-> keys[i], name |-> map[keys[i]].name]]
  BY <1>1, <1>2
<1>4. Len(list) = n /\ DOMAIN list = 1..n
  <2> DEFINE Option == {list[i] : i \in 1..n}
  <2>1. list \in [1..n -> Option]
    BY <1>3
  <2> HIDE DEF Option
  <2>2. QED
    BY <2>1, <1>1, LenOf
<1>5. ASSUME NEW i \in 1..n
      PROVE  list[i].value = keys[i] /\ list[i].name = map[keys[i]].name
  <2>1. list[i] = [value |-> keys[i], name |-> map[keys[i]].name]
    BY <1>3
  <2>2. QED
    BY <2>1
<1>6. \A i \in 1..n : list[i].value \in DOMAIN map /\ list[i].name = map[list[i].value].name
  BY <1>1, <1>5
<1>7. \A k \in DOMAIN map : \E i \in 1..n : list[i].value = k
  BY <1>1, <1>5
<1>8. QED
  BY <1>1, <1>4, <1>6, <1>7 DEF Lists

\* So do the options of a map (optionsFromModes, profileOptions).
LEMMA OptionsListed ==
  ASSUME NEW map, KeyMap(map), \A k \in DOMAIN map : map[k].name \in DOMAIN NameRank
  PROVE  Lists(OptionsOf(map), map)
BY ByNameOrders, SortedLists DEF OptionsOf, KeyMap

\* OptionValue is the value of an option with that value or name, or there is none.
LEMMA ValueChosen ==
  ASSUME NEW list, Len(list) \in Nat, NEW input
  PROVE  \/ \E i \in 1..Len(list) : /\ input \in {list[i].value, list[i].name}
                                   /\ OptionValue(list, input) = list[i].value
         \/ /\ \A i \in 1..Len(list) : input \notin {list[i].value, list[i].name}
            /\ OptionValue(list, input) = <<>>
<1> DEFINE I == {i \in 1..Len(list) : input \in {list[i].value, list[i].name}}
<1>1. I # {} => Min(I) \in I
  <2>1. I \subseteq Nat
    OBVIOUS
  <2> HIDE DEF I
  <2>2. QED
    BY <2>1, Least
<1>2. OptionValue(list, input) = LET n == IF I # {} THEN Min(I) ELSE 0
                                 IN  IF n = 0 THEN <<>> ELSE list[n].value
  BY Zenon DEF OptionValue, SelectInSeq
<1>3. CASE I = {}
  BY <1>2, <1>3
<1>4. CASE I # {}
  <2>1. Min(I) \in 1..Len(list) /\ input \in {list[Min(I)].value, list[Min(I)].name}
    BY <1>1, <1>4
  <2> HIDE DEF I
  <2>2. OptionValue(list, input) = list[Min(I)].value
    BY <1>2, <1>4, <2>1
  <2>3. QED
    BY <2>1, <2>2
<1>5. QED
  BY <1>3, <1>4

\* OptionName is what is shown for an option with that value, or there is none.
LEMMA NameShown ==
  ASSUME NEW list, Len(list) \in Nat, NEW value
  PROVE  \/ \E i \in 1..Len(list) : /\ list[i].value = value
                                   /\ OptionName(list, value) = Shown(list[i])
         \/ \A i \in 1..Len(list) : list[i].value # value
<1> DEFINE I == {i \in 1..Len(list) : list[i].value = value}
<1>1. I # {} => Min(I) \in I
  <2>1. I \subseteq Nat
    OBVIOUS
  <2> HIDE DEF I
  <2>2. QED
    BY <2>1, Least
<1>2. OptionName(list, value) = LET n == IF I # {} THEN Min(I) ELSE 0
                                IN  IF n = 0 THEN value ELSE Shown(list[n])
  BY Zenon DEF OptionName, SelectInSeq
<1>3. CASE I = {}
  BY <1>3
<1>4. CASE I # {}
  <2>1. Min(I) \in 1..Len(list) /\ list[Min(I)].value = value
    BY <1>1, <1>4
  <2> HIDE DEF I
  <2>2. OptionName(list, value) = Shown(list[Min(I)])
    BY <1>2, <1>4, <2>1
  <2>3. QED
    BY <2>1, <2>2
<1>5. QED
  BY <1>3, <1>4

\* Sending back the name that is shown for a key chooses that key, unless the name is
\* the key of another.
LEMMA NameChooses ==
  ASSUME NEW map, NEW list, Lists(list, map), ValidSelect(list), NEW k \in DOMAIN map,
         map[k].name # <<>>, map[k].name \notin (DOMAIN map) \ {k}
  PROVE  OptionValue(list, map[k].name) = k
<1> DEFINE name == map[k].name
<1>1. PICK i \in 1..Len(list) : list[i].value = k /\ list[i].name = name
  BY DEF Lists
<1>2. PICK j \in 1..Len(list) : /\ name \in {list[j].value, list[j].name}
                                /\ OptionValue(list, name) = list[j].value
  <2> HIDE DEF name
  <2>1. Len(list) \in Nat
    BY DEF Lists
  <2>2. name \in {list[i].value, list[i].name}
    BY <1>1
  <2>3. QED
    BY <2>1, <2>2, ValueChosen, Zenon
<1>3. CASE name = list[j].value
  BY <1>2, <1>3 DEF Lists
<1>4. CASE name = list[j].name
  <2>1. Shown(list[i]) = Shown(list[j])
    BY <1>1, <1>4 DEF Shown
  <2>2. i = j
    BY <2>1 DEF ValidSelect
  <2>3. QED
    BY <2>2, <1>1, <1>2
<1>5. QED
  BY <1>2, <1>3, <1>4

-----------------------------------------------------------------------------
(* The actions of the runner *)

\* The runner's options are the entity's (the instance has its own copy of the operators).
LEMMA CmdEntity ==
  /\ \A list, input : Cmd!OptionValue(list, input) = OptionValue(list, input)
  /\ \A list, value : Cmd!OptionName(list, value) = OptionName(list, value)
  /\ \A list : Cmd!ValidSelect(list) = ValidSelect(list)
  /\ \A option : Cmd!Shown(option) = Shown(option)
  /\ \A S, order : Cmd!Sorted(S, order) = Sorted(S, order)
<1>1. \A list, input : Cmd!OptionValue(list, input) = OptionValue(list, input)
  BY Zenon DEF Cmd!OptionValue, OptionValue, Cmd!SelectInSeq, SelectInSeq, Cmd!Min, Min
<1>2. \A list, value : Cmd!OptionName(list, value) = OptionName(list, value)
  BY Zenon DEF Cmd!OptionName, OptionName, Cmd!SelectInSeq, SelectInSeq, Cmd!Min, Min,
               Cmd!Shown, Shown
<1>3. \A list : Cmd!ValidSelect(list) = ValidSelect(list)
  BY Zenon DEF Cmd!ValidSelect, ValidSelect, Cmd!Shown, Shown
<1>4. \A option : Cmd!Shown(option) = Shown(option)
  BY Zenon DEF Cmd!Shown, Shown
<1>5. \A S, order : Cmd!Sorted(S, order) = Sorted(S, order)
  BY Zenon DEF Sorted, Cmd!Sorted, Cardinality, Cmd!Cardinality
<1>6. QED
  BY <1>1, <1>2, <1>3, <1>4, <1>5, Zenon

\* A map of options: keys, and for each its parameters by name.
OptionMap(map) == KeyMap(map) /\ \A k \in DOMAIN map : Params(map[k].params)

\* The options of the runner, listed or configured, list the keys of their map as well.
LEMMA KeysListed ==
  ASSUME KeyMap(Cmd!Options)
  PROVE  Lists(Cmd!OptionList, Cmd!Options)
<1> DEFINE map == Cmd!Options
           order == Cmd!ByKey(DOMAIN map)
<1>1. order = ByKey(DOMAIN map)
  BY DEF ByKey, Cmd!ByKey, KeyBefore, Cmd!KeyBefore
<1>2. StrictOrder(DOMAIN map, order)
  BY <1>1, ByKeyOrders DEF KeyMap
<1>3. QED
  BY <1>2, CmdEntity, SortedLists DEF Cmd!OptionList, KeyMap

\* A map of options stays one when an option is put into it.
LEMMA PutOptions ==
  ASSUME NEW map, OptionMap(map), NEW key \in Keys, NEW thing, Params(thing.params)
  PROVE  OptionMap(Cmd!Put(map, key, thing))
<1> DEFINE new == Cmd!Put(map, key, thing)
<1>1. new = [k \in DOMAIN map \cup {key} |-> IF k = key THEN thing ELSE map[k]]
  BY DEF Cmd!Put
<1>2. KeyMap(new)
  BY PutKeys DEF OptionMap
<1>3. ASSUME NEW k \in DOMAIN new PROVE Params(new[k].params)
  <2>1. new[k] = IF k = key THEN thing ELSE map[k]
    BY <1>1
  <2>2. k # key => k \in DOMAIN map
    BY <1>1
  <2> HIDE DEF new
  <2>3. QED
    BY <2>1, <2>2 DEF OptionMap
<1>4. QED
  BY <1>2, <1>3 DEF OptionMap

\* What is made of a printed listing is a map of options (parseOptionsGetterJSON).
LEMMA DiscoveredKeys ==
  ASSUME NEW listing \in Listings, \A i \in DOMAIN listing : listing[i].name # <<>>
  PROVE  OptionMap(Cmd!OptionsFrom(listing))
<1> DEFINE dropped(i) == \E j \in 1..(i - 1) : listing[j].name = listing[i].name
      key(i) ==
        IF listing[i].value # <<>> THEN listing[i].value
        ELSE IF Slug[listing[i].name] # <<>> THEN Slug[listing[i].name]
        ELSE <<"opt", Numeral[i - 1]>>
      add(map, i) ==
        Cmd!Put(map, IF key(i) \in DOMAIN map THEN Append(key(i), Numeral[i - 1]) ELSE key(i),
            [name |-> listing[i].name, params |-> listing[i].params])
      Step(f, n) == IF n = 0 THEN <<>> ELSE IF dropped(n) THEN f[n - 1] ELSE add(f[n - 1], n)
      first[n \in 0..Len(listing)] == Step(first, n)
<1>1. Cmd!OptionsFrom(listing) = first[Len(listing)]
  BY DEF Cmd!OptionsFrom
<1>2. first = CHOOSE f : f = [n \in 0..Len(listing) |-> Step(f, n)]
  BY DEF Cmd!OptionsFrom
<1> DEFINE Exists == {m \in Nat : \E f : f = [n \in 0..m |-> Step(f, n)]}
<1> HIDE DEF first, add, dropped
<1>3. ASSUME NEW f, NEW g, NEW n, n # 0 => f[n - 1] = g[n - 1]
      PROVE  Step(f, n) = Step(g, n)
  BY <1>3
<1>4. 0 \in Exists
  <2>1. [n \in 0..0 |-> <<>>] = [n \in 0..0 |-> Step([j \in 0..0 |-> <<>>], n)]
    OBVIOUS
  <2>2. QED
    BY <2>1
<1>5. ASSUME NEW m \in Nat, m \in Exists PROVE m + 1 \in Exists
  <2>1. PICK f : f = [n \in 0..m |-> Step(f, n)]
    BY <1>5
  <2> HIDE DEF Step
  <2> DEFINE g == [n \in 0..(m + 1) |-> IF n <= m THEN f[n] ELSE Step(f, m + 1)]
  <2>2. ASSUME NEW n \in 0..(m + 1) PROVE g[n] = Step(g, n)
    <3>1. n # 0 => g[n - 1] = f[n - 1]
      OBVIOUS
    <3>2. Step(g, n) = Step(f, n)
      <4> HIDE DEF g
      <4>1. QED
        BY <3>1, <1>3
    <3>3. CASE n <= m
      BY <2>1, <3>2, <3>3
    <3>4. CASE n = m + 1
      BY <3>2, <3>4
    <3>5. QED
      BY <3>3, <3>4
  <2>3. g = [n \in 0..(m + 1) |-> Step(g, n)]
    BY <2>2
  <2> HIDE DEF g
  <2>4. \E h : h = [n \in 0..(m + 1) |-> Step(h, n)]
    BY <2>3, Zenon
  <2>5. QED
    BY <2>4
<1>6. first = [n \in 0..Len(listing) |-> Step(first, n)]
  <2> HIDE DEF Step
  <2>1. Len(listing) \in Exists
    <3> HIDE DEF Exists
    <3>1. Nat \subseteq Exists
      BY <1>4, <1>5, Induction
    <3>2. QED
      BY <3>1, ActionsAssumption
  <2>2. QED
    BY <2>1, <1>2
<1>7. ASSUME NEW i \in 1..Len(listing), NEW map, OptionMap(map)
      PROVE  OptionMap(add(map, i))
  <2>1. key(i) \in Keys /\ Numeral[i - 1] \in Words
    BY ActionsAssumption, WordsAssumption DEF Keys
  <2>2. key(i) \in Keys /\ Append(key(i), Numeral[i - 1]) \in Keys
    BY <2>1 DEF Keys
  <2>3. Params([name |-> listing[i].name, params |-> listing[i].params].params)
    BY ActionsAssumption
  <2>4. QED
    BY <2>2, <2>3, <1>7, PutOptions DEF add
<1> DEFINE T == {n \in Nat : n <= Len(listing) => OptionMap(first[n])}
<1>8. 0 \in T
  <2>1. first[0] = <<>>
    BY <1>6, ActionsAssumption
  <2>2. DOMAIN <<>> = {}
    OBVIOUS
  <2>3. QED
    BY <2>1, <2>2, FS_EmptySet DEF OptionMap, KeyMap
<1>9. ASSUME NEW n \in Nat, n \in T PROVE n + 1 \in T
  <2>1. SUFFICES ASSUME n + 1 <= Len(listing) PROVE OptionMap(first[n + 1])
    OBVIOUS
  <2>2. Len(listing) \in Nat /\ n + 1 \in 0..Len(listing) /\ n + 1 \in 1..Len(listing)
    BY <2>1, ActionsAssumption
  <2>3. first[n + 1] = IF dropped(n + 1) THEN first[n] ELSE add(first[n], n + 1)
    BY <1>6, <2>2
  <2>4. OptionMap(first[n])
    BY <1>9, <2>1, <2>2
  <2>5. QED
    BY <2>2, <2>3, <2>4, <1>7
<1>10. Len(listing) \in T
  <2> HIDE DEF T
  <2>1. QED
    BY <1>8, <1>9, Induction, ActionsAssumption
<1>11. QED
  BY <1>1, <1>10, ActionsAssumption

\* What is known of a command on its way: parameters have names, and Home Assistant
\* sends the payload of a choice (Offers).
OnItsWay ==
  /\ action.kind = "button" =>
       Params(Cmd!Fields(sent.payload)) /\ Params(Cmd!Fields(Cmd!Decoded(sent.payload)))
  /\ sent.by = "ha" =>
       /\ action.kind = "select" =>
            \E name : sent.choice = <<"str", name>> /\ sent.payload = Cmd!Templated(name)
       /\ action.kind = "switch" =>
            \E b \in BOOLEAN : /\ sent.choice = <<"bool", b>>
                               /\ sent.payload = Cmd!Field("value", sent.choice)
       /\ action.kind = "button" => sent.payload = Cmd!Field("action", <<"str", <<"press">>>>)

\* An action that passed validation, with its parameters by name.
GoodAction ==
  /\ Cmd!ValidAction(action) /\ OptionMap(action.options)
  /\ Params(action.setter.on) /\ Params(action.setter.off)

\* The options are a map of options, an action that is listed or served is valid, and a
\* command on its way is one that can be sent.
CmdInv ==
  /\ Cmd!CommandTypeOK
  /\ OptionMap(discovered)
  /\ cmdPhase = "loading" => action \in Actions
  /\ cmdPhase \in {"listing", "registering"} \cup Cmd!Served => GoodAction
  /\ cmdPhase = "called" => OnItsWay

\* No parameters are parameters by name, and no options are a map of options.
LEMMA NoMap == Params(<<>>) /\ OptionMap(<<>>)
<1>1. DOMAIN <<>> = {}
  OBVIOUS
<1>2. QED
  BY <1>1, FS_EmptySet DEF Params, OptionMap, KeyMap

\* The invariant holds before anything is loaded, and while another part is at work.
LEMMA CmdStarts ==
  ASSUME Cmd!CommandInit \/ CommandOff
  PROVE  CmdInv
<1>1. /\ cmdPhase \in {"loading", "off"} /\ discovered = <<>> /\ run = Cmd!Nothing
      /\ sent.by = "nobody"
  BY DEF Cmd!CommandInit, CommandOff
<1>2. cmdPhase = "loading" => action \in Actions
  BY DEF Cmd!CommandInit, CommandOff
<1>3. Cmd!CommandTypeOK
  BY <1>1 DEF Cmd!CommandTypeOK, Cmd!Nothing, Cmd!Served
<1>4. QED
  BY <1>1, <1>2, <1>3, NoMap DEF CmdInv, Cmd!Served

\* What follows from it once the action is loaded.
LEMMA CmdLoaded ==
  ASSUME CmdInv, cmdPhase \in {"listing", "registering"} \cup Cmd!Served
  PROVE  /\ GoodAction /\ OptionMap(discovered) /\ OptionMap(Cmd!Options)
         /\ KeyMap(Cmd!Options) /\ Lists(Cmd!OptionList, Cmd!Options)
<1>1. GoodAction /\ OptionMap(discovered)
  BY DEF CmdInv
<1>2. OptionMap(Cmd!Options) /\ KeyMap(Cmd!Options)
  BY <1>1 DEF Cmd!Options, GoodAction, OptionMap
<1>3. QED
  BY <1>1, <1>2, KeysListed

-----------------------------------------------------------------------------
(* What a runner action runs *)

\* The first option that has a text as its name is the one whose value it is turned to,
\* if the text is not the value of one before it.
LEMMA FirstChosen ==
  ASSUME NEW list, Len(list) \in Nat, ValidSelect(list), NEW i \in 1..Len(list),
         NEW name, name = Shown(list[i]), \A j \in 1..(i - 1) : list[j].value # name
  PROVE  name # <<>> /\ OptionValue(list, name) = list[i].value
<1> DEFINE I == {j \in 1..Len(list) : name \in {list[j].value, list[j].name}}
<1>1. name # <<>> /\ i \in I
  BY DEF ValidSelect, Shown
<1>2. \A j \in I : i <= j
  <2>1. SUFFICES ASSUME NEW j \in I, j < i PROVE FALSE
    OBVIOUS
  <2>2. list[j].name = name
    BY <2>1
  <2>3. Shown(list[j]) = Shown(list[i])
    BY <2>2, <1>1 DEF Shown
  <2>4. QED
    BY <2>1, <2>3 DEF ValidSelect
<1>3. Min(I) = i
  <2> DEFINE least == Min(I)
  <2>1. I \subseteq Nat /\ I # {}
    BY <1>1
  <2> HIDE DEF I
  <2>2. least \in I /\ least <= i
    BY <2>1, <1>1, Least
  <2> HIDE DEF least
  <2>3. least \in Nat /\ i \in Nat /\ i <= least
    BY <2>1, <2>2, <1>2
  <2>4. QED
    BY <2>2, <2>3 DEF least
<1>4. OptionValue(list, name) = LET n == IF I # {} THEN Min(I) ELSE 0
                                IN  IF n = 0 THEN <<>> ELSE list[n].value
  BY Zenon DEF OptionValue, SelectInSeq
<1> HIDE DEF I
<1>5. I # {} /\ i # 0
  BY <1>1
<1>6. QED
  BY <1>1, <1>3, <1>4, <1>5

\* What is shown for the value of an option of a list is shown for that option.
LEMMA ValueShown ==
  ASSUME NEW list, NEW map, Lists(list, map), NEW i \in 1..Len(list)
  PROVE  OptionName(list, list[i].value) = Shown(list[i])
<1>1. Len(list) \in Nat
  BY DEF Lists
<1>2. PICK j \in 1..Len(list) : /\ list[j].value = list[i].value
                                /\ OptionName(list, list[i].value) = Shown(list[j])
  BY <1>1, NameShown
<1>3. list[j].name = list[i].name
  BY <1>2 DEF Lists
<1>4. QED
  BY <1>2, <1>3 DEF Shown

\* A choice that is offered runs, with the parameters of the option (ChoicesWork).
LEMMA OptionRuns ==
  ASSUME KeyMap(Cmd!Options), ValidSelect(Cmd!OptionList), NEW i \in DOMAIN Cmd!OptionList,
         NEW name, name = Shown(Cmd!OptionList[i]), name \notin DOMAIN Unescaped,
         \A j \in 1..(i - 1) : Cmd!OptionList[j].value # name,
         Cmd!Configured(Cmd!Options[Cmd!OptionList[i].value].params)
  PROVE  Cmd!SelectRuns(Cmd!Templated(name)) =
           {[value |-> <<"str", name>>,
             params |-> Cmd!Options[Cmd!OptionList[i].value].params]}
<1> DEFINE list == Cmd!OptionList
           key == list[i].value
           text == <<"str", name>>
<1>1. Lists(list, Cmd!Options)
  BY KeysListed
<1>2. Len(list) \in Nat /\ i \in 1..Len(list)
  BY <1>1 DEF Lists
<1>3. name # <<>> /\ OptionValue(list, name) = key
  <2> HIDE DEF list
  <2>1. /\ ValidSelect(list) /\ name = Shown(list[i])
        /\ \A j \in 1..(i - 1) : list[j].value # name
    BY DEF list
  <2>2. QED
    BY <2>1, <1>2, FirstChosen
<1>4. key # <<>>
  BY <1>2 DEF ValidSelect
<1>5. OptionName(list, key) = name
  BY <1>1, <1>2, ValueShown
<1>6. Cmd!Templated(name) = Cmd!Field("value", text)
  BY DEF Cmd!Templated
<1>7. Cmd!Decoded(Cmd!Field("value", text)) = text
  BY DEF Cmd!Decoded, Cmd!Field
<1>8. text[1] = "str" /\ text[2] = name
  OBVIOUS
<1> HIDE DEF key, text
<1>9. Cmd!SelectRuns(Cmd!Field("value", text)) =
        {[value |-> <<"str", name>>, params |-> Cmd!Options[key].params]}
  <2>1. Cmd!Configured(Cmd!Options[key].params)
    BY DEF key
  <2>2. Cmd!OptionValue(Cmd!OptionList, name) = key /\ Cmd!OptionName(Cmd!OptionList, key) = name
    BY <1>3, <1>5, CmdEntity
  <2>3. QED
    BY <1>3, <1>4, <1>7, <1>8, <2>1, <2>2, Zenon DEF Cmd!SelectRuns
<1>10. QED
  BY <1>6, <1>9 DEF key

\* So does a position of a switch ...
LEMMA SideRuns ==
  ASSUME NEW b \in BOOLEAN,
         LET side == IF <<"bool", b>> = <<"bool", TRUE>> THEN action.setter.on
                     ELSE action.setter.off
         IN  Cmd!Configured(side)
  PROVE  LET side == IF <<"bool", b>> = <<"bool", TRUE>> THEN action.setter.on
                     ELSE action.setter.off
         IN  Cmd!SwitchRuns(Cmd!Field("value", <<"bool", b>>)) =
               {[value |-> <<"bool", b>>, params |-> side]}
<1> DEFINE choice == <<"bool", b>>
           side == IF choice = <<"bool", TRUE>> THEN action.setter.on ELSE action.setter.off
           payload == Cmd!Field("value", choice)
<1>1. Cmd!Decoded(payload) = choice
  BY DEF Cmd!Decoded, Cmd!Field
<1>2. Cmd!IsSwitch(choice) /\ Cmd!IsOn(choice) = b
  BY DEF Cmd!IsSwitch, Cmd!IsOn
<1>3. side = IF b THEN action.setter.on ELSE action.setter.off
  <2>1. CASE b = TRUE
    BY <2>1, Zenon
  <2>2. CASE b = FALSE
    <3>1. <<"bool", FALSE>> # <<"bool", TRUE>>
      OBVIOUS
    <3>2. QED
      BY <2>2, <3>1, Zenon
  <2>3. QED
    BY <2>1, <2>2, Zenon
<1>4. (IF Cmd!IsOn(choice) THEN action.setter.on ELSE action.setter.off) = side
  BY <1>2, <1>3, Zenon
<1>5. Cmd!Configured(side)
  OBVIOUS
<1> HIDE DEF side, payload
<1>6. Cmd!SwitchRuns(payload) = {[value |-> <<"bool", Cmd!IsOn(choice)>>, params |-> side]}
  BY <1>1, <1>2, <1>4, <1>5, Zenon DEF Cmd!SwitchRuns
<1>7. QED
  BY <1>2, <1>6 DEF side, payload

\* ... and a button that takes no input.
LEMMA PressRuns ==
  ASSUME action.kind = "button", action.setter.input = "none", NEW size
  PROVE  Cmd!Runs(Cmd!Field("action", <<"str", <<"press">>>>), size) =
           {[value |-> <<"null">>, params |-> <<>>]}
<1>1. Cmd!Field("action", <<"str", <<"press">>>>)[1] = "map"
  BY DEF Cmd!Field
<1>2. QED
  BY <1>1 DEF Cmd!Runs, Cmd!ButtonRuns

\* Parameters that were declared (OnlyDeclared).
Declared(q) ==
  LET s == action.setter
  IN  /\ action.kind = "select" => \E k \in DOMAIN Cmd!Options : Cmd!Options[k].params = q
      /\ action.kind = "switch" => q \in {s.on, s.off}
      /\ s.input = "none" /\ action.kind = "button" => q = <<>>
      /\ s.schema # <<>> /\ s.input # "none" /\ action.kind = "button" =>
           /\ Cmd!Missing(s.schema, q) = {}
           /\ \A p \in DOMAIN q : IF p \in DOMAIN s.schema THEN Cmd!Conforms(s.schema[p], q[p])
                                ELSE s.input = "json" /\ ~s.strict

\* A button sends the parameters that its structured payload declares.
LEMMA ButtonDeclared ==
  ASSUME action.kind = "button", Cmd!ValidSetter(action.setter), NEW payload, NEW size,
         Params(Cmd!Fields(payload)), Params(Cmd!Fields(Cmd!Decoded(payload))),
         NEW r \in Cmd!ButtonRuns(payload, size)
  PROVE  \E v, q : r = [value |-> v, params |-> q] /\ Declared(q) /\ Params(q)
<1> DEFINE s == action.setter
           q == IF s.input = "structured" THEN Cmd!Fields(Cmd!Decoded(payload))
                ELSE IF s.input = "json" THEN Cmd!Fields(payload) ELSE <<>>
<1>1. s.input \in {"none", "structured", "json"}
  BY DEF Cmd!ValidSetter
<1>2. /\ r = [value |-> <<"null">>, params |-> q]
      /\ s.input = "structured" => Cmd!ValidParams(s.schema, q, TRUE)
      /\ s.input = "json" => Cmd!ValidParams(s.schema, q, s.strict)
  <2>1. CASE s.input = "none"
    BY <2>1 DEF Cmd!ButtonRuns
  <2>2. CASE s.input = "structured"
    BY <2>2 DEF Cmd!ButtonRuns
  <2>3. CASE s.input = "json"
    BY <2>3 DEF Cmd!ButtonRuns
  <2>4. QED
    BY <1>1, <2>1, <2>2, <2>3
<1>3. (s.input = "none" => q = <<>>) /\ Params(q)
  BY NoMap
<1> HIDE DEF q, s
<1>4. s.schema # <<>> /\ s.input # "none" =>
        /\ Cmd!Missing(s.schema, q) = {}
        /\ \A p \in DOMAIN q : IF p \in DOMAIN s.schema THEN Cmd!Conforms(s.schema[p], q[p])
                             ELSE s.input = "json" /\ ~s.strict
  BY <1>1, <1>2 DEF Cmd!ValidParams
<1>5. Declared(q)
  BY <1>3, <1>4 DEF Declared, s
<1>6. QED
  BY <1>2, <1>3, <1>5

\* A select sends those of an option, whatever was published.
LEMMA SelectDeclared ==
  ASSUME action.kind = "select", OptionMap(Cmd!Options), NEW payload,
         NEW r \in Cmd!SelectRuns(payload)
  PROVE  \E v, q : /\ r = [value |-> v, params |-> q] /\ Declared(q) /\ Params(q)
                   /\ \E i \in DOMAIN Cmd!OptionList : v = <<"str", Shown(Cmd!OptionList[i])>>
<1> DEFINE list == Cmd!OptionList
           map == Cmd!Options
           word == Cmd!Decoded(payload)
           key == IF word[1] = "str" THEN OptionValue(list, word[2]) ELSE <<>>
<1>1. Lists(list, map)
  BY KeysListed DEF OptionMap
<1> HIDE DEF list, map
<1>2. Len(list) \in Nat /\ DOMAIN list = 1..Len(list)
  BY <1>1 DEF Lists
<1>3. key # <<>> /\ r = [value |-> <<"str", OptionName(list, key)>>, params |-> map[key].params]
  BY CmdEntity, Zenon DEF Cmd!SelectRuns, list, map
<1>4. key = OptionValue(list, word[2])
  BY <1>3
<1> HIDE DEF word, key
<1>5. PICK j \in 1..Len(list) : key = list[j].value
  BY <1>2, <1>3, <1>4, ValueChosen
<1>6. key \in DOMAIN map
  BY <1>1, <1>2, <1>5 DEF Lists
<1>7. \E i \in 1..Len(list) : OptionName(list, key) = Shown(list[i])
  BY <1>2, <1>5, NameShown
<1>8. Declared(map[key].params) /\ Params(map[key].params)
  BY <1>6 DEF Declared, OptionMap, map
<1>9. QED
  BY <1>2, <1>3, <1>7, <1>8, Zenon DEF list

\* Whatever the kind of action, the parameters of a run are declared.
LEMMA RunsDeclared ==
  ASSUME GoodAction, OptionMap(Cmd!Options), OnItsWay,
         NEW r \in Cmd!Runs(sent.payload, sent.size)
  PROVE  \E v, q :
           /\ r = [value |-> v, params |-> q] /\ Declared(q) /\ Params(q)
           /\ action.kind = "select" =>
                \E i \in DOMAIN Cmd!OptionList : v = <<"str", Shown(Cmd!OptionList[i])>>
<1>1. action.kind \in {"button", "select", "switch"} /\ Cmd!ValidSetter(action.setter)
  BY DEF GoodAction, Cmd!ValidAction
<1>2. CASE action.kind = "button"
  <2>1. r \in Cmd!ButtonRuns(sent.payload, sent.size)
    BY <1>2 DEF Cmd!Runs
  <2>2. Params(Cmd!Fields(sent.payload)) /\ Params(Cmd!Fields(Cmd!Decoded(sent.payload)))
    BY <1>2 DEF OnItsWay
  <2>3. QED
    BY <1>1, <1>2, <2>1, <2>2, ButtonDeclared
<1>3. CASE action.kind = "select"
  <2>1. r \in Cmd!SelectRuns(sent.payload)
    BY <1>3 DEF Cmd!Runs
  <2>2. QED
    BY <1>3, <2>1, SelectDeclared
<1>4. CASE action.kind = "switch"
  <2>1. r \in Cmd!SwitchRuns(sent.payload)
    BY <1>4 DEF Cmd!Runs
  <2>2. \E v, q : r = [value |-> v, params |-> q] /\ q \in {action.setter.on, action.setter.off}
    BY <2>1 DEF Cmd!SwitchRuns
  <2>3. QED
    BY <1>4, <2>2 DEF Declared, GoodAction
<1>5. QED
  BY <1>1, <1>2, <1>3, <1>4

-----------------------------------------------------------------------------
(* What the script reads *)

\* Parameters are put in the order of their names, and none is lost.
LEMMA NamesOrdered ==
  ASSUME NEW q, Params(q)
  PROVE  /\ Cmd!InOrder(DOMAIN q) \in [1..Cardinality(DOMAIN q) -> DOMAIN q]
         /\ DOMAIN Cmd!InOrder(DOMAIN q) = 1..Cardinality(DOMAIN q)
         /\ \A p \in DOMAIN q :
              \E i \in 1..Cardinality(DOMAIN q) : Cmd!InOrder(DOMAIN q)[i] = p
<1> DEFINE names == DOMAIN q
           order == {p \in names \X names : WordRank[p[1]] < WordRank[p[2]]}
<1>1. StrictOrder(names, order)
  <2>1. \A k, l \in names : <<k, l>> \in order <=> WordRank[k] < WordRank[l]
    OBVIOUS
  <2>2. \A k \in names : WordRank[k] \in Nat
    BY WordsAssumption DEF Params
  <2>3. \A k, l \in names : k # l => WordRank[k] # WordRank[l]
    BY WordsAssumption DEF Params, IsInjective, Words
  <2> HIDE DEF order
  <2>4. QED
    BY <2>1, <2>2, <2>3 DEF StrictOrder
<1>2. Cmd!InOrder(names) = Sorted(names, order)
  BY CmdEntity DEF Cmd!InOrder
<1>3. IsFiniteSet(names)
  BY DEF Params
<1> HIDE DEF order, names
<1>4. /\ Cmd!InOrder(names) \in [1..Cardinality(names) -> names]
      /\ \A p \in names : \E i \in 1..Cardinality(names) : Cmd!InOrder(names)[i] = p
  BY <1>1, <1>2, <1>3, SortedMembers
<1>5. DOMAIN Cmd!InOrder(names) = 1..Cardinality(names)
  BY <1>4
<1>6. QED
  BY <1>4, <1>5 DEF names

\* What is handed over as variables of the environment, of one name the last, and as
\* arguments.
LastOf(params, x) ==
  LET called == {p \in DOMAIN params : Upper[p] = x}
  IN  CHOOSE p \in called : \A q \in called \ {p} : WordRank[q] < WordRank[p]

EnvOf(params) ==
  [x \in {Upper[p] : p \in DOMAIN params} |->
     Cmd!Form(action.setter, params[LastOf(params, x)])]

ArgsOf(params) ==
  [i \in DOMAIN Cmd!InOrder(DOMAIN params) |->
     [flag |-> IF Cmd!Flagged(action.setter) THEN Cmd!InOrder(DOMAIN params)[i] ELSE "",
      text |-> Cmd!Form(action.setter, params[Cmd!InOrder(DOMAIN params)[i]])]]

\* How the parameters are handed over, each way (buildInvocation).
LEMMA Invoked ==
  ASSUME NEW v, NEW params, NEW made, made = Cmd!Invocation([value |-> v, params |-> params])
  PROVE  /\ made.ran /\ made.value = v /\ made.params = params
         /\ action.setter.delivery = "stdin_json" => made.stdin = params
         /\ action.setter.delivery = "env" => made.env = EnvOf(params)
         /\ action.setter.delivery = "args" => made.args = ArgsOf(params)
<1> DEFINE s == action.setter
           r == [value |-> v, params |-> params]
<1>1. r.value = v /\ r.params = params /\ made = Cmd!Invocation(r)
  OBVIOUS
<1> HIDE DEF r
<1>2. \E program : Cmd!Invocation(r) =
        [ran |-> TRUE, value |-> r.value, params |-> r.params, program |-> program,
         args |-> IF s.delivery = "args" THEN ArgsOf(r.params) ELSE <<>>,
         env |-> IF s.delivery = "env" THEN EnvOf(r.params) ELSE <<>>,
         stdin |-> IF s.delivery = "stdin_json" THEN r.params ELSE <<>>]
  BY Zenon DEF Cmd!Invocation, LastOf, EnvOf, ArgsOf
<1>3. QED
  BY <1>1, <1>2

\* The variable of the environment with the name of a parameter has its value, unless
\* another one has that name.
LEMMA EnvRead ==
  ASSUME NEW q, NEW p, \A n \in DOMAIN q \ {p} : Upper[n] # Upper[p],
         NEW env, env = EnvOf(q)
  PROVE  {env[x] : x \in {Upper[p]} \cap DOMAIN env} =
           {Cmd!Form(action.setter, q[n]) : n \in {p} \cap DOMAIN q}
<1>1. DOMAIN env = {Upper[n] : n \in DOMAIN q}
  BY DEF EnvOf
<1>2. CASE p \in DOMAIN q
  <2>1. {n \in DOMAIN q : Upper[n] = Upper[p]} = {p}
    BY <1>2
  <2>2. LastOf(q, Upper[p]) = p
    BY <2>1 DEF LastOf
  <2>3. Upper[p] \in DOMAIN env /\ env[Upper[p]] = Cmd!Form(action.setter, q[p])
    BY <1>2, <2>2 DEF EnvOf
  <2>4. QED
    BY <1>2, <2>3
<1>3. CASE p \notin DOMAIN q
  <2>1. Upper[p] \notin DOMAIN env
    BY <1>1, <1>3
  <2>2. {Upper[p]} \cap DOMAIN env = {} /\ {p} \cap DOMAIN q = {}
    BY <1>3, <2>1
  <2>3. QED
    BY <2>2
<1>4. QED
  BY <1>2, <1>3

\* The arguments are the parameters in their order.
LEMMA ArgsInOrder ==
  ASSUME NEW q
  PROVE  LET names == Cmd!InOrder(DOMAIN q)
         IN  /\ DOMAIN ArgsOf(q) = DOMAIN names
             /\ \A i \in DOMAIN names :
                  /\ ArgsOf(q)[i].text = Cmd!Form(action.setter, q[names[i]])
                  /\ Cmd!Flagged(action.setter) => ArgsOf(q)[i].flag = names[i]
<1> DEFINE names == Cmd!InOrder(DOMAIN q)
           flag(i) == IF Cmd!Flagged(action.setter) THEN names[i] ELSE ""
           text(i) == Cmd!Form(action.setter, q[names[i]])
<1>1. ArgsOf(q) = [i \in DOMAIN names |-> [flag |-> flag(i), text |-> text(i)]]
  BY Zenon DEF ArgsOf
<1>2. \A i : Cmd!Flagged(action.setter) => flag(i) = names[i]
  BY Zenon
<1> HIDE DEF flag, text, names
<1>3. /\ DOMAIN ArgsOf(q) = DOMAIN names
      /\ \A i \in DOMAIN names : ArgsOf(q)[i].text = text(i) /\ ArgsOf(q)[i].flag = flag(i)
  BY <1>1
<1>4. QED
  BY <1>2, <1>3, Zenon DEF text, names

\* The places of a parameter among the names.
Places(q, p) == {i \in DOMAIN Cmd!InOrder(DOMAIN q) : Cmd!InOrder(DOMAIN q)[i] = p}

\* The arguments there are its value.
LEMMA ArgsRead ==
  ASSUME NEW q, Params(q), NEW p
  PROVE  {ArgsOf(q)[i].text : i \in Places(q, p)} =
           {Cmd!Form(action.setter, q[n]) : n \in {p} \cap DOMAIN q}
<1> DEFINE names == Cmd!InOrder(DOMAIN q)
<1>1. /\ \A i \in DOMAIN names : names[i] \in DOMAIN q
      /\ p \in DOMAIN q => \E i \in DOMAIN names : names[i] = p
  BY NamesOrdered
<1>2. /\ \A i \in DOMAIN names : ArgsOf(q)[i].text = Cmd!Form(action.setter, q[names[i]])
      /\ Places(q, p) = {i \in DOMAIN names : names[i] = p}
  BY ArgsInOrder DEF Places
<1> HIDE DEF names
<1>3. \A i \in Places(q, p) :
        ArgsOf(q)[i].text = Cmd!Form(action.setter, q[p]) /\ p \in DOMAIN q
  BY <1>1, <1>2
<1>4. p \in DOMAIN q =>
        \E i \in Places(q, p) : ArgsOf(q)[i].text = Cmd!Form(action.setter, q[p])
  BY <1>1, <1>2
<1>5. QED
  BY <1>3, <1>4

\* A declared parameter that stands apart (OnlyDeclared).
Apart(q, declared, p) ==
  LET s == action.setter
  IN  CASE s.delivery = "stdin_json" -> TRUE
        [] s.delivery = "args" /\ ~Cmd!Flagged(s) -> DOMAIN q = declared
        [] OTHER -> \A n \in DOMAIN q \ {p} : Upper[n] # Upper[p]

\* It is read as the command has it, however it is delivered.
LEMMA Delivered ==
  ASSUME NEW v, NEW q, Params(q), run' = Cmd!Invocation([value |-> v, params |-> q]),
         Cmd!ValidSetter(action.setter), NEW declared, NEW p \in declared,
         Apart(q, declared, p)
  PROVE  Cmd!ReadAs(p, declared) =
           {Cmd!Form(action.setter, q[n]) : n \in {p} \cap DOMAIN q}
<1> DEFINE s == action.setter
           names == Cmd!InOrder(DOMAIN q)
<1>1. s.delivery \in {"args", "stdin_json", "env"}
  BY DEF Cmd!ValidSetter
<1>2. CASE s.delivery = "stdin_json"
  <2>1. run'.stdin = q
    BY <1>2, Invoked
  <2>2. Cmd!ReadAs(p, declared) = {q[x] : x \in {p} \cap DOMAIN q}
    BY <1>2, <2>1 DEF Cmd!ReadAs
  <2>3. \A w : Cmd!Form(s, w) = w
    BY <1>2 DEF Cmd!Form
  <2>4. QED
    BY <2>2, <2>3
<1>3. CASE s.delivery = "env"
  <2>1. \A n \in DOMAIN q \ {p} : Upper[n] # Upper[p]
    BY <1>3 DEF Apart
  <2>2. run'.env = EnvOf(q)
    BY <1>3, Invoked
  <2>3. {run'.env[x] : x \in {Upper[p]} \cap DOMAIN run'.env} =
          {Cmd!Form(s, q[n]) : n \in {p} \cap DOMAIN q}
    BY <2>1, <2>2, EnvRead
  <2>4. Cmd!ReadAs(p, declared) = {run'.env[x] : x \in {Upper[p]} \cap DOMAIN run'.env}
    BY <1>3 DEF Cmd!ReadAs
  <2>5. QED
    BY <2>3, <2>4
<1>4. CASE s.delivery = "args"
  <2> DEFINE Here(i) == IF Cmd!Flagged(s) THEN Upper[run'.args[i].flag] = Upper[p]
                         ELSE Cmd!InOrder(declared)[i] = p
  <2>1. run'.args = ArgsOf(q)
    BY <1>4, Invoked
  <2>2. \A i \in DOMAIN names : names[i] \in DOMAIN q
    BY NamesOrdered
  <2>3. Cmd!ReadAs(p, declared) =
          {run'.args[i].text : i \in {i \in DOMAIN run'.args : Here(i)}}
    BY <1>4 DEF Cmd!ReadAs
  <2>4. \A i \in DOMAIN names : Here(i) <=> names[i] = p
    <3>1. CASE Cmd!Flagged(s)
      <4>1. \A n \in DOMAIN q \ {p} : Upper[n] # Upper[p]
        BY <1>4, <3>1 DEF Apart
      <4>2. \A i \in DOMAIN names : run'.args[i].flag = names[i]
        BY <2>1, <3>1, ArgsInOrder
      <4> HIDE DEF names
      <4>3. QED
        BY <2>2, <3>1, <4>1, <4>2
    <3>2. CASE ~Cmd!Flagged(s)
      <4>1. DOMAIN q = declared
        BY <1>4, <3>2 DEF Apart
      <4>2. QED
        BY <3>2, <4>1
    <3>3. QED
      BY <3>1, <3>2
  <2>5. DOMAIN run'.args = DOMAIN names
    BY <2>1, ArgsInOrder
  <2>6. {i \in DOMAIN run'.args : Here(i)} = Places(q, p)
    BY <2>4, <2>5 DEF Places
  <2>7. Cmd!ReadAs(p, declared) = {run'.args[i].text : i \in Places(q, p)}
    BY <2>3, <2>6
  <2>8. Cmd!ReadAs(p, declared) = {ArgsOf(q)[i].text : i \in Places(q, p)}
    BY <2>1, <2>7
  <2>9. QED
    BY <2>8, ArgsRead
<1>5. QED
  BY <1>1, <1>2, <1>3, <1>4

-----------------------------------------------------------------------------
(* The steps of a runner action *)

\* A value of an option is shown as the option.
LEMMA OptionShown ==
  ASSUME NEW v, \E i \in DOMAIN Cmd!OptionList : v = <<"str", Shown(Cmd!OptionList[i])>>
  PROVE  Cmd!Text(v) \in {Cmd!Shown(o) : o \in Cmd!Range(Cmd!OptionList)}
<1>1. PICK i \in DOMAIN Cmd!OptionList : v = <<"str", Shown(Cmd!OptionList[i])>>
  OBVIOUS
<1>2. v[1] = "str" /\ v[2] = Cmd!Shown(Cmd!OptionList[i])
  BY <1>1, CmdEntity
<1>3. Cmd!Text(v) = Cmd!Shown(Cmd!OptionList[i])
  BY <1>2, Zenon DEF Cmd!Text
<1>4. Cmd!OptionList[i] \in Cmd!Range(Cmd!OptionList)
  BY DEF Cmd!Range
<1>5. QED
  BY <1>3, <1>4

\* What a state command prints is shown as an option.
LEMMA GotOffered ==
  ASSUME KeyMap(Cmd!Options), action.kind = "select", NEW text, NEW v \in Cmd!Got(text)
  PROVE  Cmd!Text(v) \in {Cmd!Shown(o) : o \in Cmd!Range(Cmd!OptionList)}
<1> DEFINE list == Cmd!OptionList
<1>1. Len(list) \in Nat /\ DOMAIN list = 1..Len(list)
  BY KeysListed DEF Lists
<1>2. v \in Cmd!OptionFor(text)
  BY DEF Cmd!Got
<1> DEFINE I == {i \in 1..Len(list) : text \in {list[i].name, list[i].value}}
           J == {i \in 1..Len(list) : Cmd!Matches(text, Cmd!Options[list[i].value].params)}
           exact == IF I # {} THEN Min(I) ELSE 0
           near == IF J # {} THEN Min(J) ELSE 0
<1>3. Cmd!OptionFor(text) =
        IF exact # 0 THEN {<<"str", Shown(list[exact])>>}
        ELSE IF near # 0 THEN {<<"str", Shown(list[near])>>} ELSE {}
  BY Zenon, CmdEntity DEF Cmd!OptionFor, Cmd!SelectInSeq, Cmd!Min, Min
<1>4. exact \in 1..Len(list) \/ exact = 0
  <2>1. I \subseteq Nat /\ I \subseteq 1..Len(list)
    OBVIOUS
  <2> HIDE DEF I
  <2>2. QED
    BY <2>1, Least
<1>5. near \in 1..Len(list) \/ near = 0
  <2>1. J \subseteq Nat /\ J \subseteq 1..Len(list)
    OBVIOUS
  <2> HIDE DEF J
  <2>2. QED
    BY <2>1, Least
<1> HIDE DEF exact, near, list
<1>6. \E i \in 1..Len(list) : v = <<"str", Shown(list[i])>>
  BY <1>2, <1>3, <1>4, <1>5
<1>7. QED
  BY <1>1, <1>6, OptionShown DEF list

\* Load keeps the invariant: a configured map is one of options already.
LEMMA LoadKeeps ==
  ASSUME CmdInv, Cmd!Load
  PROVE  CmdInv'
<1>1. /\ action \in Actions /\ cmdPhase = "loading" /\ OptionMap(discovered)
      /\ ~run.ran /\ sent.by = "nobody"
  BY DEF CmdInv, Cmd!Load, Cmd!CommandTypeOK
<1>2. /\ {"options", "setter"} \subseteq DOMAIN action /\ {"on", "off"} \subseteq DOMAIN action.setter
      /\ OptionMap(action.options) /\ Params(action.setter.on) /\ Params(action.setter.off)
  BY <1>1, ActionsAssumption DEF OptionMap, KeyMap
<1>3. /\ action'.options = action.options
      /\ action'.setter.on = action.setter.on /\ action'.setter.off = action.setter.off
  <2> DEFINE Like(r, s) == /\ {"options", "setter"} \subseteq DOMAIN r
                           /\ {"on", "off"} \subseteq DOMAIN r.setter
                           /\ r.options = s.options
                           /\ r.setter.on = s.setter.on /\ r.setter.off = s.setter.off
  <2>1. Like(action, action)
    BY <1>2
  <2>2. \A r, x : Like(r, action) => /\ Like([r EXCEPT !.source = x], action)
                                     /\ Like([r EXCEPT !.after = x], action)
                                     /\ Like([r EXCEPT !.setter.input = x], action)
                                     /\ Like([r EXCEPT !.setter.delivery = x], action)
    OBVIOUS
  <2> HIDE DEF Like
  <2>3. Like(Cmd!WithDefaults(action), action)
    BY <2>1, <2>2, Zenon DEF Cmd!WithDefaults
  <2>4. QED
    BY <2>3 DEF Like, Cmd!Load
<1>4. /\ cmdPhase' \in {"refused", "listing", "registering"}
      /\ cmdPhase' # "refused" => Cmd!ValidAction(action')
      /\ discovered' = discovered /\ run' = run /\ sent' = sent
  BY DEF Cmd!Load
<1>5. cmdPhase' # "refused" => GoodAction'
  BY <1>2, <1>3, <1>4 DEF GoodAction
<1>6. Cmd!CommandTypeOK'
  BY <1>1, <1>4 DEF Cmd!CommandTypeOK, Cmd!Served
<1>7. OptionMap(discovered)'
  BY <1>1, <1>4
<1>8. QED
  BY <1>4, <1>5, <1>6, <1>7 DEF CmdInv, Cmd!Served

\* What is listed is a map of options.
LEMMA ListMaps ==
  ASSUME Cmd!List
  PROVE  OptionMap(discovered')
BY DiscoveredKeys DEF Cmd!List

\* A step that keeps the action and leaves no command on its way keeps the invariant.
LEMMA CmdPrepares ==
  ASSUME CmdInv, action' = action, OptionMap(discovered'), sent'.by = "nobody",
         cmdPhase \in {"listing", "registering"} \cup Cmd!Served,
         cmdPhase' \in {"listing", "registering", "refused", "serving", "running"},
         run'.ran <=> cmdPhase' = "running",
         cmdPhase' \in {"serving", "running"} /\ action.kind = "select" => ValidSelect(announced')
  PROVE  CmdInv'
<1>1. GoodAction'
  BY CmdLoaded DEF GoodAction
<1>2. Cmd!CommandTypeOK'
  BY CmdEntity DEF Cmd!CommandTypeOK, Cmd!Served
<1>3. OptionMap(discovered)'
  OBVIOUS
<1>4. QED
  BY <1>1, <1>2, <1>3 DEF CmdInv

\* One that keeps the phase and the command keeps it if it does so to what is listed.
LEMMA CmdServes ==
  ASSUME CmdInv, cmdPhase' = cmdPhase, action' = action, run' = run, sent' = sent,
         OptionMap(discovered'),
         cmdPhase \in Cmd!Served /\ action.kind = "select" => ValidSelect(announced')
  PROVE  CmdInv'
<1>1. Cmd!CommandTypeOK'
  BY CmdEntity DEF CmdInv, Cmd!CommandTypeOK
<1>2. /\ cmdPhase = "loading" => action \in Actions
      /\ cmdPhase \in {"listing", "registering"} \cup Cmd!Served => GoodAction
      /\ cmdPhase = "called" => OnItsWay
  BY DEF CmdInv
<1>3. (GoodAction => GoodAction') /\ (OnItsWay => OnItsWay')
  BY DEF GoodAction, OnItsWay
<1>4. OptionMap(discovered)'
  OBVIOUS
<1>5. QED
  BY <1>1, <1>2, <1>3, <1>4 DEF CmdInv, Cmd!Served

\* A client that publishes a payload keeps it if what it sends is known.
LEMMA SendKeeps ==
  ASSUME CmdInv, NEW by \in {"ha", "other"}, NEW choice, NEW payload, NEW size,
         Cmd!Send(by, choice, payload, size), OnItsWay'
  PROVE  CmdInv'
<1>1. /\ cmdPhase = "serving" /\ cmdPhase' = "called" /\ action' = action /\ run' = run
      /\ discovered' = discovered /\ announced' = announced /\ sent'.by = by
  BY DEF Cmd!Send
<1>2. /\ ~run.ran /\ GoodAction /\ OptionMap(discovered)
      /\ action.kind = "select" => ValidSelect(announced)
  BY <1>1, CmdEntity DEF CmdInv, Cmd!CommandTypeOK, Cmd!Served
<1>3. Cmd!CommandTypeOK'
  BY <1>1, <1>2, CmdEntity DEF Cmd!CommandTypeOK, Cmd!Served
<1>4. GoodAction' /\ OptionMap(discovered)'
  BY <1>1, <1>2 DEF GoodAction
<1>5. QED
  BY <1>1, <1>3, <1>4 DEF CmdInv

\* Home Assistant sends choices that discovery has told it of.
LEMMA OffersKnown ==
  ASSUME GoodAction, NEW c \in Cmd!Offers, Cmd!Send("ha", c.choice, c.payload, 20)
  PROVE  OnItsWay'
<1>1. action' = action /\ sent'.choice = c.choice /\ sent'.payload = c.payload
  BY DEF Cmd!Send
<1>2. CASE action.kind = "select"
  <2>1. Cmd!Offers = {[choice |-> <<"str", Cmd!Shown(o)>>,
                       payload |-> Cmd!Templated(Cmd!Shown(o))] : o \in Cmd!Range(announced)}
    BY <1>2, Zenon DEF Cmd!Offers
  <2>2. PICK o : c = [choice |-> <<"str", Cmd!Shown(o)>>,
                      payload |-> Cmd!Templated(Cmd!Shown(o))]
    BY <2>1, Zenon
  <2>3. c.choice = <<"str", Cmd!Shown(o)>> /\ c.payload = Cmd!Templated(Cmd!Shown(o))
    BY <2>2
  <2>4. \E name : sent'.choice = <<"str", name>> /\ sent'.payload = Cmd!Templated(name)
    BY <1>1, <2>3
  <2>5. QED
    BY <1>1, <1>2, <2>4 DEF OnItsWay
<1>3. CASE action.kind = "switch"
  <2>1. Cmd!Offers = {[choice |-> <<"bool", b>>, payload |-> Cmd!Field("value", <<"bool", b>>)] :
                        b \in BOOLEAN}
    BY <1>3, Zenon DEF Cmd!Offers
  <2>2. PICK b \in BOOLEAN :
          c = [choice |-> <<"bool", b>>, payload |-> Cmd!Field("value", <<"bool", b>>)]
    BY <2>1, Zenon
  <2>3. c.choice = <<"bool", b>> /\ c.payload = Cmd!Field("value", c.choice)
    BY <2>2, Zenon
  <2>4. QED
    BY <1>1, <1>3, <2>3 DEF OnItsWay
<1>4. CASE action.kind = "button"
  <2> DEFINE press == Cmd!Field("action", <<"str", <<"press">>>>)
  <2>1. c.payload = press
    BY <1>4 DEF Cmd!Offers
  <2>2. Params(Cmd!Fields(press))
    <3>1. DOMAIN Cmd!Fields(press) = {"action"}
      BY DEF Cmd!Fields, Cmd!Field
    <3>2. IsFiniteSet({"action"}) /\ "action" \in Words
      BY FS_Singleton, ActionsAssumption
    <3>3. QED
      BY <3>1, <3>2 DEF Params
  <2>3. Params(Cmd!Fields(Cmd!Decoded(press)))
    <3>1. Cmd!Decoded(press) = <<"str", <<"press">>>>
      BY DEF Cmd!Decoded, Cmd!Field
    <3>2. Cmd!Fields(Cmd!Decoded(press)) = <<>>
      BY <3>1 DEF Cmd!Fields
    <3>3. QED
      BY <3>2, NoMap
  <2> HIDE DEF press
  <2>4. QED
    BY <1>1, <1>4, <2>1, <2>2, <2>3 DEF OnItsWay, press
<1>5. QED
  BY <1>2, <1>3, <1>4 DEF GoodAction, Cmd!ValidAction

\* Every step of a runner action, and none, keeps its invariant.
LEMMA CmdSteps ==
  ASSUME CmdInv, Cmd!CommandNext \/ UNCHANGED commandVars
  PROVE  CmdInv'
<1>1. CASE Cmd!Listed \/ Cmd!ListFails
  <2>1. /\ cmdPhase = "listing" /\ cmdPhase' \in {"registering", "refused"}
        /\ action' = action /\ run' = run /\ sent' = sent
        /\ discovered' = discovered \/ OptionMap(discovered')
    BY <1>1, ListMaps DEF Cmd!Listed, Cmd!ListFails
  <2>2. OptionMap(discovered') /\ ~run'.ran /\ sent'.by = "nobody"
    BY <2>1 DEF CmdInv, Cmd!CommandTypeOK
  <2>3. QED
    BY <2>1, <2>2, CmdPrepares
<1>2. CASE Cmd!Register
  <2>1. /\ cmdPhase = "registering" /\ action' = action /\ run' = run /\ sent' = sent
        /\ discovered' = discovered
        /\ \/ cmdPhase' = "refused"
           \/ /\ cmdPhase' = "serving"
              /\ action.kind = "select" => ValidSelect(announced')
    BY <1>2, CmdEntity DEF Cmd!Register
  <2>2. OptionMap(discovered') /\ ~run'.ran /\ sent'.by = "nobody"
    BY <2>1 DEF CmdInv, Cmd!CommandTypeOK
  <2>3. QED
    BY <2>1, <2>2, CmdPrepares
<1>3. CASE Cmd!Relist
  <2>1. /\ cmdPhase' = cmdPhase /\ action' = action /\ run' = run /\ sent' = sent
        /\ OptionMap(discovered')
        /\ action.kind = "select" => ValidSelect(announced') \/ announced' = announced
    BY <1>3, ListMaps, CmdEntity DEF Cmd!Relist
  <2>2. cmdPhase \in Cmd!Served /\ action.kind = "select" => ValidSelect(announced)
    BY CmdEntity DEF CmdInv, Cmd!CommandTypeOK
  <2>3. QED
    BY <2>1, <2>2, CmdServes
<1>4. CASE Cmd!HomeAssistantSends
  <2>1. PICK c \in Cmd!Offers : Cmd!Send("ha", c.choice, c.payload, 20)
    BY <1>4 DEF Cmd!HomeAssistantSends
  <2>2. GoodAction
    BY <2>1 DEF Cmd!Send, CmdInv, Cmd!Served
  <2>3. QED
    BY <2>1, <2>2, OffersKnown, SendKeeps
<1>5. CASE Cmd!ForeignSends
  <2>1. PICK payload \in Foreign, size \in {20, 2000} :
          Cmd!Send("other", <<"null">>, payload, size)
    BY <1>5 DEF Cmd!ForeignSends
  <2>2. sent'.by = "other" /\ sent'.payload = payload
    BY <2>1 DEF Cmd!Send
  <2>3. OnItsWay'
    BY <2>2, ActionsAssumption DEF OnItsWay
  <2>4. QED
    BY <2>1, <2>3, SendKeeps
<1>6. CASE Cmd!Receive
  <2>1. /\ cmdPhase = "called" /\ cmdPhase' \in {"serving", "running"} /\ action' = action
        /\ discovered' = discovered /\ announced' = announced /\ sent'.by = "nobody"
        /\ run'.ran <=> cmdPhase' = "running"
    <3>1. \A r : Cmd!Invocation(r).ran
      BY DEF Cmd!Invocation
    <3>2. QED
      BY <1>6, <3>1 DEF Cmd!Receive, Cmd!Nothing
  <2>2. OptionMap(discovered') /\ (action.kind = "select" => ValidSelect(announced'))
    BY <2>1, CmdEntity DEF CmdInv, Cmd!CommandTypeOK, Cmd!Served
  <2>3. QED
    BY <2>1, <2>2, CmdPrepares DEF Cmd!Served
<1>7. CASE Cmd!ScriptEnds
  <2>1. /\ cmdPhase = "running" /\ cmdPhase' = "serving" /\ action' = action
        /\ discovered' = discovered /\ announced' = announced /\ sent' = sent
        /\ ~run'.ran
    BY <1>7 DEF Cmd!ScriptEnds, Cmd!Nothing
  <2>2. /\ OptionMap(discovered') /\ (action.kind = "select" => ValidSelect(announced'))
        /\ sent'.by = "nobody"
    BY <2>1, CmdEntity DEF CmdInv, Cmd!CommandTypeOK, Cmd!Served
  <2>3. QED
    BY <2>1, <2>2, CmdPrepares DEF Cmd!Served
<1>8. CASE Cmd!Refresh \/ Cmd!Refreshed \/ UNCHANGED commandVars
  <2>1. /\ cmdPhase' = cmdPhase /\ action' = action /\ run' = run /\ sent' = sent
        /\ discovered' = discovered /\ announced' = announced
    BY <1>8 DEF Cmd!Refresh, Cmd!Refreshed, commandVars
  <2>2. /\ OptionMap(discovered')
        /\ cmdPhase \in Cmd!Served /\ action.kind = "select" => ValidSelect(announced')
    BY <2>1, CmdEntity DEF CmdInv, Cmd!CommandTypeOK
  <2>3. QED
    BY <2>1, <2>2, CmdServes
<1>9. QED
  BY <1>1, <1>2, <1>3, <1>4, <1>5, <1>6, <1>7, <1>8, LoadKeeps DEF Cmd!CommandNext

\* A choice of Home Assistant starts the script (ChoicesWork).
LEMMA ReceiveWorks ==
  ASSUME CmdInv, Cmd!Receive
  PROVE  Cmd!ChoicesWork
<1>1. SUFFICES ASSUME sent.by = "ha" PROVE Cmd!ChoicesWork
  BY DEF Cmd!ChoicesWork
<1>2. cmdPhase = "called" /\ cmdPhase \in Cmd!Served
  BY DEF Cmd!Receive, Cmd!Served
<1>3. /\ GoodAction /\ OnItsWay /\ KeyMap(Cmd!Options)
      /\ action.kind = "select" => ValidSelect(announced)
  BY <1>2, CmdLoaded, CmdEntity DEF CmdInv, Cmd!CommandTypeOK
<1>4. ASSUME NEW v, NEW q, Cmd!Runs(sent.payload, sent.size) = {[value |-> v, params |-> q]}
      PROVE  Cmd!RunsWith(q, v)
  <2>1. run' = Cmd!Invocation([value |-> v, params |-> q])
    BY <1>4 DEF Cmd!Receive
  <2>2. QED
    BY <2>1, Invoked DEF Cmd!RunsWith
<1>5. CASE action.kind = "select"
  <2>1. PICK told : sent.choice = <<"str", told>> /\ sent.payload = Cmd!Templated(told)
    BY <1>1, <1>3, <1>5 DEF OnItsWay
  <2>2. SUFFICES ASSUME NEW i \in DOMAIN announced,
                        announced = Cmd!OptionList,
                        sent.choice = <<"str", Cmd!Shown(announced[i])>>,
                        Cmd!Shown(announced[i]) \notin DOMAIN Unescaped,
                        \A j \in 1..(i - 1) : announced[j].value # Cmd!Shown(announced[i]),
                        Cmd!Configured(Cmd!Options[announced[i].value].params)
                 PROVE  Cmd!RunsWith(Cmd!Options[announced[i].value].params, sent.choice)
    BY <1>5 DEF Cmd!ChoicesWork
  <2>3. told = Shown(announced[i]) /\ Cmd!Shown(announced[i]) = Shown(announced[i])
    BY <2>1, <2>2, CmdEntity
  <2>4. Cmd!SelectRuns(Cmd!Templated(told)) =
          {[value |-> <<"str", told>>, params |-> Cmd!Options[announced[i].value].params]}
    BY <1>3, <1>5, <2>2, <2>3, OptionRuns
  <2>5. Cmd!Runs(sent.payload, sent.size) = Cmd!SelectRuns(sent.payload)
    <3>1. sent.payload[1] = "map"
      BY <2>1, <2>2, <2>3 DEF Cmd!Templated, Cmd!Field
    <3>2. QED
      BY <1>5, <3>1 DEF Cmd!Runs
  <2>6. QED
    BY <2>1, <2>4, <2>5, <1>4
<1>6. CASE action.kind = "switch"
  <2> DEFINE side == IF sent.choice = <<"bool", TRUE>> THEN action.setter.on
                     ELSE action.setter.off
  <2>1. PICK b \in BOOLEAN : /\ sent.choice = <<"bool", b>>
                             /\ sent.payload = Cmd!Field("value", sent.choice)
    BY <1>1, <1>3, <1>6 DEF OnItsWay
  <2>2. SUFFICES ASSUME Cmd!Configured(side) PROVE Cmd!RunsWith(side, sent.choice)
    BY <1>6 DEF Cmd!ChoicesWork
  <2>3. Cmd!SwitchRuns(sent.payload) = {[value |-> sent.choice, params |-> side]}
    BY <2>1, <2>2, SideRuns, Zenon
  <2>4. Cmd!Runs(sent.payload, sent.size) = Cmd!SwitchRuns(sent.payload)
    <3>1. sent.payload[1] = "map"
      BY <2>1 DEF Cmd!Field
    <3>2. QED
      BY <1>6, <3>1 DEF Cmd!Runs
  <2> HIDE DEF side
  <2>5. QED
    BY <2>3, <2>4, <1>4
<1>7. CASE action.kind = "button"
  <2>1. SUFFICES ASSUME action.setter.input = "none" PROVE run'.ran
    BY <1>7 DEF Cmd!ChoicesWork
  <2>2. sent.payload = Cmd!Field("action", <<"str", <<"press">>>>)
    BY <1>1, <1>3, <1>7 DEF OnItsWay
  <2>3. Cmd!Runs(sent.payload, sent.size) = {[value |-> <<"null">>, params |-> <<>>]}
    BY <1>7, <2>1, <2>2, PressRuns
  <2>4. QED
    BY <2>3, <1>4 DEF Cmd!RunsWith
<1>8. QED
  BY <1>3, <1>5, <1>6, <1>7 DEF GoodAction, Cmd!ValidAction

\* A run that a command starts has parameters that were declared, and was made for an
\* option if the action is a select.
LEMMA ReceiveRuns ==
  ASSUME CmdInv, Cmd!Receive, run'.ran
  PROVE  \E v, q :
           /\ run' = Cmd!Invocation([value |-> v, params |-> q]) /\ run'.value = v
           /\ run'.params = q /\ Declared(q) /\ Params(q)
           /\ action.kind = "select" =>
                \E i \in DOMAIN Cmd!OptionList : v = <<"str", Shown(Cmd!OptionList[i])>>
<1>1. cmdPhase = "called" /\ cmdPhase \in Cmd!Served
  BY DEF Cmd!Receive, Cmd!Served
<1>2. GoodAction /\ OnItsWay /\ OptionMap(Cmd!Options)
  BY <1>1, CmdLoaded DEF CmdInv
<1>3. ~Cmd!Nothing.ran
  BY DEF Cmd!Nothing
<1>4. PICK r \in Cmd!Runs(sent.payload, sent.size) : run' = Cmd!Invocation(r)
  BY <1>3 DEF Cmd!Receive
<1>5. PICK v, q : /\ r = [value |-> v, params |-> q] /\ Declared(q) /\ Params(q)
                  /\ action.kind = "select" =>
                       \E i \in DOMAIN Cmd!OptionList : v = <<"str", Shown(Cmd!OptionList[i])>>
  BY <1>2, RunsDeclared
<1>6. run'.value = v /\ run'.params = q
  BY <1>4, <1>5, Invoked
<1>7. QED
  BY <1>4, <1>5, <1>6

\* The script reads what was declared (OnlyDeclared).
LEMMA ReceiveDeclared ==
  ASSUME CmdInv, Cmd!Receive
  PROVE  Cmd!OnlyDeclared
<1>1. SUFFICES ASSUME run'.ran PROVE Cmd!OnlyDeclared
  BY DEF Cmd!OnlyDeclared
<1> DEFINE s == action.setter
           q == run'.params
           declared == IF s.schema = <<>> THEN DOMAIN q ELSE DOMAIN s.schema
<1>2. PICK v : run' = Cmd!Invocation([value |-> v, params |-> q]) /\ Declared(q) /\ Params(q)
  BY <1>1, ReceiveRuns
<1>3. Cmd!ValidSetter(s)
  <2>1. cmdPhase \in Cmd!Served
    BY DEF Cmd!Receive, Cmd!Served
  <2>2. QED
    BY <2>1, CmdLoaded DEF GoodAction, Cmd!ValidAction
<1>4. \A p \in declared : Apart(q, declared, p) =>
        Cmd!ReadAs(p, declared) = {Cmd!Form(s, q[n]) : n \in {p} \cap DOMAIN q}
  <2> HIDE DEF declared, q
  <2>1. QED
    BY <1>2, <1>3, Delivered
<1>5. Declared(q)
  BY <1>2
<1>6. QED
  BY <1>4, <1>5, Zenon DEF Cmd!OnlyDeclared, Declared, Apart

\* What a select comes to show is one of its options (ShownIsOffered).
LEMMA StepsShow ==
  ASSUME CmdInv, Cmd!CommandNext
  PROVE  Cmd!ShownIsOffered
<1> DEFINE names == {Cmd!Shown(o) : o \in Cmd!Range(Cmd!OptionList)}
<1>1. SUFFICES ASSUME action.kind = "select"
               PROVE  /\ Cmd!Received /\ run'.ran => Cmd!Text(run'.value) \in names
                      /\ read' # read => \A v \in read' : Cmd!Text(v) \in names
                      /\ shown' # shown =>
                           shown' \in {<<>>, <<"unknown">>} \cup names
                                        \cup {Cmd!Text(v) : v \in read \cup {run.value}}
  BY DEF Cmd!ShownIsOffered
<1>2. CASE Cmd!Receive
  <2>1. read' = read /\ shown' = shown
    BY <1>2 DEF Cmd!Receive
  <2>2. ASSUME run'.ran PROVE Cmd!Text(run'.value) \in names
    <3>1. \E i \in DOMAIN Cmd!OptionList : run'.value = <<"str", Shown(Cmd!OptionList[i])>>
      BY <1>1, <1>2, <2>2, ReceiveRuns
    <3>2. QED
      BY <3>1, OptionShown
  <2> HIDE DEF names
  <2>3. QED
    BY <2>1, <2>2
<1>3. CASE Cmd!Register
  <2>1. /\ cmdPhase = "registering" /\ cmdPhase' # "called" /\ read' = read
        /\ \/ shown' = shown
           \/ shown' \in {<<>>, <<"unknown">>}
                           \cup {Cmd!Text(v) : v \in UNION {Cmd!Got(t) : t \in Prints}}
    BY <1>3 DEF Cmd!Register
  <2>2. ASSUME NEW t \in Prints, NEW v \in Cmd!Got(t) PROVE Cmd!Text(v) \in names
    BY <1>1, <2>1, CmdLoaded, GotOffered
  <2>3. ~Cmd!Received
    BY <2>1 DEF Cmd!Received
  <2> HIDE DEF names
  <2>4. QED
    BY <2>1, <2>2, <2>3
<1>4. CASE Cmd!Refresh
  <2>1. /\ cmdPhase' = cmdPhase /\ cmdPhase \in Cmd!Served /\ shown' = shown
        /\ \E t \in Prints : \E v \in Cmd!Got(t) : read' = {v}
    BY <1>4 DEF Cmd!Refresh
  <2>2. \A v \in read' : Cmd!Text(v) \in names
    BY <1>1, <2>1, CmdLoaded, GotOffered
  <2>3. ~Cmd!Received
    BY <2>1 DEF Cmd!Received
  <2> HIDE DEF names
  <2>4. QED
    BY <2>1, <2>2, <2>3
<1>5. CASE Cmd!Refreshed
  <2>1. /\ cmdPhase' = cmdPhase /\ read' = {} /\ \E v \in read : shown' = Cmd!Text(v)
    BY <1>5 DEF Cmd!Refreshed
  <2>2. ~Cmd!Received
    BY <2>1 DEF Cmd!Received
  <2> HIDE DEF names
  <2>3. QED
    BY <2>1, <2>2
<1>6. CASE Cmd!ScriptEnds
  <2>1. /\ cmdPhase = "running" /\ read' = read
        /\ shown' \in {Cmd!Text(v) : v \in Cmd!AfterRun(run.value)} \cup {shown}
    BY <1>6 DEF Cmd!ScriptEnds
  <2>2. Cmd!AfterRun(run.value) = {run.value}
    BY <1>1 DEF Cmd!AfterRun
  <2>3. ~Cmd!Received
    BY <2>1 DEF Cmd!Received
  <2> HIDE DEF names
  <2>4. QED
    BY <2>1, <2>2, <2>3
<1>7. CASE \/ Cmd!Load \/ Cmd!Listed \/ Cmd!ListFails \/ Cmd!Relist
           \/ Cmd!HomeAssistantSends \/ Cmd!ForeignSends
  <2>1. /\ read' = read /\ shown' = shown
        /\ cmdPhase = "called" => cmdPhase' = "called"
    BY <1>7 DEF Cmd!Load, Cmd!Listed, Cmd!ListFails, Cmd!Relist, Cmd!HomeAssistantSends,
                Cmd!ForeignSends, Cmd!Send
  <2>2. ~Cmd!Received
    BY <2>1 DEF Cmd!Received
  <2> HIDE DEF names
  <2>3. QED
    BY <2>1, <2>2
<1>8. QED
  BY <1>2, <1>3, <1>4, <1>5, <1>6, <1>7 DEF Cmd!CommandNext

\* Every step of a runner action lets choices work and passes what was declared.
LEMMA CmdProperties ==
  ASSUME CmdInv, Cmd!CommandNext
  PROVE  Cmd!ChoicesWork /\ Cmd!ShownIsOffered /\ Cmd!OnlyDeclared
<1>1. CASE Cmd!Receive
  BY <1>1, ReceiveWorks, ReceiveDeclared, StepsShow
<1>2. CASE ~Cmd!Receive
  <2>1. ~Cmd!Received
    BY <1>2 DEF Cmd!Received, Cmd!CommandNext, Cmd!Load, Cmd!Listed, Cmd!ListFails,
                Cmd!Register, Cmd!Relist, Cmd!HomeAssistantSends, Cmd!ForeignSends, Cmd!Send,
                Cmd!ScriptEnds, Cmd!Refresh, Cmd!Refreshed, CmdInv
  <2>2. QED
    BY <2>1, StepsShow DEF Cmd!ChoicesWork, Cmd!OnlyDeclared
<1>3. QED
  BY <1>1, <1>2

\* A step of another plugin runs and shows nothing of a runner action.
LEMMA NoCommandStep ==
  ASSUME UNCHANGED commandVars
  PROVE  Cmd!ChoicesWork /\ Cmd!ShownIsOffered /\ Cmd!OnlyDeclared
<1>1. ~Cmd!Received /\ read' = read /\ shown' = shown
  BY DEF commandVars, Cmd!Received
<1>2. QED
  BY <1>1 DEF Cmd!ChoicesWork, Cmd!ShownIsOffered, Cmd!OnlyDeclared

-----------------------------------------------------------------------------
(* Merging *)

\* The keys that are tried are different ones, so one of them is free.
LEMMA FreeKeyIsFree ==
  ASSUME NEW taken, IsFiniteSet(taken), Cardinality(taken) <= MaxNumber,
         NEW base \in Keys, NEW suffix \in Words
  PROVE  FreeKey(taken, base, suffix) \in Keys \ taken
<1> DEFINE n == Cardinality(taken)
           key(i) == Try(base, suffix, i)
           free == {i \in 0..n : key(i) \notin taken}
<1>1. n \in Nat /\ MaxNumber \in Nat /\ Numeral \in [0..MaxNumber -> Words]
      /\ \A i, j \in 0..MaxNumber : Numeral[i] = Numeral[j] => i = j
  BY FS_CardinalityType, WordsAssumption DEF IsInjective
<1>2. ASSUME NEW i \in 0..n
      PROVE  /\ key(i) \in Keys
             /\ i = 0 => Len(key(i)) = Len(base)
             /\ i = 1 => Len(key(i)) = Len(base) + 1
             /\ i > 1 => Len(key(i)) = Len(base) + 2 /\ key(i)[Len(base) + 2] = Numeral[i]
  <2>1. Numeral[i] \in Words
    BY <1>1
  <2>2. /\ Append(base, suffix) \in Keys /\ Len(Append(base, suffix)) = Len(base) + 1
        /\ Append(Append(base, suffix), Numeral[i]) \in Keys
        /\ Len(Append(Append(base, suffix), Numeral[i])) = Len(base) + 2
        /\ Append(Append(base, suffix), Numeral[i])[Len(base) + 2] = Numeral[i]
    BY <2>1 DEF Keys
  <2>3. i = 0 \/ i = 1 \/ i > 1
    OBVIOUS
  <2>4. QED
    BY <2>2, <2>3 DEF Try
<1>3. Len(base) \in Nat
  BY DEF Keys
<1> HIDE DEF key
<1>4. ASSUME NEW i \in 0..n, NEW j \in 0..n, key(i) = key(j) PROVE i = j
  <2>1. (i = 0 /\ j = 0) \/ (i = 1 /\ j = 1) \/ (i > 1 /\ j > 1)
    BY <1>1, <1>2, <1>3, <1>4
  <2>2. i > 1 /\ j > 1 => Numeral[i] = Numeral[j]
    BY <1>2, <1>4
  <2>3. QED
    BY <2>1, <2>2, <1>1
<1>5. free # {}
  <2>1. SUFFICES ASSUME \A i \in 0..n : key(i) \in taken PROVE FALSE
    OBVIOUS
  <2> DEFINE f == [i \in 0..n |-> key(i)]
  <2>2. f \in [0..n -> taken]
    BY <2>1
  <2>3. IsFiniteSet(0..n) /\ Cardinality(0..n) = n + 1
    BY <1>1, FS_Interval
  <2>4. Cardinality(taken) < Cardinality(0..n)
    BY <1>1, <2>3
  <2>5. PICK i \in 0..n, j \in 0..n : i # j /\ f[i] = f[j]
    <3> HIDE DEF f
    <3>1. QED
      BY <2>2, <2>3, <2>4, FS_PigeonHole
  <2>6. QED
    BY <2>5, <1>4
<1>6. Min(free) \in free
  <2>1. free \subseteq Nat
    BY <1>1
  <2> HIDE DEF free
  <2>2. QED
    BY <2>1, <1>5, Least
<1>7. FreeKey(taken, base, suffix) = key(Min(free))
  BY Zenon DEF FreeKey, key
<1>8. QED
  BY <1>2, <1>6, <1>7

\* What Home Assistant can show of a map: a name for every key.
Named(map) == \A k \in DOMAIN map : map[k].name \in DOMAIN NameRank \ {<<>>}

\* old is still there, one thing is new at most.
Extends(map, old) ==
  /\ Cardinality(DOMAIN map) <= Cardinality(DOMAIN old) + 1
  /\ DOMAIN old \subseteq DOMAIN map /\ \A k \in DOMAIN old : map[k] = old[k]

\* A named thing under a free key extends the map and loses nothing of it.
LEMMA PutNew ==
  ASSUME NEW map, KeyMap(map), Named(map), NEW key \in Keys \ DOMAIN map,
         NEW thing, thing.name \in DOMAIN NameRank \ {<<>>},
         NEW result, result = Put(map, key, thing)
  PROVE  /\ KeyMap(result) /\ Named(result) /\ Extends(result, map)
         /\ key \in DOMAIN result /\ result[key] = thing
<1>1. key \in Keys /\ key \notin DOMAIN map
  OBVIOUS
<1>2. KeyMap(result)
  BY <1>1, PutKeys
<1>3. DOMAIN result = (DOMAIN map) \cup {key}
  BY PutDomain
<1>4. \A k \in (DOMAIN map) \cup {key} : result[k] = IF k = key THEN thing ELSE map[k]
  BY DEF Put
<1>5. Cardinality(DOMAIN result) = Cardinality(DOMAIN map) + 1 /\ Cardinality(DOMAIN map) \in Nat
  BY <1>1, <1>3, FS_AddElement, FS_CardinalityType DEF KeyMap
<1>6. Named(result)
  BY <1>3, <1>4 DEF Named
<1>7. Extends(result, map)
  BY <1>1, <1>3, <1>4, <1>5 DEF Extends
<1>8. QED
  BY <1>1, <1>2, <1>3, <1>4, <1>6, <1>7

-----------------------------------------------------------------------------
(* Power plans *)

\* The power plan's maps and options are the entity's.
LEMMA PlanEntity ==
  /\ \A taken, base, suffix : Plan!FreeKey(taken, base, suffix) = FreeKey(taken, base, suffix)
  /\ \A map, key, thing : Plan!Put(map, key, thing) = Put(map, key, thing)
  /\ \A map : Plan!OptionsOf(map) = OptionsOf(map)
  /\ \A list : Plan!ValidSelect(list) = ValidSelect(list)
  /\ \A list, input : Plan!OptionValue(list, input) = OptionValue(list, input)
<1>1. \A taken, base, suffix : Plan!FreeKey(taken, base, suffix) = FreeKey(taken, base, suffix)
  <2>1. \A base, suffix, n : Plan!Try(base, suffix, n) = Try(base, suffix, n)
    BY DEF Plan!Try, Try
  <2> SUFFICES ASSUME NEW taken, NEW base, NEW suffix
               PROVE  Plan!FreeKey(taken, base, suffix) = FreeKey(taken, base, suffix)
    OBVIOUS
  <2> DEFINE N == 0..Cardinality(taken)
  <2>2. {n \in N : Plan!Try(base, suffix, n) \notin taken} = {n \in N : Try(base, suffix, n) \notin taken}
    BY <2>1
  <2>3. \A T : Plan!Min(T) = Min(T)
    BY Zenon DEF Plan!Min, Min
  <2>4. Plan!Cardinality(taken) = Cardinality(taken)
    BY Zenon DEF Plan!Cardinality, Cardinality
  <2>5. QED
    BY <2>1, <2>2, <2>3, <2>4, Zenon DEF Plan!FreeKey, FreeKey
<1>2. \A map, key, thing : Plan!Put(map, key, thing) = Put(map, key, thing)
  BY Zenon DEF Plan!Put, Put
<1>3. \A map : Plan!OptionsOf(map) = OptionsOf(map)
  BY Zenon DEF Plan!OptionsOf, OptionsOf, Plan!Sorted, Sorted, Plan!ByName, ByName,
               Plan!KeyBefore, KeyBefore, Plan!Cardinality, Cardinality
<1>4. \A list : Plan!ValidSelect(list) = ValidSelect(list)
  BY Zenon DEF Plan!ValidSelect, ValidSelect, Plan!Shown, Shown
<1>5. \A list, input : Plan!OptionValue(list, input) = OptionValue(list, input)
  BY Zenon DEF Plan!OptionValue, OptionValue, Plan!SelectInSeq, SelectInSeq, Plan!Min, Min
<1>6. QED
  BY <1>1, <1>2, <1>3, <1>4, <1>5, Zenon

\* A mode that enumeration found.
Mode(m) == m.name \in (DOMAIN NameRank \cap DOMAIN Slug) \ {<<>>} /\ m.guid.id \in DOMAIN Short

\* AddMode leaves the modes as they were, and has one with the GUID afterwards.
LEMMA ModeAdded ==
  ASSUME NEW ms, KeyMap(ms), Named(ms), Cardinality(DOMAIN ms) <= MaxNumber, NEW mode, Mode(mode),
         NEW result, result = Plan!AddMode(ms, mode)
  PROVE  KeyMap(result) /\ Named(result) /\ Extends(result, ms) /\ Plan!HasGUID(result, mode.guid)
<1>1. CASE Plan!HasGUID(ms, mode.guid)
  <2>1. result = ms
    BY <1>1 DEF Plan!AddMode
  <2>2. Cardinality(DOMAIN ms) \in Nat
    BY FS_CardinalityType DEF KeyMap
  <2>3. QED
    BY <2>1, <2>2, <1>1 DEF Extends
<1>2. CASE ~Plan!HasGUID(ms, mode.guid)
  <2> DEFINE short == Short[mode.guid.id]
             slug == Slug[mode.name]
             base == IF slug = <<>> THEN <<"plan", short>> ELSE slug
             key == FreeKey(DOMAIN ms, base, short)
  <2>1. short \in Words /\ slug \in Keys /\ "plan" \in Words
    BY SetupsAssumption, WordsAssumption DEF Mode
  <2> HIDE DEF short, slug
  <2>2. base \in Keys
    BY <2>1 DEF Keys
  <2>3. result = Put(ms, key, mode)
    BY <1>2, PlanEntity, Zenon DEF Plan!AddMode, Plan!UniqueKey, short, slug
  <2> HIDE DEF base, key
  <2>4. /\ KeyMap(result) /\ Named(result) /\ Extends(result, ms)
        /\ key \in DOMAIN result /\ result[key] = mode
    <3>1. mode.name \in DOMAIN NameRank \ {<<>>}
      BY DEF Mode
    <3>2. key = FreeKey(DOMAIN ms, base, short)
      BY DEF key
    <3>3. key \in Keys \ DOMAIN ms
      <4>1. IsFiniteSet(DOMAIN ms)
        BY DEF KeyMap
      <4>2. QED
        BY <2>1, <2>2, <3>2, <4>1, FreeKeyIsFree
    <3>4. QED
      BY <2>3, <3>1, <3>3, PutNew
  <2>5. QED
    BY <2>4 DEF Plan!HasGUID
<1>3. QED
  BY <1>1, <1>2

\* Nothing of ms is lost by merging, and everything that was found is there after it.
LEMMA PlansMerged ==
  ASSUME NEW ms, KeyMap(ms), Named(ms),
         NEW d, Len(d) \in Nat, \A i \in 1..Len(d) : Mode(d[i]),
         Cardinality(DOMAIN ms) + Len(d) <= MaxNumber,
         NEW result, result = Plan!MergeDiscovered(ms, d)
  PROVE  /\ KeyMap(result) /\ Named(result)
         /\ DOMAIN ms \subseteq DOMAIN result /\ \A k \in DOMAIN ms : result[k] = ms[k]
         /\ \A i \in 1..Len(d) : Plan!HasGUID(result, d[i].guid)
<1> DEFINE Step(f, n) == IF n = 0 THEN ms ELSE Plan!AddMode(f[n - 1], d[n])
           merged[n \in 0..Len(d)] == Step(merged, n)
           Exists == {m \in Nat : \E f : f = [n \in 0..m |-> Step(f, n)]}
<1>1. result = merged[Len(d)]
  BY DEF Plan!MergeDiscovered
<1>2. merged = CHOOSE f : f = [n \in 0..Len(d) |-> Step(f, n)]
  OBVIOUS
<1> HIDE DEF merged
<1>3. ASSUME NEW f, NEW g, NEW n, n # 0 => f[n - 1] = g[n - 1]
      PROVE  Step(f, n) = Step(g, n)
  BY <1>3
<1>4. 0 \in Exists
  <2>1. [n \in 0..0 |-> ms] = [n \in 0..0 |-> Step([j \in 0..0 |-> ms], n)]
    OBVIOUS
  <2>2. QED
    BY <2>1
<1>5. ASSUME NEW m \in Nat, m \in Exists PROVE m + 1 \in Exists
  <2>1. PICK f : f = [n \in 0..m |-> Step(f, n)]
    BY <1>5
  <2> HIDE DEF Step
  <2> DEFINE g == [n \in 0..(m + 1) |-> IF n <= m THEN f[n] ELSE Step(f, m + 1)]
  <2>2. ASSUME NEW n \in 0..(m + 1) PROVE g[n] = Step(g, n)
    <3>1. n # 0 => g[n - 1] = f[n - 1]
      OBVIOUS
    <3>2. Step(g, n) = Step(f, n)
      <4> HIDE DEF g
      <4>1. QED
        BY <3>1, <1>3
    <3>3. CASE n <= m
      BY <2>1, <3>2, <3>3
    <3>4. CASE n = m + 1
      BY <3>2, <3>4
    <3>5. QED
      BY <3>3, <3>4
  <2>3. g = [n \in 0..(m + 1) |-> Step(g, n)]
    BY <2>2
  <2> HIDE DEF g
  <2>4. \E h : h = [n \in 0..(m + 1) |-> Step(h, n)]
    BY <2>3, Zenon
  <2>5. QED
    BY <2>4
<1>6. merged = [n \in 0..Len(d) |-> Step(merged, n)]
  <2> HIDE DEF Step
  <2>1. Len(d) \in Exists
    <3> HIDE DEF Exists
    <3>1. Nat \subseteq Exists
      BY <1>4, <1>5, Induction
    <3>2. QED
      BY <3>1
  <2>2. QED
    BY <2>1, <1>2
<1> HIDE DEF Exists
<1> DEFINE Good(n) == /\ KeyMap(merged[n]) /\ Named(merged[n])
                      /\ Cardinality(DOMAIN merged[n]) <= Cardinality(DOMAIN ms) + n
                      /\ DOMAIN ms \subseteq DOMAIN merged[n]
                      /\ \A k \in DOMAIN ms : merged[n][k] = ms[k]
                      /\ \A i \in 1..n : Plan!HasGUID(merged[n], d[i].guid)
           T == {n \in Nat : n <= Len(d) => Good(n)}
<1>7. Cardinality(DOMAIN ms) \in Nat /\ MaxNumber \in Nat
  BY FS_CardinalityType, WordsAssumption DEF KeyMap
<1>8. 0 \in T
  <2>1. merged[0] = ms
    BY <1>6
  <2>2. QED
    BY <2>1, <1>7
<1>9. ASSUME NEW n \in Nat, n \in T PROVE n + 1 \in T
  <2>1. SUFFICES ASSUME n + 1 <= Len(d) PROVE Good(n + 1)
    OBVIOUS
  <2>2. n + 1 \in 0..Len(d) /\ n + 1 \in 1..Len(d) /\ (n + 1) - 1 = n
    BY <2>1
  <2>3. merged[n + 1] = Plan!AddMode(merged[n], d[n + 1])
    BY <1>6, <2>2
  <2>4. Good(n)
    BY <1>9, <2>1
  <2>5. /\ Cardinality(DOMAIN merged[n]) \in Nat /\ Cardinality(DOMAIN merged[n]) <= MaxNumber
        /\ Cardinality(DOMAIN merged[n]) + 1 <= Cardinality(DOMAIN ms) + (n + 1)
    <3>1. Cardinality(DOMAIN merged[n]) \in Nat
      BY <2>4, FS_CardinalityType DEF KeyMap
    <3>2. Cardinality(DOMAIN merged[n]) <= Cardinality(DOMAIN ms) + n
      BY <2>4
    <3>3. QED
      BY <3>1, <3>2, <1>7, <2>1
  <2>6. /\ KeyMap(merged[n + 1]) /\ Named(merged[n + 1]) /\ Extends(merged[n + 1], merged[n])
        /\ Plan!HasGUID(merged[n + 1], d[n + 1].guid)
    BY <2>2, <2>3, <2>4, <2>5, ModeAdded
  <2>7. Cardinality(DOMAIN merged[n + 1]) <= Cardinality(DOMAIN ms) + (n + 1)
    <3>1. Cardinality(DOMAIN merged[n + 1]) \in Nat
      BY <2>6, FS_CardinalityType DEF KeyMap
    <3>2. Cardinality(DOMAIN merged[n + 1]) <= Cardinality(DOMAIN merged[n]) + 1
      BY <2>6 DEF Extends
    <3>3. QED
      BY <3>1, <3>2, <2>5, <1>7
  <2>8. DOMAIN ms \subseteq DOMAIN merged[n + 1] /\ \A k \in DOMAIN ms : merged[n + 1][k] = ms[k]
    BY <2>4, <2>6 DEF Extends
  <2>9. ASSUME NEW i \in 1..(n + 1) PROVE Plan!HasGUID(merged[n + 1], d[i].guid)
    <3>1. CASE i \in 1..n
      BY <3>1, <2>4, <2>6 DEF Extends, Plan!HasGUID
    <3>2. CASE i = n + 1
      BY <3>2, <2>6
    <3>3. QED
      BY <3>1, <3>2
  <2>10. QED
    BY <2>6, <2>7, <2>8, <2>9
<1>10. Good(Len(d))
  <2> HIDE DEF T, Good
  <2>1. Len(d) \in T
    BY <1>8, <1>9, Induction
  <2>2. QED
    BY <2>1 DEF T
<1>11. QED
  BY <1>1, <1>10

\* What Windows can enumerate, and the modes that are made of it.
AllSchemes == UNION {Range(s.schemes) : s \in Setups}
AllModes   == {[x EXCEPT !.name = Plan!FriendlyName(x)] : x \in AllSchemes}

\* All schemes of a setup are found as modes with names.
LEMMA SchemesKnown ==
  /\ \A s \in Setups : s.schemes \in Seq(AllSchemes)
  /\ \A m \in AllModes : Mode(m)
<1>1. ASSUME NEW s \in Setups PROVE s.schemes \in Seq(AllSchemes)
  <2>1. s.schemes \in Seq(Range(s.schemes))
    BY SetupsAssumption
  <2>2. Range(s.schemes) \subseteq AllSchemes
    BY DEF AllSchemes
  <2> DEFINE R == Range(s.schemes)
  <2> HIDE DEF R
  <2>3. \A q \in Seq(R) : R \subseteq AllSchemes => q \in Seq(AllSchemes)
    OBVIOUS
  <2>4. QED
    BY <2>1, <2>2, <2>3 DEF R
<1>2. ASSUME NEW x \in AllSchemes PROVE Mode([x EXCEPT !.name = Plan!FriendlyName(x)])
  <2>1. PICK s \in Setups : x \in Range(s.schemes)
    BY DEF AllSchemes
  <2>2. /\ "name" \in DOMAIN x /\ "guid" \in DOMAIN x /\ x.guid.id \in DOMAIN Short
        /\ Plan!FriendlyName(x) \in DOMAIN NameRank \cap DOMAIN Slug
    BY <2>1, SetupsAssumption
  <2>3. Plan!FriendlyName(x) # <<>>
    <3>1. <<x.guid.id>> # <<>>
      OBVIOUS
    <3>2. QED
      BY <3>1, Zenon DEF Plan!FriendlyName
  <2>4. /\ [x EXCEPT !.name = Plan!FriendlyName(x)].name = Plan!FriendlyName(x)
        /\ [x EXCEPT !.name = Plan!FriendlyName(x)].guid = x.guid
    BY <2>2
  <2>5. QED
    BY <2>2, <2>3, <2>4, Zenon DEF Mode
<1>3. QED
  BY <1>1, <1>2 DEF AllModes

\* ms merges what was found with c, and list offers it.
MergedPlans(c, f, ms, list) ==
  /\ KeyMap(ms) /\ Named(ms)
  /\ DOMAIN c \subseteq DOMAIN ms /\ \A k \in DOMAIN c : ms[k] = c[k]
  /\ ms # c => \A i \in DOMAIN f : Plan!HasGUID(ms, f[i].guid)
  /\ list = OptionsOf(ms)

\* What a map of named things offers can be chosen by its name, and chooses its key.
LEMMA OffersChosen ==
  ASSUME NEW map, KeyMap(map), Named(map), NEW list, list = OptionsOf(map), ValidSelect(list)
  PROVE  /\ \A k \in DOMAIN map : k # <<>>
         /\ \A k \in DOMAIN map : map[k].name \notin (DOMAIN map) \ {k} =>
                                  OptionValue(list, map[k].name) = k
         /\ \A input : OptionValue(list, input) \in (DOMAIN map) \cup {<<>>}
<1>1. Lists(list, map)
  BY OptionsListed DEF Named
<1>2. \A k \in DOMAIN map : k # <<>>
  BY <1>1 DEF Lists, ValidSelect
<1>3. \A k \in DOMAIN map : map[k].name \notin (DOMAIN map) \ {k} =>
                            OptionValue(list, map[k].name) = k
  BY <1>1, NameChooses DEF Named
<1>4. \A input : OptionValue(list, input) \in (DOMAIN map) \cup {<<>>}
  BY <1>1, ValueChosen DEF Lists
<1>5. QED
  BY <1>2, <1>3, <1>4

Enumerating ==
  /\ KeyMap(conf) /\ Named(conf) /\ modes = <<>>
  /\ schemes \in Seq(AllSchemes) /\ Cardinality(DOMAIN conf) + Len(schemes) <= MaxNumber
  /\ found \in Seq(AllModes) /\ Cardinality(DOMAIN conf) + Len(found) <= MaxNumber

\* What was found has modes with numerals to spare; once the options are resolved
\* they are of the merged modes; and only a registered plugin reads and is commanded.
PlanInv ==
  /\ Plan!PlanTypeOK /\ Plan!PlanSelectable
  /\ planPhase = "enumerating" => Enumerating
  /\ planPhase \notin {"enumerating", "off"} => MergedPlans(conf, found, modes, planOptions)
  /\ planPhase \in {"subscribed", "running"} => ValidSelect(planOptions)
  /\ planReader # "wait" => planPhase = "running"
  /\ planCmd # "idle" => planPhase \in {"subscribed", "running"}

\* The invariant holds before anything is enumerated.
LEMMA PlanStarts ==
  ASSUME Plan!PlanInit \/ PlanOff
  PROVE  PlanInv
<1>1. /\ planPhase \in {"enumerating", "off"} /\ planReader = "wait" /\ planCmd = "idle"
      /\ held = <<>> /\ target = <<>> /\ planAvail = "none" /\ acts = 0 /\ modes = <<>>
  BY DEF Plan!PlanInit, PlanOff
<1>2. Plan!PlanTypeOK /\ Plan!PlanSelectable
  BY <1>1, BoundsAssumption DEF Plan!PlanTypeOK, Plan!PlanSelectable
<1>3. ASSUME planPhase = "enumerating" PROVE Enumerating
  <2>1. PICK s \in Setups : conf = s.conf /\ schemes = s.schemes
    BY <1>3 DEF Plan!PlanInit, PlanOff
  <2>2. /\ KeyMap(conf) /\ Named(conf)
        /\ Cardinality(DOMAIN conf) + Len(schemes) <= MaxNumber
    BY <2>1, SetupsAssumption DEF KeyMap, Named
  <2>3. schemes \in Seq(AllSchemes) /\ Len(schemes) \in Nat /\ Cardinality(DOMAIN conf) \in Nat
    BY <2>1, <2>2, SchemesKnown, FS_CardinalityType DEF KeyMap
  <2>4. found = <<>>
    BY <1>3 DEF Plan!PlanInit, PlanOff
  <2>5. found \in Seq(AllModes) /\ Cardinality(DOMAIN conf) + Len(found) <= MaxNumber
    BY <2>2, <2>3, <2>4, WordsAssumption
  <2>6. QED
    BY <2>2, <2>3, <2>5, <1>1 DEF Enumerating
<1>4. QED
  BY <1>1, <1>2, <1>3 DEF PlanInv

\* One more scheme by PowerEnumerate keeps it.
LEMMA EnumerateKeeps ==
  ASSUME PlanInv, Plan!Enumerate
  PROVE  PlanInv'
<1> DEFINE x == schemes[Len(found) + 1]
<1>1. /\ planPhase = "enumerating" /\ Len(found) < Len(schemes)
      /\ found' = Append(found, [x EXCEPT !.name = Plan!FriendlyName(x)])
      /\ planPhase' = planPhase /\ conf' = conf /\ modes' = modes /\ planOptions' = planOptions
      /\ planReader' = planReader /\ held' = held /\ planCmd' = planCmd /\ target' = target
      /\ schemes' = schemes /\ acts' = acts /\ planAvail' = planAvail
  BY DEF Plan!Enumerate, Plan!readVars, Plan!cmdVars, Plan!windows
<1>2. Enumerating
  BY <1>1 DEF PlanInv
<1>3. Len(found) + 1 \in 1..Len(schemes) /\ x \in AllSchemes
  BY <1>1, <1>2 DEF Enumerating
<1>4. found' \in Seq(AllModes) /\ Len(found') = Len(found) + 1
  <2> DEFINE m == [x EXCEPT !.name = Plan!FriendlyName(x)]
  <2>1. m \in AllModes
    BY <1>3 DEF AllModes
  <2> HIDE DEF m, x
  <2>2. found \in Seq(AllModes) /\ found' = Append(found, m)
    BY <1>1, <1>2 DEF Enumerating, m, x
  <2>3. QED
    BY <2>1, <2>2
<1>5. Cardinality(DOMAIN conf) + Len(found') <= MaxNumber
  <2>1. /\ Cardinality(DOMAIN conf) \in Nat /\ Len(found) \in Nat /\ Len(schemes) \in Nat
        /\ MaxNumber \in Nat
    BY <1>2, FS_CardinalityType, WordsAssumption DEF Enumerating, KeyMap
  <2>2. Cardinality(DOMAIN conf) + Len(schemes) <= MaxNumber
    BY <1>2 DEF Enumerating
  <2> HIDE DEF x
  <2>3. QED
    BY <1>1, <1>4, <2>1, <2>2
<1> HIDE DEF x
<1>6. Enumerating'
  BY <1>1, <1>2, <1>4, <1>5 DEF Enumerating, KeyMap, Named
<1>7. Plan!PlanTypeOK' /\ Plan!PlanSelectable'
  BY <1>1 DEF PlanInv, Plan!PlanTypeOK, Plan!PlanSelectable
<1>8. QED
  BY <1>1, <1>6, <1>7 DEF PlanInv

\* Start has its modes, merged or just the configured ones.
LEMMA PlanResolvedKeeps ==
  ASSUME PlanInv, planPhase = "enumerating", NEW ms, Plan!Resolved(ms),
         MergedPlans(conf, found, ms, OptionsOf(ms))
  PROVE  PlanInv'
<1>1. /\ modes' = ms /\ planOptions' = OptionsOf(ms) /\ planPhase' \in {"failed", "registering"}
      /\ conf' = conf /\ found' = found
      /\ planReader' = planReader /\ held' = held /\ planCmd' = planCmd /\ target' = target
      /\ acts' = acts /\ planAvail' = planAvail
  BY PlanEntity DEF Plan!Resolved, Plan!readVars, Plan!cmdVars, Plan!windows
<1>2. planReader = "wait" /\ planCmd = "idle" /\ held = <<>> /\ target = <<>>
  BY DEF PlanInv, Plan!PlanTypeOK
<1>3. Plan!PlanTypeOK' /\ Plan!PlanSelectable'
  BY <1>1, <1>2 DEF PlanInv, Plan!PlanTypeOK, Plan!PlanSelectable
<1>4. MergedPlans(conf, found, modes, planOptions)'
  BY <1>1 DEF MergedPlans, KeyMap, Named
<1>5. QED
  BY <1>1, <1>2, <1>3, <1>4 DEF PlanInv

\* So do the merged modes, or the configured ones when discovery failed.
LEMMA ResolveKeeps ==
  ASSUME PlanInv, Plan!EnumerateDone \/ Plan!DiscoveryFails
  PROVE  PlanInv'
<1>1. planPhase = "enumerating"
  BY DEF Plan!EnumerateDone, Plan!DiscoveryFails
<1>2. Enumerating
  BY <1>1 DEF PlanInv
<1>3. CASE Plan!EnumerateDone
  <2> DEFINE ms == Plan!MergeDiscovered(conf, found)
  <2>1. Plan!Resolved(ms)
    BY <1>3 DEF Plan!EnumerateDone
  <2>2. Len(found) \in Nat /\ DOMAIN found = 1..Len(found) /\ \A i \in 1..Len(found) : Mode(found[i])
    BY <1>2, SchemesKnown DEF Enumerating
  <2> HIDE DEF ms
  <2>3. /\ KeyMap(ms) /\ Named(ms)
        /\ DOMAIN conf \subseteq DOMAIN ms /\ \A k \in DOMAIN conf : ms[k] = conf[k]
        /\ \A i \in 1..Len(found) : Plan!HasGUID(ms, found[i].guid)
    BY <1>2, <2>2, PlansMerged DEF ms, Enumerating
  <2>4. MergedPlans(conf, found, ms, OptionsOf(ms))
    BY <2>2, <2>3 DEF MergedPlans
  <2>5. QED
    BY <1>1, <2>1, <2>4, PlanResolvedKeeps
<1>4. CASE Plan!DiscoveryFails
  <2>1. Plan!Resolved(conf)
    BY <1>4 DEF Plan!DiscoveryFails
  <2>2. MergedPlans(conf, found, conf, OptionsOf(conf))
    BY <1>2 DEF MergedPlans, Enumerating
  <2>3. QED
    BY <1>1, <2>1, <2>2, PlanResolvedKeeps
<1>5. QED
  BY <1>3, <1>4

\* So does registering, with a state that is an option or unavailable.
LEMMA PlanRegisterKeeps ==
  ASSUME PlanInv, Plan!RegisterAndSubscribe
  PROVE  PlanInv'
<1>1. /\ planPhase = "registering"
      /\ planPhase' = IF ValidSelect(planOptions) THEN "subscribed" ELSE "failed"
      /\ conf' = conf /\ found' = found /\ modes' = modes /\ planOptions' = planOptions
      /\ planReader' = planReader /\ held' = held /\ planCmd' = planCmd /\ target' = target
      /\ acts' = acts /\ planAvail' = planAvail
  BY PlanEntity DEF Plan!RegisterAndSubscribe, Plan!readVars, Plan!cmdVars, Plan!windows
<1>2. MergedPlans(conf, found, modes, planOptions)
  BY <1>1 DEF PlanInv
<1>3. planPhase' = "subscribed" => ValidSelect(planOptions)
  BY <1>1
<1>4. Plan!PlanTypeOK'
  BY <1>1 DEF PlanInv, Plan!PlanTypeOK
<1>5. Plan!PlanSelectable'
  <2>1. SUFFICES ASSUME planPhase' = "subscribed"
                 PROVE  /\ \A k \in DOMAIN conf : modes[k] = conf[k]
                        /\ modes # conf => \A i \in DOMAIN found : Plan!HasGUID(modes, found[i].guid)
                        /\ \A k \in DOMAIN modes :
                             modes[k].name \notin (DOMAIN modes) \ {k} =>
                               OptionValue(planOptions, modes[k].name) = k
    <3>1. planPhase' \in {"subscribed", "failed"}
      BY <1>1
    <3>2. QED
      BY <1>1, <2>1, <3>1, PlanEntity DEF Plan!PlanSelectable, Plan!HasGUID
  <2>2. QED
    BY <1>2, <1>3, <2>1, OffersChosen DEF MergedPlans
<1>6. MergedPlans(conf, found, modes, planOptions)'
  BY <1>1, <1>2 DEF MergedPlans, KeyMap, Named
<1>7. ValidSelect(planOptions)' = ValidSelect(planOptions)
  BY <1>1 DEF ValidSelect
<1>8. QED
  BY <1>1, <1>3, <1>4, <1>5, <1>6, <1>7 DEF PlanInv

\* Then the modes stay as they are.
LEMMA PlanServes ==
  ASSUME PlanInv, conf' = conf, found' = found, modes' = modes, planOptions' = planOptions,
         planPhase' = planPhase \/ (planPhase = "subscribed" /\ planPhase' = "running"),
         Plan!PlanTypeOK', planPhase = "enumerating" => Enumerating',
         planReader' # "wait" => planPhase' = "running",
         planCmd' # "idle" => planPhase' \in {"subscribed", "running"}
  PROVE  PlanInv'
<1>1. Plan!PlanSelectable'
  BY PlanEntity DEF PlanInv, Plan!PlanSelectable, Plan!HasGUID
<1>2. planPhase' \notin {"enumerating", "off"} => MergedPlans(conf, found, modes, planOptions)'
  BY DEF PlanInv, MergedPlans, KeyMap, Named
<1>3. planPhase' \in {"subscribed", "running"} => ValidSelect(planOptions')
  BY DEF PlanInv, ValidSelect
<1>4. planPhase' = "enumerating" => Enumerating'
  OBVIOUS
<1>5. QED
  BY <1>1, <1>2, <1>3, <1>4 DEF PlanInv

\* What enumeration found stays found while nothing of it changes.
LEMMA EnumeratingStays ==
  ASSUME Enumerating, conf' = conf, found' = found, modes' = modes, schemes' = schemes
  PROVE  Enumerating'
BY DEF Enumerating, KeyMap, Named

\* A scheme less.
LEMMA SchemeDeleted ==
  ASSUME NEW S, NEW q \in Seq(S), NEW i \in 1..Len(q)
  PROVE  Plan!RemoveAt(q, i) \in Seq(S) /\ Len(Plan!RemoveAt(q, i)) <= Len(q)
<1>1. /\ SubSeq(q, 1, i - 1) \in Seq(S) /\ Len(SubSeq(q, 1, i - 1)) = i - 1
      /\ SubSeq(q, i + 1, Len(q)) \in Seq(S) /\ Len(SubSeq(q, i + 1, Len(q))) = Len(q) - i
  OBVIOUS
<1>2. Plan!RemoveAt(q, i) = SubSeq(q, 1, i - 1) \o SubSeq(q, i + 1, Len(q))
  BY DEF Plan!RemoveAt
<1> DEFINE a == SubSeq(q, 1, i - 1)
           b == SubSeq(q, i + 1, Len(q))
<1>3. a \in Seq(S) /\ Len(a) = i - 1 /\ b \in Seq(S) /\ Len(b) = Len(q) - i
  BY <1>1
<1> HIDE DEF a, b
<1>4. a \o b \in Seq(S) /\ Len(a \o b) = Len(a) + Len(b)
  BY <1>3
<1>5. Len(a \o b) <= Len(q)
  <2>1. Len(q) \in Nat /\ i \in Nat
    OBVIOUS
  <2>2. QED
    BY <1>3, <1>4, <2>1
<1>6. QED
  BY <1>2, <1>4, <1>5, Zenon DEF a, b

\* The user may delete a scheme: that a mode is offered does not depend on its scheme.
LEMMA UserDeletesKeeps ==
  ASSUME PlanInv, Plan!UserDeletes
  PROVE  PlanInv'
<1>1. /\ conf' = conf /\ found' = found /\ modes' = modes /\ planOptions' = planOptions
      /\ planPhase' = planPhase /\ planReader' = planReader /\ held' = held
      /\ planCmd' = planCmd /\ target' = target /\ planAvail' = planAvail
      /\ acts < MaxActs /\ acts' = acts + 1
      /\ \E i \in DOMAIN schemes : schemes' = Plan!RemoveAt(schemes, i)
  BY DEF Plan!UserDeletes, Plan!serverVars, Plan!readVars, Plan!cmdVars
<1>2. Plan!PlanTypeOK'
  BY <1>1, BoundsAssumption DEF PlanInv, Plan!PlanTypeOK
<1>3. ASSUME planPhase = "enumerating" PROVE Enumerating'
  <2>1. Enumerating
    BY <1>3 DEF PlanInv
  <2>2. schemes' \in Seq(AllSchemes) /\ Len(schemes') <= Len(schemes)
    BY <1>1, <2>1, SchemeDeleted DEF Enumerating
  <2>3. Cardinality(DOMAIN conf) + Len(schemes') <= MaxNumber
    <3>1. /\ Cardinality(DOMAIN conf) \in Nat /\ Len(schemes) \in Nat /\ Len(schemes') \in Nat
          /\ MaxNumber \in Nat
      BY <2>1, <2>2, FS_CardinalityType, WordsAssumption DEF Enumerating, KeyMap
    <3>2. Cardinality(DOMAIN conf) + Len(schemes) <= MaxNumber
      BY <2>1 DEF Enumerating
    <3>3. QED
      BY <3>1, <3>2, <2>2
  <2>4. QED
    BY <1>1, <2>1, <2>2, <2>3 DEF Enumerating, KeyMap, Named
<1>4. QED
  BY <1>1, <1>2, <1>3, PlanServes DEF PlanInv

\* The user may switch to a scheme that is no mode.
LEMMA UserSwitchesKeeps ==
  ASSUME PlanInv, Plan!UserSwitches
  PROVE  PlanInv'
<1>1. /\ conf' = conf /\ found' = found /\ modes' = modes /\ planOptions' = planOptions
      /\ planPhase' = planPhase /\ planReader' = planReader /\ held' = held
      /\ planCmd' = planCmd /\ target' = target /\ planAvail' = planAvail
      /\ acts < MaxActs /\ acts' = acts + 1 /\ schemes' = schemes
  BY DEF Plan!UserSwitches, Plan!serverVars, Plan!readVars, Plan!cmdVars
<1>2. Plan!PlanTypeOK'
  BY <1>1, BoundsAssumption DEF PlanInv, Plan!PlanTypeOK
<1>3. QED
  BY <1>1, <1>2, PlanServes, EnumeratingStays DEF PlanInv

\* The reads of the active scheme.
LEMMA ReadsKeep ==
  ASSUME PlanInv,
         Plan!StartOnline \/ Plan!Tick \/ Plan!ReadActive \/ Plan!ReadNothing \/ Plan!PublishActive
  PROVE  PlanInv'
<1>1. /\ conf' = conf /\ found' = found /\ modes' = modes /\ planOptions' = planOptions
      /\ planCmd' = planCmd /\ target' = target /\ acts' = acts /\ schemes' = schemes
  BY DEF Plan!StartOnline, Plan!Tick, Plan!ReadActive, Plan!ReadNothing, Plan!PublishActive,
         Plan!serverVars, Plan!readVars, Plan!cmdVars, Plan!windows
<1>2. CASE Plan!StartOnline
  <2>1. /\ planPhase = "subscribed" /\ planPhase' = "running" /\ planAvail' = "online"
        /\ planReader' = "read" /\ held' = held
    BY <1>2 DEF Plan!StartOnline
  <2>2. planReader = "wait"
    BY <2>1 DEF PlanInv, Plan!PlanTypeOK
  <2>3. Plan!PlanTypeOK'
    BY <1>1, <2>1, <2>2 DEF PlanInv, Plan!PlanTypeOK
  <2>4. QED
    BY <1>1, <2>1, <2>3, PlanServes
<1>3. CASE Plan!Tick
  <2>1. /\ planPhase' = planPhase /\ planPhase = "running" /\ planAvail' = planAvail
        /\ planReader = "wait" /\ planReader' = "read" /\ held' = held
    BY <1>3 DEF Plan!Tick, Plan!serverVars
  <2>2. Plan!PlanTypeOK'
    BY <1>1, <2>1 DEF PlanInv, Plan!PlanTypeOK
  <2>3. QED
    BY <1>1, <2>1, <2>2, PlanServes
<1>4. CASE Plan!ReadActive
  <2>1. /\ planPhase' = planPhase /\ planAvail' = planAvail
        /\ planReader = "read" /\ planReader' = "publish" /\ held' \in DOMAIN modes
    BY <1>4 DEF Plan!ReadActive, Plan!serverVars
  <2>2. planPhase = "running"
    BY <2>1 DEF PlanInv
  <2>3. held' # <<>>
    <3>1. ValidSelect(planOptions) /\ MergedPlans(conf, found, modes, planOptions)
      BY <2>2 DEF PlanInv
    <3>2. QED
      BY <2>1, <3>1, OffersChosen DEF MergedPlans
  <2>4. Plan!PlanTypeOK'
    BY <1>1, <2>1, <2>2, <2>3 DEF PlanInv, Plan!PlanTypeOK
  <2>5. QED
    BY <1>1, <2>1, <2>2, <2>4, PlanServes DEF PlanInv
<1>5. CASE Plan!ReadNothing
  <2>1. /\ planPhase' = planPhase /\ planAvail' = planAvail
        /\ planReader = "read" /\ planReader' = "wait" /\ held' = held
    BY <1>5 DEF Plan!ReadNothing, Plan!serverVars
  <2>2. planPhase = "running"
    BY <2>1 DEF PlanInv
  <2>3. Plan!PlanTypeOK'
    BY <1>1, <2>1 DEF PlanInv, Plan!PlanTypeOK
  <2>4. QED
    BY <1>1, <2>1, <2>2, <2>3, PlanServes DEF PlanInv
<1>6. CASE Plan!PublishActive
  <2>1. /\ planPhase' = planPhase /\ planAvail' = planAvail
        /\ planReader = "publish" /\ planReader' = "wait" /\ held' = <<>>
    BY <1>6 DEF Plan!PublishActive, Plan!serverVars
  <2>2. planPhase = "running"
    BY <2>1 DEF PlanInv
  <2>3. Plan!PlanTypeOK'
    BY <1>1, <2>1 DEF PlanInv, Plan!PlanTypeOK
  <2>4. QED
    BY <1>1, <2>1, <2>2, <2>3, PlanServes DEF PlanInv
<1>7. QED
  BY <1>2, <1>3, <1>4, <1>5, <1>6

\* A command has its mode as long as it is handled.
LEMMA CommandsKeep ==
  ASSUME PlanInv,
         \/ \E input : Plan!Command(input)
         \/ Plan!Handling
  PROVE  PlanInv'
<1>1. /\ conf' = conf /\ found' = found /\ modes' = modes /\ planOptions' = planOptions
      /\ planPhase' = planPhase /\ planReader' = planReader /\ held' = held /\ schemes' = schemes
  BY DEF Plan!Command, Plan!Handling, Plan!SetScheme, Plan!SetFails, Plan!ReportFailed,
         Plan!ReportOnline, Plan!PublishTarget,
         Plan!serverVars, Plan!readVars, Plan!cmdVars, Plan!windows
<1>2. CASE \E input : Plan!Command(input)
  <2>1. PICK input :
          /\ planPhase \in {"subscribed", "running"} /\ planCmd = "idle" /\ planCmd' = "set"
          /\ acts < MaxActs /\ acts' = acts + 1 /\ planAvail' = planAvail
          /\ target' = OptionValue(planOptions, input) /\ target' # <<>>
    BY <1>2, PlanEntity DEF Plan!Command
  <2>2. target' \in DOMAIN modes
    <3>1. ValidSelect(planOptions) /\ MergedPlans(conf, found, modes, planOptions)
      BY <2>1 DEF PlanInv
    <3>2. QED
      BY <2>1, <3>1, OffersChosen DEF MergedPlans
  <2>3. Plan!PlanTypeOK'
    BY <1>1, <2>1, <2>2, BoundsAssumption DEF PlanInv, Plan!PlanTypeOK
  <2>4. QED
    BY <1>1, <2>1, <2>3, PlanServes DEF PlanInv
<1>3. CASE Plan!Handling
  <2>1. /\ planCmd # "idle" /\ planCmd' \in {"idle", "set", "failed", "done", "publish"}
        /\ acts' = acts /\ planAvail' \in {planAvail, "online", "unavailable"}
        /\ \/ planCmd' = "idle" /\ target' = <<>>
           \/ planCmd' # "idle" /\ target' = target
    BY <1>3 DEF Plan!Handling, Plan!SetScheme, Plan!SetFails, Plan!ReportFailed,
                Plan!ReportOnline, Plan!PublishTarget, Plan!windows
  <2>2. planPhase \in {"subscribed", "running"}
    BY <2>1 DEF PlanInv
  <2>3. Plan!PlanTypeOK'
    BY <1>1, <2>1 DEF PlanInv, Plan!PlanTypeOK
  <2>4. QED
    BY <1>1, <2>2, <2>3, PlanServes DEF PlanInv
<1>4. QED
  BY <1>2, <1>3

\* Every step of the plugin and of the user of its schemes keeps the invariant.
LEMMA PlanSteps ==
  ASSUME PlanInv, Plan!PlanNext \/ UNCHANGED planVars
  PROVE  PlanInv'
<1>1. CASE Plan!PlanNext
  BY <1>1, EnumerateKeeps, ResolveKeeps, PlanRegisterKeeps, ReadsKeep, CommandsKeep,
     UserSwitchesKeeps, UserDeletesKeeps
     DEF Plan!PlanNext, Plan!Starting
<1>2. CASE UNCHANGED planVars
  <2>1. /\ conf' = conf /\ found' = found /\ modes' = modes /\ planOptions' = planOptions
        /\ planPhase' = planPhase /\ planReader' = planReader /\ held' = held /\ schemes' = schemes
        /\ planCmd' = planCmd /\ target' = target /\ planAvail' = planAvail /\ acts' = acts
    BY <1>2 DEF planVars
  <2>2. Plan!PlanTypeOK'
    BY <2>1 DEF PlanInv, Plan!PlanTypeOK
  <2>3. QED
    BY <2>1, <2>2, PlanServes, EnumeratingStays DEF PlanInv
<1>3. QED
  BY <1>1, <1>2

-----------------------------------------------------------------------------
(* Fan profiles *)

\* The fan control's maps and options are the entity's.
LEMMA FanEntity ==
  /\ \A taken, base, suffix : Fan!FreeKey(taken, base, suffix) = FreeKey(taken, base, suffix)
  /\ \A map, key, thing : Fan!Put(map, key, thing) = Put(map, key, thing)
  /\ \A map : Fan!OptionsOf(map) = OptionsOf(map)
  /\ \A list : Fan!ValidSelect(list) = ValidSelect(list)
  /\ \A list, input : Fan!OptionValue(list, input) = OptionValue(list, input)
<1>1. \A taken, base, suffix : Fan!FreeKey(taken, base, suffix) = FreeKey(taken, base, suffix)
  <2>1. \A base, suffix, n : Fan!Try(base, suffix, n) = Try(base, suffix, n)
    BY DEF Fan!Try, Try
  <2> SUFFICES ASSUME NEW taken, NEW base, NEW suffix
               PROVE  Fan!FreeKey(taken, base, suffix) = FreeKey(taken, base, suffix)
    OBVIOUS
  <2> DEFINE N == 0..Cardinality(taken)
  <2>2. {n \in N : Fan!Try(base, suffix, n) \notin taken} = {n \in N : Try(base, suffix, n) \notin taken}
    BY <2>1
  <2>3. \A T : Fan!Min(T) = Min(T)
    BY Zenon DEF Fan!Min, Min
  <2>4. Fan!Cardinality(taken) = Cardinality(taken)
    BY Zenon DEF Fan!Cardinality, Cardinality
  <2>5. QED
    BY <2>1, <2>2, <2>3, <2>4, Zenon DEF Fan!FreeKey, FreeKey
<1>2. \A map, key, thing : Fan!Put(map, key, thing) = Put(map, key, thing)
  BY Zenon DEF Fan!Put, Put
<1>3. \A map : Fan!OptionsOf(map) = OptionsOf(map)
  BY Zenon DEF Fan!OptionsOf, OptionsOf, Fan!Sorted, Sorted, Fan!ByName, ByName,
               Fan!KeyBefore, KeyBefore, Fan!Cardinality, Cardinality
<1>4. \A list : Fan!ValidSelect(list) = ValidSelect(list)
  BY Zenon DEF Fan!ValidSelect, ValidSelect, Fan!Shown, Shown
<1>5. \A list, input : Fan!OptionValue(list, input) = OptionValue(list, input)
  BY Zenon DEF Fan!OptionValue, OptionValue, Fan!SelectInSeq, SelectInSeq, Fan!Min, Min
<1>6. QED
  BY <1>1, <1>2, <1>3, <1>4, <1>5, Zenon

Fields == {"name", "config", "source"}
ListedConfigs == (DOMAIN Slug \cap DOMAIN Friendly) \ {<<>>}

Profiles(ps) == KeyMap(ps) /\ Named(ps) /\ \A k \in DOMAIN ps : Fields \subseteq DOMAIN ps[k]

\* ps has the profiles of old, with nothing changed that was filled in.
Kept(old, ps) ==
  /\ DOMAIN old \subseteq DOMAIN ps
  /\ \A k \in DOMAIN old : \A f \in Fields : old[k][f] \in {<<>>, ps[k][f]}

\* Some profile is for config, and stays it.
Loads(ps, config) ==
  \E k \in DOMAIN ps : \/ ps[k].config # <<>> /\ Fold[config] = Fold[ps[k].config]
                       \/ Fold[k] = Slug[config]

\* What was kept by one merge is kept by the next.
LEMMA KeptTwice ==
  ASSUME NEW a, NEW b, NEW c, Kept(a, b), Kept(b, c)
  PROVE  Kept(a, c)
BY DEF Kept

\* A profile that loads a config still does when it is kept.
LEMMA LoadsStill ==
  ASSUME NEW old, NEW ps, Kept(old, ps), NEW config, Loads(old, config)
  PROVE  Loads(ps, config)
<1>1. PICK k \in DOMAIN old : \/ old[k].config # <<>> /\ Fold[config] = Fold[old[k].config]
                              \/ Fold[k] = Slug[config]
  BY DEF Loads
<1>2. k \in DOMAIN ps /\ old[k].config \in {<<>>, ps[k].config}
  BY DEF Kept, Fields
<1>3. QED
  BY <1>1, <1>2 DEF Loads

\* A profile for the config is one KeysOf finds.
LEMMA LoadsFound ==
  ASSUME NEW ps, NEW config, Loads(ps, config)
  PROVE  Fan!KeysOf(ps, config) # {}
BY DEF Loads, Fan!KeysOf, Fan!ConfigOf

\* MergeConfig keeps what there was and has a profile for the config, at most one more.
LEMMA ConfigMerged ==
  ASSUME NEW ps, Profiles(ps), Cardinality(DOMAIN ps) <= MaxNumber,
         NEW config \in ListedConfigs, NEW r \in Fan!MergeConfig(ps, config)
  PROVE  /\ Profiles(r) /\ Kept(ps, r) /\ Loads(r, config)
         /\ Cardinality(DOMAIN r) <= Cardinality(DOMAIN ps) + 1
<1> DEFINE keys == Fan!KeysOf(ps, config)
           source == Fan!SourceOf(config)
           filled(p) == [p EXCEPT !.config = IF @ = <<>> THEN config ELSE @,
                                  !.source = IF @ = <<>> THEN source ELSE @]
           added == [name |-> Friendly[config], config |-> config, source |-> source]
           key == FreeKey(DOMAIN ps, Slug[config], "hash")
<1> HIDE DEF source
<1>1. /\ config # <<>> /\ Slug[config] \in Keys /\ "hash" \in Words
      /\ Friendly[config] \in DOMAIN NameRank \ {<<>>}
  BY InstallsAssumption, WordsAssumption DEF ListedConfigs
<1>2. Cardinality(DOMAIN ps) \in Nat /\ IsFiniteSet(DOMAIN ps)
  BY FS_CardinalityType DEF Profiles, KeyMap
<1>3. CASE keys # {}
  <2>1. PICK k \in keys : r = [ps EXCEPT ![k] = filled(@)]
    BY <1>3 DEF Fan!MergeConfig, source
  <2>2. /\ k \in DOMAIN ps
        /\ \/ Fold[config] = Fold[Fan!ConfigOf(ps[k], k)]
           \/ Fold[k] = Slug[config]
    BY DEF Fan!KeysOf
  <2>3. DOMAIN r = DOMAIN ps /\ \A j \in DOMAIN ps : j # k => r[j] = ps[j]
    BY <2>1
  <2>4. Fields \subseteq DOMAIN ps[k]
    BY <2>2 DEF Profiles
  <2>5. /\ DOMAIN r[k] = DOMAIN ps[k] /\ r[k].name = ps[k].name
        /\ r[k].config = IF ps[k].config = <<>> THEN config ELSE ps[k].config
        /\ r[k].source = IF ps[k].source = <<>> THEN source ELSE ps[k].source
    <3>1. r[k] = filled(ps[k])
      BY <2>1, <2>2
    <3> DEFINE half == [ps[k] EXCEPT !.config = IF @ = <<>> THEN config ELSE @]
    <3>2. /\ DOMAIN half = DOMAIN ps[k] /\ half.name = ps[k].name
          /\ half.config = IF ps[k].config = <<>> THEN config ELSE ps[k].config
          /\ half.source = ps[k].source
      BY <2>4 DEF Fields
    <3>3. r[k] = [half EXCEPT !.source = IF @ = <<>> THEN source ELSE @]
      BY <3>1
    <3> HIDE DEF half
    <3>4. /\ DOMAIN r[k] = DOMAIN half /\ r[k].name = half.name /\ r[k].config = half.config
          /\ r[k].source = IF half.source = <<>> THEN source ELSE half.source
      BY <2>4, <3>2, <3>3 DEF Fields
    <3>5. QED
      BY <3>2, <3>4
  <2> HIDE DEF keys, filled, added, key
  <2>6. Profiles(r)
    BY <2>2, <2>3, <2>5 DEF Profiles, KeyMap, Named
  <2>7. Kept(ps, r)
    <3>1. \A f \in Fields : ps[k][f] \in {<<>>, r[k][f]}
      BY <2>5 DEF Fields
    <3>2. QED
      BY <2>3, <3>1 DEF Kept
  <2>8. Loads(r, config)
    BY <1>1, <2>2, <2>3, <2>5 DEF Loads, Fan!ConfigOf
  <2>9. QED
    BY <2>3, <2>6, <2>7, <2>8, <1>2
<1>4. CASE keys = {}
  <2>1. r = Put(ps, key, added)
    BY <1>4, FanEntity DEF Fan!MergeConfig, source
  <2>2. added.name = Friendly[config] /\ added.config = config /\ Fields \subseteq DOMAIN added
    BY DEF Fields
  <2> HIDE DEF added, keys
  <2>3. key \in Keys \ DOMAIN ps
    BY <1>1, <1>2, FreeKeyIsFree
  <2> HIDE DEF key
  <2>4. /\ KeyMap(r) /\ Named(r) /\ Extends(r, ps) /\ key \in DOMAIN r /\ r[key] = added
        /\ DOMAIN r = (DOMAIN ps) \cup {key}
    <3>1. KeyMap(ps) /\ Named(ps)
      BY DEF Profiles
    <3>2. added.name \in DOMAIN NameRank \ {<<>>}
      BY <1>1, <2>2
    <3>3. /\ KeyMap(r) /\ Named(r) /\ Extends(r, ps) /\ key \in DOMAIN r /\ r[key] = added
      BY <2>1, <2>3, <3>1, <3>2, PutNew
    <3>4. QED
      BY <2>1, <3>3, PutDomain, Zenon
  <2>5. Profiles(r)
    BY <2>2, <2>4 DEF Profiles, Extends
  <2>6. Kept(ps, r)
    BY <2>4 DEF Extends, Kept
  <2>7. Loads(r, config)
    BY <1>1, <2>2, <2>4 DEF Loads
  <2>8. QED
    BY <2>4, <2>5, <2>6, <2>7 DEF Extends
<1>5. QED
  BY <1>3, <1>4

\* However keys were found in the map, merging keeps what is filled in, and every
\* listed config has a profile after it.
LEMMA ProfilesMerged ==
  ASSUME NEW ps, Profiles(ps), NEW list, list \in Seq(ListedConfigs),
         Cardinality(DOMAIN ps) + Len(list) <= MaxNumber,
         NEW result \in Fan!MergeDiscovered(ps, list)
  PROVE  Profiles(result) /\ Kept(ps, result) /\ \A i \in DOMAIN list : Loads(result, list[i])
<1> DEFINE Step(f, n) == IF n = 0 THEN {ps} ELSE UNION {Fan!MergeConfig(r, list[n]) : r \in f[n - 1]}
           merged[n \in 0..Len(list)] == Step(merged, n)
           Exists == {m \in Nat : \E f : f = [n \in 0..m |-> Step(f, n)]}
<1>1. result \in merged[Len(list)] /\ Len(list) \in Nat /\ DOMAIN list = 1..Len(list)
  BY DEF Fan!MergeDiscovered
<1>2. merged = CHOOSE f : f = [n \in 0..Len(list) |-> Step(f, n)]
  OBVIOUS
<1> HIDE DEF merged
<1>3. ASSUME NEW f, NEW g, NEW n, n # 0 => f[n - 1] = g[n - 1]
      PROVE  Step(f, n) = Step(g, n)
  BY <1>3
<1>4. 0 \in Exists
  <2>1. [n \in 0..0 |-> {ps}] = [n \in 0..0 |-> Step([j \in 0..0 |-> {ps}], n)]
    OBVIOUS
  <2>2. QED
    BY <2>1
<1>5. ASSUME NEW m \in Nat, m \in Exists PROVE m + 1 \in Exists
  <2>1. PICK f : f = [n \in 0..m |-> Step(f, n)]
    BY <1>5
  <2> HIDE DEF Step
  <2> DEFINE g == [n \in 0..(m + 1) |-> IF n <= m THEN f[n] ELSE Step(f, m + 1)]
  <2>2. ASSUME NEW n \in 0..(m + 1) PROVE g[n] = Step(g, n)
    <3>1. n # 0 => g[n - 1] = f[n - 1]
      OBVIOUS
    <3>2. Step(g, n) = Step(f, n)
      <4> HIDE DEF g
      <4>1. QED
        BY <3>1, <1>3
    <3>3. CASE n <= m
      BY <2>1, <3>2, <3>3
    <3>4. CASE n = m + 1
      BY <3>2, <3>4
    <3>5. QED
      BY <3>3, <3>4
  <2>3. g = [n \in 0..(m + 1) |-> Step(g, n)]
    BY <2>2
  <2> HIDE DEF g
  <2>4. \E h : h = [n \in 0..(m + 1) |-> Step(h, n)]
    BY <2>3, Zenon
  <2>5. QED
    BY <2>4
<1>6. merged = [n \in 0..Len(list) |-> Step(merged, n)]
  <2> HIDE DEF Step
  <2>1. Len(list) \in Exists
    <3> HIDE DEF Exists
    <3>1. Nat \subseteq Exists
      BY <1>4, <1>5, Induction
    <3>2. QED
      BY <3>1
  <2>2. QED
    BY <2>1, <1>2
<1> HIDE DEF Exists
<1> DEFINE Good(n) == \A r \in merged[n] :
                        /\ Profiles(r) /\ Kept(ps, r) /\ \A i \in 1..n : Loads(r, list[i])
                        /\ Cardinality(DOMAIN r) <= Cardinality(DOMAIN ps) + n
           T == {n \in Nat : n <= Len(list) => Good(n)}
<1>7. Cardinality(DOMAIN ps) \in Nat /\ MaxNumber \in Nat
  BY FS_CardinalityType, WordsAssumption DEF Profiles, KeyMap
<1>8. 0 \in T
  <2>1. merged[0] = {ps}
    BY <1>1, <1>6
  <2>2. Kept(ps, ps)
    BY DEF Kept
  <2>3. QED
    BY <2>1, <2>2, <1>7
<1>9. ASSUME NEW n \in Nat, n \in T PROVE n + 1 \in T
  <2>1. SUFFICES ASSUME n + 1 <= Len(list), NEW r \in merged[n + 1]
                 PROVE  /\ Profiles(r) /\ Kept(ps, r) /\ \A i \in 1..(n + 1) : Loads(r, list[i])
                        /\ Cardinality(DOMAIN r) <= Cardinality(DOMAIN ps) + (n + 1)
    OBVIOUS
  <2>2. n + 1 \in 0..Len(list) /\ n + 1 \in 1..Len(list) /\ (n + 1) - 1 = n
    BY <2>1, <1>1
  <2>3. PICK q \in merged[n] : r \in Fan!MergeConfig(q, list[n + 1])
    BY <1>6, <2>1, <2>2
  <2>4. /\ Profiles(q) /\ Kept(ps, q) /\ \A i \in 1..n : Loads(q, list[i])
        /\ Cardinality(DOMAIN q) <= Cardinality(DOMAIN ps) + n
    BY <1>9, <2>1, <2>2, <2>3, <1>1
  <2>5. Cardinality(DOMAIN q) \in Nat /\ Cardinality(DOMAIN q) <= MaxNumber
    <3>1. Cardinality(DOMAIN q) \in Nat
      BY <2>4, FS_CardinalityType DEF Profiles, KeyMap
    <3>2. QED
      BY <3>1, <2>4, <1>1, <1>7, <2>1
  <2>6. list[n + 1] \in ListedConfigs
    BY <2>2
  <2>7. /\ Profiles(r) /\ Kept(q, r) /\ Loads(r, list[n + 1])
        /\ Cardinality(DOMAIN r) <= Cardinality(DOMAIN q) + 1
    BY <2>3, <2>4, <2>5, <2>6, ConfigMerged
  <2>8. Cardinality(DOMAIN r) <= Cardinality(DOMAIN ps) + (n + 1)
    <3>1. Cardinality(DOMAIN r) \in Nat
      BY <2>7, FS_CardinalityType DEF Profiles, KeyMap
    <3>2. QED
      BY <3>1, <2>4, <2>5, <2>7, <1>7
  <2>9. Kept(ps, r)
    BY <2>4, <2>7, KeptTwice
  <2>10. ASSUME NEW i \in 1..(n + 1) PROVE Loads(r, list[i])
    <3>1. CASE i \in 1..n
      BY <3>1, <2>4, <2>7, LoadsStill
    <3>2. CASE i = n + 1
      BY <3>2, <2>7
    <3>3. QED
      BY <3>1, <3>2
  <2>11. QED
    BY <2>7, <2>8, <2>9, <2>10
<1>10. Good(Len(list))
  <2> HIDE DEF T, Good
  <2>1. Len(list) \in T
    BY <1>1, <1>8, <1>9, Induction
  <2>2. QED
    BY <1>1, <2>1 DEF T
<1>11. QED
  BY <1>1, <1>10

\* The configured profiles are a map of keys with names once they are normalized.
LEMMA ProfilesNormalized ==
  ASSUME NEW s \in Installs
  PROVE  /\ Profiles(Fan!Normalized(s.configured)) /\ Kept(s.configured, Fan!Normalized(s.configured))
         /\ DOMAIN Fan!Normalized(s.configured) = DOMAIN s.configured
<1> DEFINE c == s.configured
           ps == Fan!Normalized(c)
<1>1. KeyMap(c) /\ \A k \in DOMAIN c : /\ DOMAIN c[k] = Fields
                                       /\ c[k].name \in DOMAIN NameRank \cup {<<>>}
                                       /\ c[k].name = <<>> =>
                                            Friendly[Fan!ConfigOf(c[k], k)] \in DOMAIN NameRank \ {<<>>}
  BY InstallsAssumption DEF KeyMap, Fields
<1> HIDE DEF c
<1>2. DOMAIN ps = DOMAIN c
  BY DEF Fan!Normalized
<1>3. ASSUME NEW k \in DOMAIN c
      PROVE  /\ DOMAIN ps[k] = Fields
             /\ ps[k].name = IF c[k].name = <<>> THEN Friendly[Fan!ConfigOf(c[k], k)] ELSE c[k].name
             /\ ps[k].config = IF c[k].source = <<>> THEN c[k].config ELSE Fan!ConfigOf(c[k], k)
             /\ ps[k].source = c[k].source
  <2> DEFINE config == IF c[k].source = <<>> THEN c[k].config ELSE Fan!ConfigOf(c[k], k)
             half == [c[k] EXCEPT !.config = config]
  <2>1. ps[k] = [half EXCEPT !.name = IF @ = <<>> THEN Friendly[Fan!ConfigOf(c[k], k)] ELSE @]
    BY DEF Fan!Normalized
  <2> HIDE DEF config
  <2>2. /\ DOMAIN half = Fields /\ half.name = c[k].name /\ half.config = config
        /\ half.source = c[k].source
    BY <1>1 DEF Fields
  <2> HIDE DEF half
  <2>3. /\ DOMAIN ps[k] = Fields /\ ps[k].config = half.config /\ ps[k].source = half.source
        /\ ps[k].name = IF half.name = <<>> THEN Friendly[Fan!ConfigOf(c[k], k)] ELSE half.name
    BY <2>1, <2>2 DEF Fields
  <2>4. QED
    BY <2>2, <2>3 DEF config
<1> HIDE DEF ps
<1>4. Profiles(ps)
  BY <1>1, <1>2, <1>3 DEF Profiles, KeyMap, Named
<1>5. \A k \in DOMAIN c : \A f \in Fields : c[k][f] \in {<<>>, ps[k][f]}
  <2>1. TAKE k \in DOMAIN c
  <2>2. c[k].name \in {<<>>, ps[k].name}
    BY <1>3
  <2>3. c[k].config \in {<<>>, ps[k].config}
    BY <1>3 DEF Fan!ConfigOf
  <2>4. c[k].source \in {<<>>, ps[k].source}
    BY <1>3
  <2>5. QED
    BY <2>2, <2>3, <2>4 DEF Fields
<1>6. QED
  BY <1>2, <1>4, <1>5 DEF Kept, ps, c

\* ps merges what the installation s lists with its configured profiles, list offers it.
MergedProfiles(s, ps, list) ==
  /\ Profiles(ps) /\ Kept(s.configured, ps)
  /\ ps # Fan!Normalized(s.configured) => \A i \in DOMAIN s.listed : Loads(ps, s.listed[i])
  /\ list = OptionsOf(ps)

\* Where an actor can be in which call, and with which profile.
Call(a) ==
  /\ a = "poll" => /\ goal[a] \in {"none", "list", "ask", "publish"}
                   /\ goal[a] = "list" <=> fanPhase = "starting"
  /\ a = "cmd" => /\ goal[a] \in {"none", "load", "ask", "publish"}
                  /\ profile[a] = <<>> <=> goal[a] = "none"
  /\ at[a] \in {"open", "start", "wait", "sent"}
  /\ at[a] \in {"start", "wait"} => goal[a] \in {"list", "load"}
  /\ at[a] = "sent" => goal[a] \in {"list", "load", "ask"}
  /\ profile[a] \in (DOMAIN profiles) \cup {<<>>}
  /\ goal[a] \notin {"none", "list"} => fanPhase = "running"

Calls ==
  /\ DOMAIN goal = Fan!Actors /\ DOMAIN at = Fan!Actors
  /\ DOMAIN reply = Fan!Actors /\ DOMAIN profile = Fan!Actors
  /\ \A a \in Fan!Actors : Call(a)

\* Once Start has its profiles they are merged ones, that can all be chosen when the
\* entity is registered; and only then there are other calls than that for the list.
FanInv ==
  /\ Fan!FanTypeOK /\ Calls
  /\ fanPhase = "starting" => install \in Installs
  /\ fanPhase \notin {"starting", "off"} => MergedProfiles(install, profiles, fanOptions)
  /\ fanPhase = "running" => ValidSelect(fanOptions)

\* Then the fields of the user are kept, and what is listed can be chosen.
LEMMA ProfilesSelectable ==
  ASSUME FanInv
  PROVE  Fan!FanSelectable
<1>1. SUFFICES ASSUME fanPhase = "running"
               PROVE  /\ \A k \in DOMAIN install.configured : \A f \in Fields :
                           install.configured[k][f] \in {<<>>, profiles[k][f]}
                      /\ \A k \in DOMAIN profiles :
                           profiles[k].name \notin (DOMAIN profiles) \ {k} =>
                             OptionValue(fanOptions, profiles[k].name) = k
                      /\ profiles # Fan!Normalized(install.configured) =>
                           \A i \in DOMAIN install.listed :
                             Fan!KeysOf(profiles, install.listed[i]) # {}
  BY FanEntity DEF Fan!FanSelectable, Fields
<1>2. MergedProfiles(install, profiles, fanOptions) /\ ValidSelect(fanOptions)
  BY <1>1 DEF FanInv
<1>3. KeyMap(profiles) /\ Named(profiles) /\ fanOptions = OptionsOf(profiles)
  BY <1>2 DEF MergedProfiles, Profiles
<1>4. \A k \in DOMAIN install.configured : \A f \in Fields :
                           install.configured[k][f] \in {<<>>, profiles[k][f]}
  BY <1>2 DEF MergedProfiles, Kept
<1>5. \A k \in DOMAIN profiles :
                           profiles[k].name \notin (DOMAIN profiles) \ {k} =>
                             OptionValue(fanOptions, profiles[k].name) = k
  BY <1>2, <1>3, OffersChosen
<1>6. profiles # Fan!Normalized(install.configured) =>
                           \A i \in DOMAIN install.listed :
                             Fan!KeysOf(profiles, install.listed[i]) # {}
  BY <1>2, LoadsFound DEF MergedProfiles
<1>7. QED
  BY <1>4, <1>5, <1>6

\* The invariant holds before Start has asked for anything.
LEMMA FanStarts ==
  ASSUME Fan!FanInit \/ FanOff
  PROVE  FanInv
<1>1. /\ fanPhase \in {"starting", "off"} /\ profiles = <<>>
      /\ fanAvail = "none" /\ faults = 0 /\ moves = 0
      /\ goal["cmd"] = "none" /\ goal["poll"] = IF fanPhase = "starting" THEN "list" ELSE "none"
      /\ at["cmd"] = "open" /\ at["poll"] = "open"
      /\ profile["cmd"] = <<>> /\ profile["poll"] = <<>>
  BY DEF Fan!FanInit, FanOff, Fan!Actors
<1>2. /\ DOMAIN goal = Fan!Actors /\ DOMAIN at = Fan!Actors
      /\ DOMAIN reply = Fan!Actors /\ DOMAIN profile = Fan!Actors
  BY DEF Fan!FanInit, FanOff, Fan!Actors
<1>3. (fanPhase = "starting" => install \in Installs) /\ fc \in {"stopped", "up", "served"}
  BY InstallsAssumption DEF Fan!FanInit, FanOff
<1>4. Calls
  BY <1>1, <1>2 DEF Calls, Call, Fan!Actors
<1>5. Fan!FanTypeOK
  BY <1>1, <1>3, BoundsAssumption DEF Fan!FanTypeOK, Fan!Actors
<1>6. QED
  BY <1>1, <1>3, <1>4, <1>5 DEF FanInv

\* The type is what the calls are, and that of the rest.
LEMMA CallsTyped ==
  ASSUME FanInv, Calls', fanPhase' \in {"starting", "registering", "running", "failed", "off"},
         fc' \in {"stopped", "up", "served"}, fanAvail' \in {"none", "online", "unavailable"},
         faults' \in 0..MaxFaults, moves' \in 0..MaxMoves
  PROVE  Fan!FanTypeOK'
BY DEF Calls, Call, Fan!FanTypeOK, Fan!Actors

\* What the type invariant says of the plugin as a whole.
LEMMA FanTyped ==
  ASSUME FanInv
  PROVE  /\ fanPhase \in {"starting", "registering", "running", "failed", "off"}
         /\ fc \in {"stopped", "up", "served"} /\ fanAvail \in {"none", "online", "unavailable"}
         /\ faults \in 0..MaxFaults /\ moves \in 0..MaxMoves
BY DEF FanInv, Fan!FanTypeOK

\* Steps after which the profiles are the same.
LEMMA FanServes ==
  ASSUME FanInv, UNCHANGED Fan!setup, Calls',
         fc' \in {"stopped", "up", "served"}, fanAvail' \in {"none", "online", "unavailable"},
         faults' \in 0..MaxFaults, moves' \in 0..MaxMoves
  PROVE  FanInv'
<1>1. fanPhase' = fanPhase /\ install' = install /\ profiles' = profiles /\ fanOptions' = fanOptions
  BY DEF Fan!setup
<1>2. Fan!FanTypeOK'
  BY <1>1, FanTyped, CallsTyped
<1>3. fanPhase' \notin {"starting", "off"} => MergedProfiles(install, profiles, fanOptions)'
  BY <1>1 DEF FanInv, MergedProfiles, Profiles, KeyMap, Named, Kept, Loads
<1>4. fanPhase' = "running" => ValidSelect(fanOptions')
  BY <1>1 DEF FanInv
<1>5. QED
  BY <1>1, <1>2, <1>3, <1>4 DEF FanInv

\* An actor takes up another call, or comes to another place in its call.
LEMMA CallTaken ==
  ASSUME Calls, NEW a \in Fan!Actors, NEW g, NEW k, Fan!To(a, g, k),
         DOMAIN profiles' = DOMAIN profiles, fanPhase' = fanPhase,
         g # "list", fanPhase # "starting" \/ a # "poll",
         g \in {"none", "ask", "publish"} \/ (g = "load" /\ a = "cmd"),
         g # "none" => fanPhase = "running",
         k \in (DOMAIN profiles) \cup {<<>>}, a = "cmd" => (k = <<>> <=> g = "none")
  PROVE  Calls'
<1>1. /\ goal' = [goal EXCEPT ![a] = g] /\ at' = [at EXCEPT ![a] = "open"]
      /\ reply' = [reply EXCEPT ![a] = Fan!None] /\ profile' = [profile EXCEPT ![a] = k]
  BY DEF Fan!To
<1>2. /\ DOMAIN goal' = Fan!Actors /\ DOMAIN at' = Fan!Actors
      /\ DOMAIN reply' = Fan!Actors /\ DOMAIN profile' = Fan!Actors
      /\ goal'[a] = g /\ at'[a] = "open" /\ profile'[a] = k
      /\ \A b \in Fan!Actors : b # a =>
           goal'[b] = goal[b] /\ at'[b] = at[b] /\ profile'[b] = profile[b]
  BY <1>1 DEF Calls
<1>3. ASSUME NEW b \in Fan!Actors PROVE Call(b)'
  <2>1. CASE b = a
    BY <1>2, <2>1 DEF Call
  <2>2. CASE b # a
    BY <1>2, <2>2 DEF Calls, Call
  <2>3. QED
    BY <2>1, <2>2
<1>4. QED
  BY <1>2, <1>3 DEF Calls

\* A call that goes on by a step belongs to the actor it was made for.
LEMMA CallGoes ==
  ASSUME Calls, NEW a \in Fan!Actors, NEW spot \in {"open", "start", "wait", "sent"}, Fan!Goes(a, spot),
         UNCHANGED Fan!setup,
         spot \in {"start", "wait"} => goal[a] \in {"list", "load"},
         spot = "sent" => goal[a] \in {"list", "load", "ask"}
  PROVE  Calls'
<1>1. /\ at' = [at EXCEPT ![a] = spot] /\ goal' = goal /\ reply' = reply /\ profile' = profile
      /\ fanPhase' = fanPhase /\ profiles' = profiles
  BY DEF Fan!Goes, Fan!setup
<1>2. /\ DOMAIN at' = Fan!Actors /\ at'[a] = spot
      /\ \A b \in Fan!Actors : b # a => at'[b] = at[b]
  BY <1>1 DEF Calls
<1>3. QED
  BY <1>1, <1>2 DEF Calls, Call

\* A reply comes, is lost or goes to another call.
LEMMA CallReplied ==
  ASSUME Calls, UNCHANGED Fan!setup, goal' = goal, at' = at, profile' = profile,
         DOMAIN reply' = Fan!Actors
  PROVE  Calls'
<1>1. fanPhase' = fanPhase /\ profiles' = profiles
  BY DEF Fan!setup
<1>2. QED
  BY <1>1 DEF Calls, Call

\* The search of activeProfile ends.
LEMMA KnownKeeps ==
  ASSUME FanInv, NEW a \in Fan!Actors, goal[a] = "ask",
         NEW ks, ks \subseteq DOMAIN profiles, Fan!Known(a, ks),
         fc' \in {"stopped", "up", "served"}, faults' \in 0..MaxFaults, moves' \in 0..MaxMoves
  PROVE  FanInv'
<1>1. Calls /\ Call(a)
  BY DEF FanInv, Calls
<1>2. fanPhase = "running"
  BY <1>1 DEF Call
<1>3. \A k \in DOMAIN profiles : k # <<>>
  <2>1. MergedProfiles(install, profiles, fanOptions) /\ ValidSelect(fanOptions)
    BY <1>2 DEF FanInv
  <2>2. QED
    BY <2>1, OffersChosen DEF MergedProfiles, Profiles
<1>4. /\ UNCHANGED Fan!setup /\ fanAvail' = fanAvail
      /\ \/ \E k \in ks : Fan!To(a, "publish", k)
         \/ a = "cmd" /\ Fan!To(a, "publish", profile[a])
         \/ a # "cmd" /\ Fan!To(a, "none", <<>>)
  BY DEF Fan!Known
<1>5. profiles' = profiles /\ fanPhase' = fanPhase
  BY <1>4 DEF Fan!setup
<1>6. Calls'
  <2>1. CASE \E k \in ks : Fan!To(a, "publish", k)
    <3>1. PICK k \in ks : Fan!To(a, "publish", k)
      BY <2>1
    <3>2. k \in DOMAIN profiles /\ k # <<>>
      BY <3>1, <1>3
    <3>3. QED
      BY <1>1, <1>2, <1>5, <3>1, <3>2, CallTaken
  <2>2. CASE a = "cmd" /\ Fan!To(a, "publish", profile[a])
    <3>1. profile[a] # <<>> /\ profile[a] \in DOMAIN profiles \cup {<<>>}
      BY <1>1, <2>2 DEF Call
    <3>2. QED
      BY <1>1, <1>2, <1>5, <2>2, <3>1, CallTaken
  <2>3. CASE a # "cmd" /\ Fan!To(a, "none", <<>>)
    BY <1>1, <1>2, <1>5, <2>3, CallTaken
  <2>4. QED
    BY <1>4, <2>1, <2>2, <2>3
<1>7. QED
  BY <1>4, <1>6, FanTyped, FanServes

\* Start has its profiles: until then there was no command.
LEMMA ResolvedKeeps ==
  ASSUME FanInv, goal["poll"] = "list",
         NEW ps, MergedProfiles(install, ps, OptionsOf(ps)), Fan!Resolved(ps),
         fc' \in {"stopped", "up", "served"}, faults' \in 0..MaxFaults, moves' \in 0..MaxMoves
  PROVE  FanInv'
<1>1. Calls /\ Call("poll") /\ Call("cmd")
  BY DEF FanInv, Calls, Fan!Actors
<1>2. /\ profiles' = ps /\ fanOptions' = OptionsOf(ps) /\ install' = install
      /\ fanPhase' \in {"failed", "registering"} /\ fanAvail' = fanAvail
      /\ Fan!To("poll", "none", <<>>)
  BY FanEntity DEF Fan!Resolved
<1>3. fanPhase = "starting" /\ goal["cmd"] = "none" /\ profile["cmd"] = <<>> /\ at["cmd"] = "open"
  BY <1>1 DEF Call
<1>4. /\ goal' = [goal EXCEPT !["poll"] = "none"] /\ at' = [at EXCEPT !["poll"] = "open"]
      /\ reply' = [reply EXCEPT !["poll"] = Fan!None]
      /\ profile' = [profile EXCEPT !["poll"] = <<>>]
  BY <1>2 DEF Fan!To
<1>5. /\ DOMAIN goal' = Fan!Actors /\ DOMAIN at' = Fan!Actors
      /\ DOMAIN reply' = Fan!Actors /\ DOMAIN profile' = Fan!Actors
      /\ goal'["poll"] = "none" /\ at'["poll"] = "open" /\ profile'["poll"] = <<>>
      /\ goal'["cmd"] = "none" /\ at'["cmd"] = "open" /\ profile'["cmd"] = <<>>
  BY <1>1, <1>3, <1>4 DEF Calls, Fan!Actors
<1>6. Calls'
  BY <1>2, <1>5 DEF Calls, Call, Fan!Actors
<1>7. Fan!FanTypeOK'
  BY <1>2, <1>6, FanTyped, CallsTyped
<1>8. MergedProfiles(install, profiles, fanOptions)'
  <2>1. MergedProfiles(install', profiles', fanOptions')
    BY <1>2
  <2>2. QED
    BY <2>1 DEF MergedProfiles, Profiles, KeyMap, Named, Kept, Loads
<1>9. QED
  BY <1>2, <1>6, <1>7, <1>8 DEF FanInv

\* Start makes do with the configured profiles, or merges those that are listed.
LEMMA StartResolves ==
  ASSUME NEW s \in Installs,
         NEW ps, \/ ps = Fan!Normalized(s.configured)
                 \/ ps \in Fan!MergeDiscovered(Fan!Normalized(s.configured), s.listed)
  PROVE  MergedProfiles(s, ps, OptionsOf(ps))
<1> DEFINE set == Fan!Normalized(s.configured)
<1>1. Profiles(set) /\ Kept(s.configured, set) /\ DOMAIN set = DOMAIN s.configured
  BY ProfilesNormalized
<1> HIDE DEF set
<1>2. CASE ps = set
  BY <1>1, <1>2 DEF MergedProfiles, set
<1>3. CASE ps \in Fan!MergeDiscovered(set, s.listed)
  <2>1. s.listed \in Seq(ListedConfigs) /\ Cardinality(DOMAIN s.configured) + Len(s.listed) <= MaxNumber
    BY InstallsAssumption DEF ListedConfigs
  <2>2. Cardinality(DOMAIN set) + Len(s.listed) <= MaxNumber
    BY <1>1, <2>1
  <2>3. /\ Profiles(ps) /\ Kept(set, ps)
        /\ \A i \in DOMAIN s.listed : Loads(ps, s.listed[i])
    BY <1>1, <1>3, <2>1, <2>2, ProfilesMerged
  <2>4. QED
    BY <1>1, <2>3, KeptTwice DEF MergedProfiles
<1>4. QED
  BY <1>2, <1>3 DEF set

\* The call of an actor fails.
LEMMA FailsKeeps ==
  ASSUME FanInv, NEW a \in Fan!Actors, goal[a] \in {"list", "load", "ask"}, Fan!Fails(a),
         fc' \in {"stopped", "up", "served"}, faults' \in 0..MaxFaults, moves' \in 0..MaxMoves
  PROVE  FanInv'
<1>1. Calls /\ Call(a)
  BY DEF FanInv, Calls
<1>2. CASE goal[a] = "list"
  <2>1. goal["poll"] = "list" /\ fanPhase = "starting"
    BY <1>1, <1>2 DEF Call, Fan!Actors
  <2>2. Fan!Resolved(Fan!Normalized(install.configured))
    BY <1>2 DEF Fan!Fails
  <2>3. install \in Installs
    BY <2>1 DEF FanInv
  <2>4. QED
    BY <2>1, <2>2, <2>3, StartResolves, ResolvedKeeps
<1>3. CASE goal[a] = "load"
  <2>1. Fan!To(a, "none", <<>>) /\ fanAvail' = "unavailable" /\ UNCHANGED Fan!setup
    BY <1>3 DEF Fan!Fails
  <2>2. profiles' = profiles /\ fanPhase' = fanPhase /\ fanPhase = "running"
    BY <1>1, <1>3, <2>1 DEF Fan!setup, Call
  <2>3. Calls'
    BY <1>1, <2>1, <2>2, CallTaken
  <2>4. QED
    BY <2>1, <2>3, FanServes
<1>4. CASE goal[a] = "ask"
  <2>1. Fan!Known(a, Fan!ByHash)
    BY <1>4 DEF Fan!Fails
  <2>2. Fan!ByHash \subseteq DOMAIN profiles
    BY DEF Fan!ByHash
  <2>3. QED
    BY <1>4, <2>1, <2>2, KnownKeeps
<1>5. QED
  BY <1>2, <1>3, <1>4

\* A call takes its steps and may fail at each of them.
LEMMA CallKeeps ==
  ASSUME FanInv, NEW a \in Fan!Actors,
         \/ Fan!Open(a) \/ Fan!NoPipe(a) \/ Fan!OpenFails(a)
         \/ Fan!StartFanControl(a) \/ Fan!StartFails(a)
         \/ Fan!NoAnswer(a) \/ Fan!Deadline(a)
  PROVE  FanInv'
<1>1. Calls /\ Call(a)
  BY DEF FanInv, Calls
<1>2. /\ fc \in {"stopped", "up", "served"} /\ fanAvail \in {"none", "online", "unavailable"}
      /\ faults \in 0..MaxFaults /\ moves \in 0..MaxMoves
  BY FanTyped
<1>3. CASE Fan!Open(a)
  <2>1. /\ goal[a] \in {"list", "load", "ask"} /\ Fan!Goes(a, "sent") /\ UNCHANGED Fan!setup
        /\ fc' = fc /\ fanAvail' = fanAvail /\ faults' = faults /\ moves' = moves
    BY <1>3 DEF Fan!Open, Fan!device
  <2>2. Calls'
    BY <1>1, <2>1, CallGoes
  <2>3. QED
    BY <1>2, <2>1, <2>2, FanServes
<1>4. CASE Fan!NoPipe(a)
  <2>1. /\ goal[a] \in {"list", "load", "ask"} /\ fc' = fc /\ faults' = faults /\ moves' = moves
        /\ \/ Fan!Fails(a)
           \/ /\ goal[a] # "ask" /\ Fan!Goes(a, "start") /\ UNCHANGED Fan!setup
              /\ fanAvail' = fanAvail
    BY <1>4 DEF Fan!NoPipe, Fan!device
  <2>2. CASE Fan!Fails(a)
    BY <1>2, <2>1, <2>2, FailsKeeps
  <2>3. CASE /\ goal[a] # "ask" /\ Fan!Goes(a, "start") /\ UNCHANGED Fan!setup
             /\ fanAvail' = fanAvail
    <3>1. Calls'
      BY <1>1, <2>1, <2>3, CallGoes
    <3>2. QED
      BY <1>2, <2>1, <2>3, <3>1, FanServes
  <2>4. QED
    BY <2>1, <2>2, <2>3
<1>5. CASE Fan!OpenFails(a)
  <2>1. /\ goal[a] \in {"list", "load", "ask"} /\ Fan!Fails(a) /\ fc' = fc
        /\ faults < MaxFaults /\ faults' = faults + 1 /\ moves' = moves
    BY <1>5 DEF Fan!OpenFails, Fan!device, Fan!Fault
  <2>2. faults' \in 0..MaxFaults
    BY <1>2, <2>1, BoundsAssumption
  <2>3. QED
    BY <1>2, <2>1, <2>2, FailsKeeps
<1>6. CASE Fan!StartFanControl(a)
  <2>1. /\ at[a] = "start" /\ fc' \in {"up", fc} /\ Fan!Goes(a, "wait") /\ UNCHANGED Fan!setup
        /\ fanAvail' = fanAvail /\ faults' = faults /\ moves' = moves
    BY <1>6 DEF Fan!StartFanControl
  <2>2. goal[a] \in {"list", "load"}
    BY <1>1, <2>1 DEF Call
  <2>3. Calls'
    BY <1>1, <2>1, <2>2, CallGoes
  <2>4. QED
    BY <1>2, <2>1, <2>3, FanServes
<1>7. CASE Fan!StartFails(a)
  <2>1. /\ at[a] = "start" /\ Fan!Fails(a) /\ fc' = fc
        /\ faults < MaxFaults /\ faults' = faults + 1 /\ moves' = moves
    BY <1>7 DEF Fan!StartFails, Fan!device, Fan!Fault
  <2>2. goal[a] \in {"list", "load"}
    BY <1>1, <2>1 DEF Call
  <2>3. faults' \in 0..MaxFaults
    BY <1>2, <2>1, BoundsAssumption
  <2>4. QED
    BY <1>2, <2>1, <2>2, <2>3, FailsKeeps
<1>8. CASE Fan!NoAnswer(a)
  <2>1. /\ at[a] = "sent" /\ fc' = fc
        /\ faults < MaxFaults /\ faults' = faults + 1 /\ moves' = moves
        /\ \/ Fan!Fails(a)
           \/ /\ reply' = [reply EXCEPT ![a] = Fan!Lost] /\ UNCHANGED Fan!setup
              /\ goal' = goal /\ at' = at /\ profile' = profile /\ fanAvail' = fanAvail
    BY <1>8 DEF Fan!NoAnswer, Fan!device, Fan!Fault
  <2>2. faults' \in 0..MaxFaults
    BY <1>2, <2>1, BoundsAssumption
  <2>3. CASE Fan!Fails(a)
    <3>1. goal[a] \in {"list", "load", "ask"}
      BY <1>1, <2>1 DEF Call
    <3>2. QED
      BY <1>2, <2>1, <2>2, <2>3, <3>1, FailsKeeps
  <2>4. CASE /\ reply' = [reply EXCEPT ![a] = Fan!Lost] /\ UNCHANGED Fan!setup
             /\ goal' = goal /\ at' = at /\ profile' = profile /\ fanAvail' = fanAvail
    <3>1. DOMAIN reply' = Fan!Actors
      BY <1>1, <2>4 DEF Calls
    <3>2. Calls'
      BY <1>1, <2>4, <3>1, CallReplied
    <3>3. QED
      BY <1>2, <2>1, <2>2, <2>4, <3>2, FanServes
  <2>5. QED
    BY <2>1, <2>3, <2>4
<1>9. CASE Fan!Deadline(a)
  <2>1. /\ goal[a] \in {"load", "ask"} /\ Fan!Fails(a) /\ fc' = fc
        /\ faults' = faults /\ moves' = moves
    BY <1>9 DEF Fan!Deadline, Fan!device
  <2>2. QED
    BY <1>2, <2>1, FailsKeeps
<1>10. QED
  BY <1>3, <1>4, <1>5, <1>6, <1>7, <1>8, <1>9

\* FanControl answers, its pipe comes and goes, and its user loads a config; a read
\* may take the answer to another call.
LEMMA AnswersKeep ==
  ASSUME FanInv,
         \/ \E a \in Fan!Actors : \/ Fan!Serve(a)
                                  \/ \E b \in Fan!Actors : Fan!HandleReused(a, b)
         \/ Fan!PipeAppears \/ Fan!FanControlEnds \/ Fan!UserLoads
  PROVE  FanInv'
<1>1. Calls
  BY DEF FanInv
<1>2. /\ fc \in {"stopped", "up", "served"} /\ fanAvail \in {"none", "online", "unavailable"}
      /\ faults \in 0..MaxFaults /\ moves \in 0..MaxMoves
  BY FanTyped
<1>3. /\ UNCHANGED Fan!setup /\ goal' = goal /\ at' = at /\ profile' = profile
      /\ fanAvail' = fanAvail
  BY DEF Fan!Serve, Fan!HandleReused, Fan!PipeAppears, Fan!FanControlEnds, Fan!UserLoads,
         Fan!device, Fan!calls
<1>4. fc' \in {"stopped", "up", "served"}
  BY <1>2 DEF Fan!Serve, Fan!HandleReused, Fan!PipeAppears, Fan!FanControlEnds, Fan!UserLoads,
              Fan!device
<1>5. faults' \in 0..MaxFaults /\ moves' \in 0..MaxMoves
  BY <1>2, BoundsAssumption
     DEF Fan!Serve, Fan!HandleReused, Fan!PipeAppears, Fan!FanControlEnds, Fan!UserLoads, Fan!Fault
<1>6. DOMAIN reply' = Fan!Actors
  <2>1. CASE \E a \in Fan!Actors : Fan!Serve(a)
    BY <1>1, <2>1 DEF Fan!Serve, Calls
  <2>2. CASE \E a, b \in Fan!Actors : Fan!HandleReused(a, b)
    BY <1>1, <2>2 DEF Fan!HandleReused, Calls
  <2>3. CASE Fan!FanControlEnds
    BY <2>3 DEF Fan!FanControlEnds
  <2>4. CASE Fan!PipeAppears \/ Fan!UserLoads
    BY <1>1, <2>4 DEF Fan!PipeAppears, Fan!UserLoads, Fan!calls, Calls
  <2>5. QED
    BY <2>1, <2>2, <2>3, <2>4
<1>7. Calls'
  BY <1>1, <1>3, <1>6, CallReplied
<1>8. QED
  BY <1>2, <1>3, <1>4, <1>5, <1>7, FanServes

\* What a call brings is used.
LEMMA RepliesKeep ==
  ASSUME FanInv,
         \/ Fan!ListReply \/ Fan!LoadReply
         \/ \E a \in Fan!Actors : Fan!AskReply(a) \/ Fan!Publish(a)
  PROVE  FanInv'
<1>1. Calls
  BY DEF FanInv
<1>2. /\ fc \in {"stopped", "up", "served"} /\ fanAvail \in {"none", "online", "unavailable"}
      /\ faults \in 0..MaxFaults /\ moves \in 0..MaxMoves
  BY FanTyped
<1>3. /\ fc' = fc /\ faults' = faults /\ moves' = moves
  BY DEF Fan!ListReply, Fan!LoadReply, Fan!AskReply, Fan!Publish, Fan!device
<1>4. CASE Fan!ListReply
  <2>1. PICK ps \in Fan!MergeDiscovered(Fan!Normalized(install.configured), install.listed) :
          goal["poll"] = "list" /\ Fan!Resolved(ps)
    BY <1>4 DEF Fan!ListReply
  <2>2. Call("poll")
    BY <1>1 DEF Calls, Fan!Actors
  <2>3. install \in Installs
    BY <2>1, <2>2 DEF Call, FanInv
  <2>4. MergedProfiles(install, ps, OptionsOf(ps))
    BY <2>3, StartResolves
  <2>5. QED
    BY <1>2, <1>3, <2>1, <2>4, ResolvedKeeps
<1>5. CASE Fan!LoadReply
  <2>1. /\ goal["cmd"] = "load"
        /\ \/ Fan!Fails("cmd")
           \/ /\ Fan!To("cmd", "ask", profile["cmd"]) /\ fanAvail' = "online"
              /\ UNCHANGED Fan!setup
    BY <1>5 DEF Fan!LoadReply
  <2>2. "cmd" \in Fan!Actors /\ Call("cmd")
    BY <1>1 DEF Calls, Fan!Actors
  <2>3. CASE Fan!Fails("cmd")
    BY <1>2, <1>3, <2>1, <2>2, <2>3, FailsKeeps
  <2>4. CASE /\ Fan!To("cmd", "ask", profile["cmd"]) /\ fanAvail' = "online"
             /\ UNCHANGED Fan!setup
    <3>1. /\ fanPhase = "running" /\ profile["cmd"] # <<>>
          /\ profile["cmd"] \in (DOMAIN profiles) \cup {<<>>}
      BY <2>1, <2>2 DEF Call
    <3>2. profiles' = profiles /\ fanPhase' = fanPhase
      BY <2>4 DEF Fan!setup
    <3>3. Calls'
      BY <1>1, <2>2, <2>4, <3>1, <3>2, CallTaken
    <3>4. QED
      BY <1>2, <1>3, <2>4, <3>3, FanServes
  <2>5. QED
    BY <2>1, <2>3, <2>4
<1>6. CASE \E a \in Fan!Actors : Fan!AskReply(a)
  <2>1. PICK a \in Fan!Actors : Fan!AskReply(a)
    BY <1>6
  <2>2. PICK ks \in {Fan!ByHash, Fan!ByCurrent(reply[a].current)} : Fan!Known(a, ks)
    BY <2>1, Zenon DEF Fan!AskReply
  <2>3. goal[a] = "ask"
    BY <2>1 DEF Fan!AskReply
  <2>4. ks \subseteq DOMAIN profiles
    BY <2>2 DEF Fan!ByHash, Fan!ByCurrent, Fan!KeysOf
  <2>5. QED
    BY <1>2, <1>3, <2>2, <2>3, <2>4, KnownKeeps
<1>7. CASE \E a \in Fan!Actors : Fan!Publish(a)
  <2>1. PICK a \in Fan!Actors : Fan!Publish(a)
    BY <1>7
  <2>2. /\ goal[a] = "publish" /\ Fan!To(a, "none", <<>>) /\ UNCHANGED Fan!setup
        /\ fanAvail' = fanAvail /\ Call(a)
    BY <1>1, <2>1 DEF Fan!Publish, Calls
  <2>3. profiles' = profiles /\ fanPhase' = fanPhase /\ fanPhase = "running"
    BY <2>2 DEF Fan!setup, Call
  <2>4. Calls'
    BY <1>1, <2>2, <2>3, CallTaken
  <2>5. QED
    BY <1>2, <1>3, <2>2, <2>4, FanServes
<1>8. QED
  BY <1>4, <1>5, <1>6, <1>7

\* The entity is registered; then the state is asked for, and commands come.
LEMMA RefreshesKeep ==
  ASSUME FanInv,
         \/ Fan!RegisterAndSubscribe \/ Fan!Tick
         \/ \E input : Fan!Command(input)
  PROVE  FanInv'
<1>1. Calls /\ Call("poll") /\ Call("cmd")
  BY DEF FanInv, Calls, Fan!Actors
<1>2. /\ fc \in {"stopped", "up", "served"} /\ fanAvail \in {"none", "online", "unavailable"}
      /\ faults \in 0..MaxFaults /\ moves \in 0..MaxMoves
  BY FanTyped
<1>3. /\ fc' = fc /\ faults' = faults /\ install' = install /\ profiles' = profiles
      /\ fanOptions' = fanOptions
  BY DEF Fan!RegisterAndSubscribe, Fan!Tick, Fan!Command, Fan!device, Fan!setup
<1>4. CASE Fan!RegisterAndSubscribe
  <2>1. /\ fanPhase = "registering" /\ moves' = moves
        /\ \/ /\ fanPhase' = "running" /\ fanAvail' = "online" /\ ValidSelect(fanOptions)
              /\ Fan!To("poll", "ask", <<>>)
           \/ fanPhase' = "failed" /\ UNCHANGED Fan!calls /\ fanAvail' = fanAvail
    BY <1>4, FanEntity DEF Fan!RegisterAndSubscribe
  <2>2. /\ goal["poll"] = "none" /\ goal["cmd"] = "none" /\ profile["cmd"] = <<>>
        /\ at["cmd"] = "open"
    BY <1>1, <2>1 DEF Call
  <2>3. Calls'
    <3>1. CASE fanPhase' = "failed" /\ UNCHANGED Fan!calls
      <4>1. goal' = goal /\ at' = at /\ reply' = reply /\ profile' = profile
        BY <3>1 DEF Fan!calls
      <4>2. QED
        BY <1>1, <1>3, <2>1, <2>2, <3>1, <4>1 DEF Calls, Call, Fan!Actors
    <3>2. CASE fanPhase' = "running" /\ Fan!To("poll", "ask", <<>>)
      <4>1. /\ goal' = [goal EXCEPT !["poll"] = "ask"] /\ at' = [at EXCEPT !["poll"] = "open"]
            /\ reply' = [reply EXCEPT !["poll"] = Fan!None]
            /\ profile' = [profile EXCEPT !["poll"] = <<>>]
        BY <3>2 DEF Fan!To
      <4>2. /\ DOMAIN goal' = Fan!Actors /\ DOMAIN at' = Fan!Actors
            /\ DOMAIN reply' = Fan!Actors /\ DOMAIN profile' = Fan!Actors
            /\ goal'["poll"] = "ask" /\ at'["poll"] = "open" /\ profile'["poll"] = <<>>
            /\ goal'["cmd"] = "none" /\ at'["cmd"] = "open" /\ profile'["cmd"] = <<>>
        BY <1>1, <2>2, <4>1 DEF Calls, Fan!Actors
      <4>3. QED
        BY <1>3, <3>2, <4>2 DEF Calls, Call, Fan!Actors
    <3>3. QED
      BY <2>1, <3>1, <3>2
  <2>4. Fan!FanTypeOK'
    BY <1>2, <1>3, <2>1, <2>3, CallsTyped
  <2>5. MergedProfiles(install, profiles, fanOptions)'
    <3>1. MergedProfiles(install, profiles, fanOptions)
      BY <2>1 DEF FanInv
    <3>2. QED
      BY <1>3, <3>1 DEF MergedProfiles, Profiles, KeyMap, Named, Kept, Loads
  <2>6. fanPhase' = "running" => ValidSelect(fanOptions')
    BY <1>3, <2>1
  <2>7. fanPhase' # "starting"
    BY <2>1
  <2>8. QED
    BY <2>3, <2>4, <2>5, <2>6, <2>7 DEF FanInv
<1>5. CASE Fan!Tick
  <2>1. /\ fanPhase = "running" /\ Fan!To("poll", "ask", <<>>) /\ UNCHANGED Fan!setup
        /\ fanAvail' = fanAvail /\ moves' = moves /\ fanPhase' = fanPhase
    BY <1>5 DEF Fan!Tick, Fan!setup
  <2>2. Calls'
    BY <1>1, <1>3, <2>1, CallTaken DEF Fan!Actors
  <2>3. QED
    BY <1>2, <1>3, <2>1, <2>2, FanServes
<1>6. CASE \E input : Fan!Command(input)
  <2>1. PICK input :
          /\ fanPhase = "running" /\ moves < MaxMoves /\ moves' = moves + 1
          /\ OptionValue(fanOptions, input) # <<>>
          /\ Fan!To("cmd", "load", OptionValue(fanOptions, input))
          /\ UNCHANGED Fan!setup /\ fanAvail' = fanAvail
    BY <1>6, FanEntity DEF Fan!Command
  <2>2. OptionValue(fanOptions, input) \in (DOMAIN profiles) \cup {<<>>}
    <3>1. MergedProfiles(install, profiles, fanOptions) /\ ValidSelect(fanOptions)
      BY <2>1 DEF FanInv
    <3>2. QED
      BY <3>1, OffersChosen DEF MergedProfiles, Profiles
  <2>3. fanPhase' = fanPhase /\ "cmd" \in Fan!Actors /\ "cmd" # "poll"
    BY <2>1 DEF Fan!setup, Fan!Actors
  <2>4. Calls'
    BY <1>1, <1>3, <2>1, <2>2, <2>3, CallTaken
  <2>5. moves' \in 0..MaxMoves
    BY <1>2, <2>1, BoundsAssumption
  <2>6. QED
    BY <1>2, <1>3, <2>1, <2>4, <2>5, FanServes
<1>7. QED
  BY <1>4, <1>5, <1>6

\* Every step of the plugin, of FanControl and of its user keeps the invariant.
LEMMA FanSteps ==
  ASSUME FanInv, Fan!FanNext \/ UNCHANGED fanVars
  PROVE  FanInv'
<1>1. CASE Fan!FanNext
  <2>1. \/ \E a \in Fan!Actors :
             \/ Fan!Open(a) \/ Fan!NoPipe(a) \/ Fan!OpenFails(a)
             \/ Fan!StartFanControl(a) \/ Fan!StartFails(a)
             \/ Fan!NoAnswer(a) \/ Fan!Deadline(a)
        \/ \E a \in Fan!Actors : \/ Fan!Serve(a)
                                 \/ \E b \in Fan!Actors : Fan!HandleReused(a, b)
        \/ Fan!PipeAppears \/ Fan!FanControlEnds \/ Fan!UserLoads
        \/ Fan!ListReply \/ Fan!LoadReply
        \/ \E a \in Fan!Actors : Fan!AskReply(a) \/ Fan!Publish(a)
        \/ Fan!RegisterAndSubscribe \/ Fan!Tick
        \/ \E input : Fan!Command(input)
    BY <1>1 DEF Fan!FanNext, Fan!Steps
  <2>2. QED
    BY <2>1, CallKeeps, AnswersKeep, RepliesKeep, RefreshesKeep
<1>2. CASE UNCHANGED fanVars
  <2>1. /\ UNCHANGED Fan!setup /\ goal' = goal /\ at' = at /\ reply' = reply /\ profile' = profile
        /\ fc' = fc /\ fanAvail' = fanAvail /\ faults' = faults /\ moves' = moves
    BY <1>2 DEF fanVars, Fan!setup
  <2>2. Calls /\ DOMAIN reply' = Fan!Actors
    BY <2>1 DEF FanInv, Calls
  <2>3. Calls'
    BY <2>1, <2>2, CallReplied
  <2>4. QED
    BY <2>1, <2>3, FanTyped, FanServes
<1>3. QED
  BY <1>1, <1>2
-----------------------------------------------------------------------------
(* Catalog *)

IsSeq(s) == \E S : s \in Seq(S)

\* How much of what the plugin being started registers is behind it.
Done == Len(Registers(Order[place])) - Len(todo)

\* Nothing is started before validation, or after a failure; the start is at a plugin
\* that is switched on, and ends when there is no other.
PhaseInv ==
  /\ catPhase \in {"next", "starting", "running"} => Valid
  /\ catPhase \in {"read", "rejected", "failed", "off"} => registry = <<>>
  /\ catPhase # "failed" => refused = ""
  /\ catPhase \in {"read", "rejected"} => place = 0
  /\ catPhase = "starting" => place \in DOMAIN Order /\ PluginEnabled(Order[place])
  /\ catPhase = "running" => Ahead = {}

\* What is still to be registered is the end of the plugin's list.
TodoInv ==
  catPhase = "starting" =>
    /\ Done >= 0
    /\ \A n \in DOMAIN todo : todo[n] = Registers(Order[place])[Done + n]

\* What is registered is of a plugin the start has come to and one of its entities, and
\* of the one it is at only entities that are behind it.
OwnInv ==
  \A e \in DOMAIN registry :
    /\ registry[e] \in EnabledIDs /\ e \in Range(Registers(registry[e]))
    /\ \E i \in 1..place : registry[e] = Order[i]
    /\ catPhase = "starting" /\ registry[e] = Order[place] =>
         \E n \in 1..Done : e = Registers(Order[place])[n]

\* Each entity of the plugins the start has left behind is there or was left out.
There(id, e) ==
  \/ e \in DOMAIN registry /\ registry[e] = id
  \/ id = "runner" /\ e \in sections[id].optional
ThereInv ==
  catPhase \in {"next", "starting", "running"} =>
    \A i \in 1..place : PluginEnabled(Order[i]) =>
      \A n \in DOMAIN EntityIDs(Order[i]) :
        (catPhase = "starting" /\ i = place => n <= Done) =>
          There(Order[i], EntityIDs(Order[i])[n])

\* A refusal is about an entity that somebody registers without declaring it.
RefusedInv ==
  refused # "" =>
    \E id \in EnabledIDs : refused \in Range(Registers(id)) \ Range(EntityIDs(id))

CatalogInv ==
  /\ CatalogTypeOK /\ sections \in Files /\ IsSeq(todo)
  /\ PhaseInv /\ TodoInv /\ OwnInv /\ ThereInv /\ RefusedInv
-----------------------------------------------------------------------------
\* The start comes to every built-in plugin, and to each once.
LEMMA OrderFacts ==
  /\ Len(Order) = 11 /\ DOMAIN Order = 1..11
  /\ \A i \in DOMAIN Order : Order[i] \in DOMAIN Builtin
  /\ \A i, j \in DOMAIN Order : Order[i] = Order[j] => i = j
  /\ \A id \in DOMAIN Builtin : \E i \in DOMAIN Order : Order[i] = id
<1>1. DOMAIN Builtin = {"display_darwin", "display_kscreen", "display_windows",
        "fancontrol_windows", "inhibit_freedesktop", "powerplan_windows", "powerprofile_ppd",
        "runner", "session_darwin", "session_loginctl", "session_windows"}
  BY DEF Builtin
<1>2. Order \in Seq(DOMAIN Builtin) /\ Len(Order) = 11
  BY <1>1 DEF Order
<1>3. DOMAIN Order = 1..11
  BY <1>2
<1>4. /\ Order[1] = "display_darwin" /\ Order[2] = "display_kscreen"
      /\ Order[3] = "display_windows" /\ Order[4] = "fancontrol_windows"
      /\ Order[5] = "inhibit_freedesktop" /\ Order[6] = "powerplan_windows"
      /\ Order[7] = "powerprofile_ppd" /\ Order[8] = "runner" /\ Order[9] = "session_darwin"
      /\ Order[10] = "session_loginctl" /\ Order[11] = "session_windows"
  BY DEF Order
<1>5. \A i \in 1..11 : i \in {1, 2, 3, 4, 5, 6, 7, 8, 9, 10, 11}
  OBVIOUS
<1>6. \A i, j \in DOMAIN Order : Order[i] = Order[j] => i = j
  BY <1>3, <1>4, <1>5
<1>7. \A id \in DOMAIN Builtin : \E i \in DOMAIN Order : Order[i] = id
  BY <1>1, <1>3, <1>4
<1>8. \A i \in DOMAIN Order : Order[i] \in DOMAIN Builtin
  BY <1>1, <1>3, <1>4, <1>5
<1> QED
  BY <1>2, <1>3, <1>6, <1>7, <1>8

\* Whatever a plugin declares it registers, at the same place of its list, and no
\* plugin but the runner could name an entity twice.
Single(s) == \A m, n \in 1..Len(s) : s[m] = s[n] => m = n
Declares(declared, registers) ==
  /\ IsSeq(declared) /\ IsSeq(registers)
  /\ Len(declared) <= Len(registers)
  /\ \A n \in 1..Len(declared) : registers[n] = declared[n]
  /\ Single(registers)

\* Every built-in plugin registers what its section declares, first and once.
LEMMA BuiltinFacts ==
  \A id \in DOMAIN Builtin : Declares(Builtin[id].declared, Builtin[id].registers)
<1>0. ASSUME NEW S, NEW d \in Seq(S), NEW e \in Seq(S), Single(d), Single(e),
             \A m \in 1..Len(d), n \in 1..Len(e) : d[m] # e[n]
      PROVE  Declares(d, d \o e)
  <2>1. d \o e \in Seq(S) /\ Len(d \o e) = Len(d) + Len(e)
    OBVIOUS
  <2>2. \A n \in 1..Len(d) : (d \o e)[n] = d[n]
    OBVIOUS
  <2>3. \A n \in 1..(Len(d) + Len(e)) : n > Len(d) => (d \o e)[n] = e[n - Len(d)]
    OBVIOUS
  <2>4. ASSUME NEW m \in 1..(Len(d) + Len(e)), NEW n \in 1..(Len(d) + Len(e)),
               (d \o e)[m] = (d \o e)[n]
        PROVE  m = n
    <3>1. CASE m <= Len(d) /\ n <= Len(d)
      BY <1>0, <2>2, <2>4, <3>1 DEF Single
    <3>2. CASE m > Len(d) /\ n > Len(d)
      <4>1. m - Len(d) \in 1..Len(e) /\ n - Len(d) \in 1..Len(e)
        BY <3>2
      <4> QED
        BY <1>0, <2>3, <2>4, <3>2, <4>1 DEF Single
    <3>3. CASE m <= Len(d) /\ n > Len(d)
      <4>1. m \in 1..Len(d) /\ n - Len(d) \in 1..Len(e)
        BY <3>3
      <4> QED
        BY <1>0, <2>2, <2>3, <2>4, <3>3, <4>1
    <3>4. CASE m > Len(d) /\ n <= Len(d)
      <4>1. n \in 1..Len(d) /\ m - Len(d) \in 1..Len(e)
        BY <3>4
      <4> QED
        BY <1>0, <2>2, <2>3, <2>4, <3>4, <4>1
    <3> QED
      BY <3>1, <3>2, <3>3, <3>4
  <2> QED
    BY <2>1, <2>2, <2>4 DEF Declares, Single, IsSeq
<1>1. ASSUME NEW d PROVE Declares(<<d>>, <<d>> \o <<>>)
  <2>1. <<d>> \in Seq({d}) /\ <<>> \in Seq({d})
    OBVIOUS
  <2>2. Single(<<d>>) /\ Single(<<>>)
    BY DEF Single
  <2>3. \A m \in 1..Len(<<d>>), n \in 1..Len(<<>>) : <<d>>[m] # <<>>[n]
    OBVIOUS
  <2> QED
    BY <1>0, <2>1, <2>2, <2>3, Zenon
<1>2. Declares(<<>>, <<>> \o <<>>)
  <2>1. <<>> \in Seq({})
    OBVIOUS
  <2>2. Single(<<>>)
    BY DEF Single
  <2>3. \A m \in 1..Len(<<>>), n \in 1..Len(<<>>) : <<>>[m] # <<>>[n]
    OBVIOUS
  <2> QED
    BY <1>0, <2>1, <2>2, <2>3, Zenon
<1>3. \A n \in 1..2 : n = 1 \/ n = 2
  OBVIOUS
<1>4. ASSUME NEW d, NEW e, d # e PROVE Declares(<<d, e>>, <<d, e>> \o <<>>)
  <2>1. <<d, e>> \in Seq({d, e}) /\ <<>> \in Seq({d, e})
    OBVIOUS
  <2>2. Single(<<d, e>>) /\ Single(<<>>)
    BY <1>3, <1>4 DEF Single
  <2>3. \A m \in 1..Len(<<d, e>>), n \in 1..Len(<<>>) : <<d, e>>[m] # <<>>[n]
    OBVIOUS
  <2> QED
    BY <1>0, <2>1, <2>2, <2>3, Zenon
<1>5. ASSUME NEW d, NEW e, NEW f, d # e, d # f, e # f PROVE Declares(<<d, e>>, <<d, e>> \o <<f>>)
  <2>1. <<d, e>> \in Seq({d, e, f}) /\ <<f>> \in Seq({d, e, f})
    OBVIOUS
  <2>2. Single(<<d, e>>) /\ Single(<<f>>)
    BY <1>3, <1>5 DEF Single
  <2>3. \A m \in 1..Len(<<d, e>>), n \in 1..Len(<<f>>) : <<d, e>>[m] # <<f>>[n]
    BY <1>3, <1>5
  <2> QED
    BY <1>0, <2>1, <2>2, <2>3, Zenon
<1>6. ASSUME NEW d, NEW e, NEW f, d # e, d # f, e # f
      PROVE  Declares(Append(<<d, e>>, f), Append(<<d, e>>, f) \o <<>>)
  <2>1. Append(<<d, e>>, f) \in Seq({d, e, f}) /\ <<>> \in Seq({d, e, f})
    OBVIOUS
  <2>2. /\ Len(Append(<<d, e>>, f)) = 3 /\ Append(<<d, e>>, f)[1] = d
        /\ Append(<<d, e>>, f)[2] = e /\ Append(<<d, e>>, f)[3] = f
    OBVIOUS
  <2>3. \A n \in 1..3 : n = 1 \/ n = 2 \/ n = 3
    OBVIOUS
  <2>4. Single(Append(<<d, e>>, f)) /\ Single(<<>>)
    BY <1>6, <2>2, <2>3 DEF Single
  <2>5. \A m \in 1..Len(Append(<<d, e>>, f)), n \in 1..Len(<<>>) :
          Append(<<d, e>>, f)[m] # <<>>[n]
    OBVIOUS
  <2> QED
    BY <1>0, <2>1, <2>4, <2>5, Zenon
<1>9. /\ Declares(Session, Session \o <<"session.locked">>)
      /\ Declares(Append(Session, "session.locked"), Append(Session, "session.locked") \o <<>>)
  <2>1. /\ "session.lock" # "session.sleep" /\ "session.lock" # "session.locked"
        /\ "session.sleep" # "session.locked"
    OBVIOUS
  <2> QED
    BY <1>5, <1>6, <2>1, Zenon DEF Session
<1>7. \A systems, declared, more :
        Declares(declared, declared \o more) =>
          Declares(Plugin(systems, declared, more).declared, Plugin(systems, declared, more).registers)
  BY DEF Plugin
<1>8. ASSUME NEW id \in DOMAIN Builtin
      PROVE  Declares(Builtin[id].declared, Builtin[id].registers)
  <2>1. CASE id \in {"display_darwin", "display_kscreen", "display_windows"}
    <3>1. \E systems : Builtin[id] = Plugin(systems, <<"display.off">>, <<>>)
      BY <2>1 DEF Builtin
    <3> QED
      BY <1>1, <1>7, <3>1, Zenon
  <2>2. CASE id \in {"fancontrol_windows", "powerplan_windows", "powerprofile_ppd"}
    <3>1. \/ Builtin[id] = Plugin({"windows"}, <<"fancontrol.profile">>, <<>>)
          \/ Builtin[id] = Plugin({"windows"}, <<"powerplan.mode">>, <<>>)
          \/ Builtin[id] = Plugin({"linux"}, <<"powerprofile.profile">>, <<>>)
      BY <2>2 DEF Builtin
    <3> QED
      BY <1>1, <1>7, <3>1, Zenon
  <2>3. CASE id = "inhibit_freedesktop"
    <3>1. Builtin[id] =
            Plugin({"linux"}, <<"session.lock_inhibited", "display.dim_inhibited">>, <<>>)
      BY <2>3 DEF Builtin
    <3>2. "session.lock_inhibited" # "display.dim_inhibited"
      OBVIOUS
    <3> QED
      BY <1>4, <1>7, <3>1, <3>2, Zenon
  <2>4. CASE id = "runner"
    <3>1. \E systems : Builtin[id] = Plugin(systems, <<>>, <<>>)
      BY <2>4 DEF Builtin
    <3> QED
      BY <1>2, <1>7, <3>1, Zenon
  <2>5. CASE id = "session_darwin"
    <3>1. Builtin[id] = Plugin({"darwin"}, Append(Session, "session.locked"), <<>>)
      BY <2>5 DEF Builtin
    <3> QED
      BY <1>9, <1>7, <3>1, Zenon
  <2>6. CASE id \in {"session_loginctl", "session_windows"}
    <3>1. \E systems : Builtin[id] = Plugin(systems, Session, <<"session.locked">>)
      BY <2>6 DEF Builtin
    <3> QED
      BY <1>9, <1>7, <3>1, Zenon
  <2> QED
    BY <2>1, <2>2, <2>3, <2>4, <2>5, <2>6 DEF Builtin
<1> QED
  BY <1>8
-----------------------------------------------------------------------------
\* What a plugin of a valid file declares begins the list of what it registers, and it
\* registers nothing twice.
LEMMA Listed ==
  ASSUME sections \in Files, Valid, NEW id \in EnabledIDs
  PROVE  Declares(EntityIDs(id), Registers(id))
<1>1. CASE id # "runner"
  BY <1>1, BuiltinFacts DEF EnabledIDs, EntityIDs, Registers
<1>2. CASE id = "runner"
  <2>1. "runner" \in DOMAIN sections
    BY <1>2 DEF EnabledIDs, PluginEnabled
  <2>2. sections["runner"].entities \in Seq(STRING)
    BY <2>1, FilesAssumption
  <2>3. EntityIDs(id) = sections["runner"].entities /\ Registers(id) = EntityIDs(id)
    BY <1>2 DEF EntityIDs, Registers
  <2>4. IsSeq(EntityIDs(id))
    BY <2>2, <2>3, Zenon DEF IsSeq
  <2>5. DOMAIN EntityIDs(id) = 1..Len(EntityIDs(id)) /\ Len(EntityIDs(id)) \in Nat
    BY <2>2, <2>3
  <2>6. Single(EntityIDs(id))
    BY <2>5 DEF Valid, Single
  <2> QED
    BY <2>3, <2>4, <2>5, <2>6 DEF Declares
<1> QED
  BY <1>1, <1>2

\* Of two sections that are valid together only one declares an entity.
LEMMA OneProvider ==
  ASSUME Valid, NEW a \in EnabledIDs, NEW b \in EnabledIDs, NEW e,
         e \in Range(EntityIDs(a)), e \in Range(EntityIDs(b))
  PROVE  a = b
BY DEF Valid, Range

\* A plugin of a valid file that is switched on is supported.
LEMMA Supported ==
  ASSUME Valid, NEW id \in EnabledIDs
  PROVE  PluginEnabled(id) /\ SupportedOn(id)
BY DEF Valid, ValidSection, EnabledIDs, PluginEnabled

\* No step changes the file.
LEMMA FileKept ==
  ASSUME [CatalogNext]_catalogVars
  PROVE  /\ sections' = sections /\ goos' = goos
         /\ Valid' = Valid /\ EnabledIDs' = EnabledIDs
         /\ \A id : /\ PluginEnabled(id)' = PluginEnabled(id)
                    /\ EntityIDs(id)' = EntityIDs(id) /\ Registers(id)' = Registers(id)
<1>1. sections' = sections /\ goos' = goos
  BY DEF CatalogNext, catalogVars, Validate, StartNext, Register, Refuse, LeaveOut, StartFails,
         Started, Fail
<1>2. \A id : /\ PluginEnabled(id)' = PluginEnabled(id)
              /\ EntityIDs(id)' = EntityIDs(id) /\ Registers(id)' = Registers(id)
  BY <1>1 DEF PluginEnabled, EntityIDs, Registers
<1>3. EnabledIDs' = EnabledIDs
  BY <1>2 DEF EnabledIDs
<1>4. Valid' = Valid
  <2>1. \A id : ValidSection(id)' = ValidSection(id)
    BY <1>1, <1>2 DEF ValidSection, New, SupportedOn
  <2> QED
    BY <1>1, <1>2, <1>3, <2>1 DEF Valid
<1> QED
  BY <1>1, <1>2, <1>3, <1>4

-----------------------------------------------------------------------------
\* The invariant of the catalog holds of every file ...
LEMMA InitCatalog == CatalogInit => CatalogInv
<1> SUFFICES ASSUME CatalogInit PROVE CatalogInv
  OBVIOUS
<1>1. /\ registry = <<>> /\ place = 0 /\ catPhase = "read" /\ refused = "" /\ todo = <<>>
      /\ sections \in Files
  BY Zenon DEF CatalogInit
<1>2. DOMAIN registry = {}
  <2>1. DOMAIN <<>> = {}
    OBVIOUS
  <2> QED
    BY <1>1, <2>1, Zenon
<1>3. CatalogTypeOK /\ sections \in Files /\ IsSeq(todo)
  <2>1. <<>> \in Seq({})
    OBVIOUS
  <2>2. IsSeq(todo)
    BY <1>1, <2>1, Zenon DEF IsSeq
  <2>3. place \in 0..Len(Order)
    <3>1. Len(Order) = 11 /\ 0 \in 0..11
      BY OrderFacts
    <3> QED
      BY <1>1, <3>1, Zenon
  <2> QED
    BY <1>1, <1>2, <2>2, <2>3 DEF CatalogTypeOK
<1>4. PhaseInv /\ TodoInv /\ OwnInv /\ ThereInv /\ RefusedInv
  BY <1>1, <1>2 DEF PhaseInv, TodoInv, OwnInv, ThereInv, RefusedInv
<1> QED
  BY <1>3, <1>4 DEF CatalogInv

\* What is about to be registered.
LEMMA ToRegister ==
  ASSUME CatalogInv, catPhase = "starting"
  PROVE  /\ Order[place] \in EnabledIDs /\ place \in 1..11
         /\ Declares(EntityIDs(Order[place]), Registers(Order[place]))
         /\ Done \in 0..Len(Registers(Order[place]))
         /\ todo = <<>> => Done = Len(Registers(Order[place]))
         /\ todo # <<>> =>
              /\ Done + 1 \in 1..Len(Registers(Order[place]))
              /\ Head(todo) = Registers(Order[place])[Done + 1]
              /\ IsSeq(Tail(todo)) /\ Len(Tail(todo)) = Len(todo) - 1
              /\ \A n \in DOMAIN Tail(todo) :
                   Tail(todo)[n] = Registers(Order[place])[Done + 1 + n]
<1>1. Order[place] \in EnabledIDs /\ place \in 1..11
  <2>1. place \in DOMAIN Order /\ PluginEnabled(Order[place])
    BY DEF CatalogInv, PhaseInv
  <2>2. Order[place] \in DOMAIN Builtin
    BY <2>1, OrderFacts
  <2> QED
    BY <2>1, <2>2, OrderFacts DEF EnabledIDs
<1>2. Declares(EntityIDs(Order[place]), Registers(Order[place]))
  BY <1>1, Listed DEF CatalogInv, PhaseInv
<1>3. PICK S : todo \in Seq(S)
  BY DEF CatalogInv, IsSeq
<1>4. PICK T : Registers(Order[place]) \in Seq(T)
  BY <1>2 DEF Declares, IsSeq
<1>5. Done \in 0..Len(Registers(Order[place])) /\ Len(todo) \in Nat
  BY <1>3, <1>4 DEF Done, CatalogInv, TodoInv
<1>6. ASSUME todo = <<>> PROVE Done = Len(Registers(Order[place]))
  BY <1>4, <1>6 DEF Done
<1>7. ASSUME todo # <<>>
      PROVE  /\ Done + 1 \in 1..Len(Registers(Order[place]))
             /\ Head(todo) = Registers(Order[place])[Done + 1]
             /\ IsSeq(Tail(todo)) /\ Len(Tail(todo)) = Len(todo) - 1
             /\ \A n \in DOMAIN Tail(todo) :
                  Tail(todo)[n] = Registers(Order[place])[Done + 1 + n]
  <2>1. /\ Tail(todo) \in Seq(S) /\ Len(Tail(todo)) = Len(todo) - 1 /\ Len(todo) >= 1
        /\ Head(todo) = todo[1] /\ 1 \in DOMAIN todo
    BY <1>3, <1>7
  <2>2. \A n \in DOMAIN Tail(todo) : n + 1 \in DOMAIN todo /\ Tail(todo)[n] = todo[n + 1]
    BY <1>3, <1>7
  <2>3. \A n \in DOMAIN todo : todo[n] = Registers(Order[place])[Done + n]
    BY DEF CatalogInv, TodoInv
  <2>4. Head(todo) = Registers(Order[place])[Done + 1]
    BY <2>1, <2>3
  <2>5. ASSUME NEW n \in DOMAIN Tail(todo)
        PROVE  Tail(todo)[n] = Registers(Order[place])[Done + 1 + n]
    <3>1. n \in Nat /\ Done \in Int /\ Done + (n + 1) = Done + 1 + n
      BY <1>5, <2>1
    <3> QED
      BY <2>2, <2>3, <3>1
  <2>6. Done + 1 \in 1..Len(Registers(Order[place]))
    BY <1>4, <1>5, <2>1 DEF Done
  <2> QED
    BY <2>1, <2>4, <2>5, <2>6, Zenon DEF IsSeq
<1> QED
  BY <1>1, <1>2, <1>5, <1>6, <1>7

\* ... and validation, each start and each registration keep it.
LEMMA StepCatalog == CatalogInv /\ [CatalogNext]_catalogVars => CatalogInv'
<1> SUFFICES ASSUME CatalogInv, [CatalogNext]_catalogVars PROVE CatalogInv'
  OBVIOUS
<1> USE FileKept DEF CatalogInv
<1> DEFINE R == Registers(Order[place])
<1>1. CASE Validate
  <2>1. registry = <<>> /\ refused = "" /\ place = 0
    BY <1>1 DEF Validate, PhaseInv
  <2>2. DOMAIN registry = {}
    <3>1. DOMAIN <<>> = {}
      OBVIOUS
    <3> QED
      BY <2>1, <3>1, Zenon
  <2>3. /\ place' = place /\ registry' = registry /\ refused' = refused /\ todo' = todo
        /\ catPhase' \in {"next", "rejected"} /\ (catPhase' = "next" => Valid)
    BY <1>1 DEF Validate
  <2>4. CatalogTypeOK'
    BY <2>3 DEF CatalogTypeOK
  <2>5. PhaseInv'
    BY <2>1, <2>3 DEF PhaseInv
  <2>6. TodoInv' /\ OwnInv' /\ RefusedInv'
    BY <2>1, <2>2, <2>3 DEF TodoInv, OwnInv, RefusedInv
  <2>7. ThereInv'
    <3>1. place' = 0
      BY <2>1, <2>3, Zenon
    <3>2. \A i : i \notin 1..0
      OBVIOUS
    <3> QED
      BY <3>1, <3>2, Zenon DEF ThereInv
  <2> QED
    BY <2>3, <2>4, <2>5, <2>6, <2>7
<1>2. CASE StartNext
  <2>1. /\ registry' = registry /\ refused' = refused /\ catPhase = "next"
        /\ Valid /\ refused = ""
    BY <1>2 DEF StartNext, PhaseInv
  <2>2. CASE Ahead = {} /\ catPhase' = "running" /\ UNCHANGED <<place, todo>>
    <3>1. Ahead' = Ahead
      BY <2>2 DEF Ahead
    <3>2. CatalogTypeOK' /\ PhaseInv' /\ TodoInv' /\ RefusedInv' /\ IsSeq(todo)'
      BY <2>1, <2>2, <3>1 DEF CatalogTypeOK, PhaseInv, TodoInv, RefusedInv
    <3>3. OwnInv'
      BY <2>1, <2>2 DEF OwnInv
    <3>4. ThereInv'
      <4>1. \A id, e : There(id, e) => There(id, e)'
        BY <2>1 DEF There
      <4>2. \A i \in 1..place : PluginEnabled(Order[i]) =>
              \A n \in DOMAIN EntityIDs(Order[i]) : There(Order[i], EntityIDs(Order[i])[n])'
        BY <2>1, <4>1 DEF ThereInv
      <4> QED
        BY <2>2, <4>2 DEF ThereInv
    <3> QED
      BY <3>2, <3>3, <3>4
  <2>3. ASSUME NEW i \in Ahead, \A j \in Ahead : i <= j, catPhase' = "starting", place' = i,
               todo' = Registers(Order[i])
        PROVE  CatalogInv'
    <3>1. /\ i \in 1..11 /\ i > place /\ PluginEnabled(Order[i]) /\ place \in 0..11
          /\ Order[i] \in EnabledIDs /\ Len(Order) = 11
      <4>1. i \in DOMAIN Order /\ i > place /\ PluginEnabled(Order[i]) /\ place \in 0..Len(Order)
        BY DEF Ahead, CatalogTypeOK
      <4>2. Order[i] \in DOMAIN Builtin
        BY <4>1, OrderFacts, Zenon
      <4>3. DOMAIN Order = 1..11 /\ Len(Order) = 11
        BY OrderFacts
      <4>4. Order[i] \in EnabledIDs
        BY <4>1, <4>2, Zenon DEF EnabledIDs
      <4> QED
        BY <4>1, <4>3, <4>4, Zenon
    <3>2. Declares(EntityIDs(Order[i]), Registers(Order[i]))
      BY <2>1, <3>1, Listed
    <3>3. PICK S : Registers(Order[i]) \in Seq(S)
      BY <3>2 DEF Declares, IsSeq
    <3>4. Done' = 0
      BY <2>3, <3>3 DEF Done
    <3>5. IsSeq(todo)'
      BY <2>3, <3>2 DEF Declares, IsSeq
    <3>6. TodoInv'
      <4>1. \A n \in DOMAIN Registers(Order[i]) : 0 + n = n
        BY <3>3
      <4> QED
        BY <2>3, <3>4, <4>1 DEF TodoInv
    <3>7. CatalogTypeOK' /\ PhaseInv' /\ RefusedInv'
      <4>1. i \in 0..Len(Order) /\ i \in DOMAIN Order
        BY <3>1, OrderFacts
      <4>2. CatalogTypeOK'
        BY <2>1, <2>3, <4>1 DEF CatalogTypeOK
      <4>3. PhaseInv'
        BY <2>1, <2>3, <3>1, <4>1 DEF PhaseInv
      <4> QED
        BY <2>1, <4>2, <4>3 DEF RefusedInv
    <3>8. OwnInv'
      <4>1. SUFFICES ASSUME NEW e \in DOMAIN registry
                     PROVE  /\ registry[e] \in EnabledIDs /\ e \in Range(Registers(registry[e]))
                            /\ \E j \in 1..i : registry[e] = Order[j]
                            /\ registry[e] # Order[i]
        BY <2>1, <2>3 DEF OwnInv
      <4>2. PICK j \in 1..place : registry[e] = Order[j]
        BY DEF OwnInv
      <4>3. j \in 1..i /\ j # i /\ j \in 1..11
        BY <3>1
      <4>4. Order[j] # Order[i]
        BY <3>1, <4>3, OrderFacts
      <4> QED
        BY <4>2, <4>3, <4>4 DEF OwnInv
    <3>9. ThereInv'
      <4>1. SUFFICES ASSUME NEW j \in 1..i, PluginEnabled(Order[j]),
                            NEW n \in DOMAIN EntityIDs(Order[j]), j = i => n <= 0
                     PROVE  There(Order[j], EntityIDs(Order[j])[n])
        <5>1. \A id, e : There(id, e) => There(id, e)'
          BY <2>1 DEF There
        <5>2. \A j \in 1..i : PluginEnabled(Order[j]) =>
                \A n \in DOMAIN EntityIDs(Order[j]) :
                  (j = i => n <= 0) => There(Order[j], EntityIDs(Order[j])[n])'
          BY <4>1, <5>1
        <5> QED
          BY <2>3, <3>4, <5>2 DEF ThereInv
      <4>2. CASE j = i
        <5>1. n \in 1..Len(EntityIDs(Order[i]))
          <6>1. PICK T : EntityIDs(Order[i]) \in Seq(T)
            BY <3>2 DEF Declares, IsSeq
          <6> QED
            BY <4>2, <6>1
        <5> QED
          BY <4>1, <4>2, <5>1
      <4>3. CASE j # i
        <5>1. j <= place
          BY <2>3, <3>1, <4>1, <4>3, OrderFacts DEF Ahead
        <5>2. j \in 1..place
          BY <3>1, <5>1
        <5> QED
          BY <2>1, <4>1, <5>2 DEF ThereInv
      <4> QED
        BY <4>2, <4>3
    <3> QED
      BY <3>5, <3>6, <3>7, <3>8, <3>9
  <2> QED
    BY <1>2, <2>2, <2>3 DEF StartNext
<1>3. ASSUME catPhase = "starting", todo # <<>>, catPhase' = catPhase, place' = place,
             refused' = refused, todo' = Tail(todo),
             \/ /\ Head(todo) \notin DOMAIN registry
                /\ registry' = [e \in DOMAIN registry \cup {Head(todo)} |->
                                  IF e = Head(todo) THEN Order[place] ELSE registry[e]]
             \/ /\ registry' = registry
                /\ Order[place] = "runner" /\ Head(todo) \in sections["runner"].optional
      PROVE  CatalogInv'
  <2>1. /\ Order[place] \in EnabledIDs /\ place \in 1..11 /\ Declares(EntityIDs(Order[place]), R)
        /\ Done \in 0..Len(R) /\ Done + 1 \in 1..Len(R) /\ Head(todo) = R[Done + 1]
        /\ IsSeq(Tail(todo)) /\ Len(Tail(todo)) = Len(todo) - 1
        /\ \A n \in DOMAIN Tail(todo) : Tail(todo)[n] = R[Done + 1 + n]
    BY <1>3, ToRegister
  <2>2. R' = R
    BY <1>3
  <2>3. Len(R) \in Nat /\ Len(todo) \in Nat /\ DOMAIN R = 1..Len(R)
    BY <2>1 DEF Declares, IsSeq
  <2>4. Done' = Done + 1
    BY <1>3, <2>1, <2>2, <2>3 DEF Done
  <2>5. IsSeq(todo)' /\ TodoInv'
    BY <1>3, <2>1, <2>2, <2>4 DEF TodoInv, IsSeq
  <2>6. /\ DOMAIN registry \subseteq DOMAIN registry'
        /\ \A e \in DOMAIN registry : registry'[e] = registry[e]
        /\ \A e \in DOMAIN registry' \ DOMAIN registry :
             e = R[Done + 1] /\ registry'[e] = Order[place]
    BY <1>3, <2>1
  <2>7. \A id, e : id = Order[place] /\ e = R[Done + 1] => There(id, e)'
    BY <1>3, <2>1 DEF There
  <2>8. CatalogTypeOK'
    BY <1>3, <2>1, <2>6 DEF CatalogTypeOK, EnabledIDs
  <2>9. PhaseInv' /\ RefusedInv'
    BY <1>3 DEF PhaseInv, RefusedInv
  <2>10. OwnInv'
    <3>1. SUFFICES ASSUME NEW e \in DOMAIN registry'
                   PROVE  /\ registry'[e] \in EnabledIDs /\ e \in Range(Registers(registry'[e]))
                          /\ \E i \in 1..place : registry'[e] = Order[i]
                          /\ registry'[e] = Order[place] => \E n \in 1..(Done + 1) : e = R[n]
      BY <1>3, <2>2, <2>4 DEF OwnInv
    <3>2. CASE e \in DOMAIN registry
      <4>1. \A n \in 1..Done : n \in 1..(Done + 1)
        BY <2>1
      <4> QED
        BY <1>3, <2>6, <3>2, <4>1 DEF OwnInv
    <3>3. CASE e \notin DOMAIN registry
      <4>1. e = R[Done + 1] /\ registry'[e] = Order[place] /\ place \in 1..place
        BY <2>1, <2>6, <3>3
      <4>2. Done + 1 \in 1..(Done + 1)
        BY <2>1
      <4>3. e \in Range(R)
        BY <2>1, <2>3, <4>1 DEF Range
      <4> QED
        BY <2>1, <4>1, <4>2, <4>3
    <3> QED
      BY <3>2, <3>3
  <2>11. ThereInv'
    <3>1. SUFFICES ASSUME NEW i \in 1..place, PluginEnabled(Order[i]),
                          NEW n \in DOMAIN EntityIDs(Order[i]), i = place => n <= Done + 1
                   PROVE  \A id, e : id = Order[i] /\ e = EntityIDs(Order[i])[n] => There(id, e)'
      BY <1>3, <2>4 DEF ThereInv
    <3>2. CASE i = place => n <= Done
      <4>1. There(Order[i], EntityIDs(Order[i])[n])
        BY <1>3, <3>1, <3>2 DEF ThereInv
      <4> QED
        BY <1>3, <2>6, <4>1 DEF There
    <3>3. CASE i = place /\ ~(n <= Done)
      <4>1. n \in 1..Len(EntityIDs(Order[place]))
        <5>1. PICK T : EntityIDs(Order[place]) \in Seq(T)
          BY <2>1 DEF Declares, IsSeq
        <5> QED
          BY <3>3, <5>1
      <4>2. n = Done + 1
        BY <2>1, <3>1, <3>3, <4>1
      <4>3. EntityIDs(Order[i])[n] = R[Done + 1] /\ Order[i] = Order[place]
        BY <2>1, <3>3, <4>1, <4>2 DEF Declares
      <4>4. \A id, e : id = Order[i] /\ e = EntityIDs(Order[i])[n] => There(id, e)'
        BY <2>7, <4>3
      <4> QED
        BY <4>4
    <3> QED
      BY <3>2, <3>3
  <2> QED
    BY <2>5, <2>8, <2>9, <2>10, <2>11
<1>4. CASE Register
  BY <1>3, <1>4 DEF Register
<1>5. CASE LeaveOut
  BY <1>3, <1>5 DEF LeaveOut
<1>6. ASSUME NEW e, Fail(e), catPhase = "starting", RefusedInv'
      PROVE  CatalogInv'
  <2>1. /\ catPhase' = "failed" /\ refused' = e /\ todo' = <<>> /\ registry' = <<>>
        /\ place' = place
    BY <1>6 DEF Fail
  <2>2. <<>> \in Seq({}) /\ DOMAIN <<>> = {}
    OBVIOUS
  <2>3. IsSeq(todo)' /\ DOMAIN registry' = {}
    BY <2>1, <2>2, Zenon DEF IsSeq
  <2>4. CatalogTypeOK' /\ PhaseInv' /\ TodoInv' /\ OwnInv' /\ ThereInv'
    BY <2>1, <2>3 DEF CatalogTypeOK, PhaseInv, TodoInv, OwnInv, ThereInv
  <2> QED
    BY <1>6, <2>3, <2>4
<1>7. CASE StartFails
  <2>1. Fail("") /\ catPhase = "starting"
    BY <1>7 DEF StartFails
  <2>2. RefusedInv'
    BY <2>1 DEF Fail, RefusedInv
  <2> QED
    BY <1>6, <2>1, <2>2
<1>8. CASE Refuse
  <2>1. /\ catPhase = "starting" /\ todo # <<>> /\ Head(todo) \in DOMAIN registry
        /\ Fail(Head(todo))
    BY <1>8 DEF Refuse
  <2>2. /\ Order[place] \in EnabledIDs /\ Declares(EntityIDs(Order[place]), R)
        /\ Done \in 0..Len(R) /\ Done + 1 \in 1..Len(R) /\ Head(todo) = R[Done + 1]
    BY <2>1, ToRegister
  <2>3. DOMAIN R = 1..Len(R)
    BY <2>2 DEF Declares, IsSeq
  <2>4. Head(todo) \in Range(R)
    BY <2>2, <2>3 DEF Range
  <2>5. Valid
    BY <2>1 DEF PhaseInv
  <2>6. /\ registry[Head(todo)] \in EnabledIDs
        /\ Head(todo) \in Range(Registers(registry[Head(todo)]))
    BY <2>1 DEF OwnInv
  <2>7. registry[Head(todo)] # Order[place]
    <3>1. SUFFICES ASSUME registry[Head(todo)] = Order[place] PROVE FALSE
      OBVIOUS
    <3>2. PICK n \in 1..Done : Head(todo) = R[n]
      BY <2>1, <3>1 DEF OwnInv
    <3>3. n \in 1..Len(R) /\ n # Done + 1
      BY <2>2, <2>3
    <3> QED
      BY <2>2, <3>2, <3>3 DEF Declares, Single
  <2>8. \E id \in EnabledIDs : Head(todo) \in Range(Registers(id)) \ Range(EntityIDs(id))
    BY <2>2, <2>4, <2>5, <2>6, <2>7, OneProvider
  <2>9. RefusedInv'
    BY <2>1, <2>8 DEF RefusedInv, Fail
  <2> QED
    BY <1>6, <2>1, <2>9
<1>9. CASE Started
  <2>1. /\ catPhase = "starting" /\ todo = <<>> /\ catPhase' = "next" /\ place' = place
        /\ todo' = todo /\ registry' = registry /\ refused' = refused
    BY <1>9 DEF Started
  <2>2. Declares(EntityIDs(Order[place]), R) /\ Done = Len(R) /\ place \in 1..11
    BY <2>1, ToRegister
  <2>3. CatalogTypeOK' /\ PhaseInv' /\ TodoInv' /\ OwnInv' /\ RefusedInv' /\ IsSeq(todo)'
    BY <2>1 DEF CatalogTypeOK, PhaseInv, TodoInv, OwnInv, RefusedInv
  <2>4. ThereInv'
    <3>1. SUFFICES ASSUME NEW i \in 1..place, PluginEnabled(Order[i]),
                          NEW n \in DOMAIN EntityIDs(Order[i])
                   PROVE  There(Order[i], EntityIDs(Order[i])[n])
      BY <2>1 DEF ThereInv, There
    <3>2. i = place => n <= Done
      <4>1. PICK T : EntityIDs(Order[place]) \in Seq(T)
        BY <2>2 DEF Declares, IsSeq
      <4>2. PICK U : R \in Seq(U)
        BY <2>2 DEF Declares, IsSeq
      <4> QED
        BY <2>2, <4>1, <4>2 DEF Declares
    <3> QED
      BY <2>1, <3>1, <3>2 DEF ThereInv
  <2> QED
    BY <2>3, <2>4
<1>10. CASE UNCHANGED catalogVars
  <2>1. /\ catPhase' = catPhase /\ todo' = todo /\ place' = place /\ registry' = registry
        /\ refused' = refused
    BY <1>10 DEF catalogVars
  <2>2. Done' = Done
    BY <2>1 DEF Done
  <2>3. CatalogTypeOK' /\ TodoInv' /\ OwnInv' /\ RefusedInv' /\ IsSeq(todo)'
    BY <2>1, <2>2, ZenonT(40) DEF CatalogTypeOK, TodoInv, OwnInv, RefusedInv
  <2>6. PhaseInv'
    <3>1. Ahead' = Ahead
      BY <2>1 DEF Ahead
    <3> QED
      BY <2>1, <3>1 DEF PhaseInv
  <2>4. \A id, e : There(id, e) => There(id, e)'
    BY <2>1 DEF There
  <2>5. ThereInv'
    BY <2>1, <2>2, <2>4 DEF ThereInv
  <2> QED
    BY <2>3, <2>5, <2>6
<1> QED
  BY <1>1, <1>2, <1>4, <1>5, <1>7, <1>8, <1>9, <1>10 DEF CatalogNext

\* What validation accepts starts with what it declares.
LEMMA AcceptedThen ==
  ASSUME CatalogInv
  PROVE  AcceptedRuns
<1>1. catPhase \in {"rejected", "failed"} => registry = <<>>
  BY DEF CatalogInv, PhaseInv
<1>2. ASSUME NEW e \in DOMAIN registry
      PROVE  registry[e] \in EnabledIDs /\ PluginEnabled(registry[e]) /\ SupportedOn(registry[e])
  <2>1. registry[e] \in EnabledIDs
    BY DEF CatalogInv, OwnInv
  <2>2. registry # <<>>
    <3>1. DOMAIN <<>> = {}
      OBVIOUS
    <3> QED
      BY <1>2, <3>1, Zenon
  <2>3. Valid
    BY <2>2 DEF CatalogInv, CatalogTypeOK, PhaseInv
  <2> QED
    BY <2>1, <2>3, Supported
<1>3. ASSUME catPhase = "running", NEW id \in EnabledIDs, NEW e \in Range(EntityIDs(id))
      PROVE  \/ e \in DOMAIN registry /\ registry[e] = id
             \/ /\ id = "runner" /\ e \in sections[id].optional
                /\ e \in DOMAIN registry => e \notin Range(EntityIDs(registry[e]))
  <2>1. PICK n \in DOMAIN EntityIDs(id) : e = EntityIDs(id)[n]
    BY <1>3 DEF Range
  <2>2. PICK i \in DOMAIN Order : Order[i] = id
    BY OrderFacts DEF EnabledIDs
  <2>3. Valid /\ Ahead = {} /\ place \in 0..11
    BY <1>3, OrderFacts DEF CatalogInv, CatalogTypeOK, PhaseInv
  <2>4. i \in 1..place /\ PluginEnabled(Order[i])
    BY <2>2, <2>3, OrderFacts DEF Ahead, EnabledIDs
  <2>5. There(id, e)
    BY <1>3, <2>1, <2>2, <2>4 DEF CatalogInv, ThereInv
  <2> QED
    BY <1>2, <1>3, <2>3, <2>5, OneProvider DEF There
<1>4. RefusedInv
  BY DEF CatalogInv
<1> QED
  BY <1>1, <1>2, <1>3, <1>4 DEF AcceptedRuns, RefusedInv

\* Whatever the files, what validation accepts starts with the entities its sections
\* declare, each of its own plugin, or leaves nothing; a refusal is about an entity that
\* a plugin registers without declaring it.
THEOREM AcceptedStarts == CatalogSpec => []AcceptedRuns
<1> QED
  BY AcceptedThen, InitCatalog, StepCatalog, PTL DEF CatalogSpec

-----------------------------------------------------------------------------
(* The plugins and the catalog together *)

CatInv == CatalogInv \/ CatalogOff

\* Each part keeps its invariant, also while another one is the behaviour's.
IInv == PlanInv /\ FanInv /\ CmdInv /\ CatInv

\* Initially one part is at work and the others are off.
LEMMA InitIInv == Init => IInv
<1> SUFFICES ASSUME Init PROVE IInv
  OBVIOUS
<1>1. /\ Plan!PlanInit \/ PlanOff
      /\ Fan!FanInit \/ FanOff
      /\ Cmd!CommandInit \/ CommandOff
      /\ CatalogInit \/ CatalogOff
  BY DEF Init
<1>2. CatInv
  BY <1>1, InitCatalog DEF CatInv
<1>3. QED
  BY <1>1, <1>2, PlanStarts, FanStarts, CmdStarts DEF IInv

\* Every step of the four keeps the four invariants.
LEMMA StepIInv == IInv /\ [Next]_vars => IInv'
<1> SUFFICES ASSUME IInv, [Next]_vars PROVE IInv'
  OBVIOUS
<1>1. /\ Plan!PlanNext \/ UNCHANGED planVars
      /\ Fan!FanNext \/ UNCHANGED fanVars
      /\ Cmd!CommandNext \/ UNCHANGED commandVars
      /\ (catPhase # "off" /\ CatalogNext) \/ UNCHANGED catalogVars
  BY DEF Next, vars
<1>2. CatInv'
  <2>1. CASE CatalogInv
    BY <1>1, <2>1, StepCatalog DEF CatInv
  <2>2. CASE CatalogOff
    <3>1. catPhase = "off"
      BY <2>2 DEF CatalogOff
    <3>2. UNCHANGED catalogVars
      BY <1>1, <3>1
    <3>3. CatalogOff'
      BY <2>2, <3>2, Zenon DEF CatalogOff, catalogVars
    <3>4. QED
      BY <3>3 DEF CatInv
  <2>3. QED
    BY <2>1, <2>2 DEF IInv, CatInv
<1>3. QED
  BY <1>1, <1>2, PlanSteps, FanSteps, CmdSteps DEF IInv

\* Hence they hold in every state of every behaviour.
LEMMA Invariant == Spec => []IInv
<1>1. QED
  BY InitIInv, StepIInv, PTL DEF Spec

\* For any configured plans and schemes, profiles and configs, and runner actions, their
\* variables have their types; a profile is there exactly as long as its call needs it.
THEOREM TypeCorrect == Spec => []TypeOK
<1>1. IInv => TypeOK
  <2>1. SUFFICES ASSUME IInv PROVE TypeOK
    OBVIOUS
  <2>2. CatalogTypeOK
    <3>1. CASE CatalogInv
      BY <3>1 DEF CatalogInv
    <3>2. CASE CatalogOff
      <4>1. catPhase = "off" /\ place = 0 /\ registry = <<>>
        BY <3>2, Zenon DEF CatalogOff
      <4>2. 0 \in 0..Len(Order)
        BY OrderFacts
      <4>3. \A e \in DOMAIN <<>> : FALSE
        OBVIOUS
      <4>4. QED
        BY <4>1, <4>2, <4>3, Zenon DEF CatalogTypeOK
    <3>3. QED
      BY <2>1, <3>1, <3>2 DEF IInv, CatInv
  <2>3. QED
    BY <2>1, <2>2 DEF IInv, PlanInv, FanInv, CmdInv, TypeOK
<1>2. QED
  BY <1>1, Invariant, PTL

\* Whatever the names and keys of plans and profiles, and in whatever order a map is
\* searched: once the select is registered, each of them can be chosen by its name, what
\* was found is among them, and what the user configured is as it was written
\* (mergeDiscoveredModes, mergeDiscoveredProfiles, UniqueKey).
THEOREM AllSelectable == Spec => []Selectable
<1>1. IInv => Selectable
  BY ProfilesSelectable DEF IInv, PlanInv, Selectable
<1>2. QED
  BY <1>1, Invariant, PTL

\* Whatever the actions, options and printed listings, and however often the options are
\* listed again: a choice of Home Assistant that is in the present list starts the script
\* with the parameters of the choice, with the exceptions that Cmd!ChoicesWork states, and
\* a select comes to show only what was one of its options when a text or a payload was
\* matched to it (refreshDiscoveredOptions, resolveSelectParams, mapGetterToOptionName).
THEOREM OffersWork == Spec => ChoicesWork
<1>1. IInv /\ [Next]_vars => [Cmd!ChoicesWork /\ Cmd!ShownIsOffered]_vars
  <2>1. SUFFICES ASSUME IInv, Next, ~UNCHANGED vars
                 PROVE  Cmd!ChoicesWork /\ Cmd!ShownIsOffered
    OBVIOUS
  <2>2. CASE Cmd!CommandNext
    BY <2>1, <2>2, CmdProperties DEF IInv
  <2>3. CASE UNCHANGED commandVars
    BY <2>3, NoCommandStep
  <2>4. QED
    BY <2>1, <2>2, <2>3 DEF Next
<1>2. QED
  BY <1>1, Invariant, PTL DEF Spec, ChoicesWork

\* Whatever is published to the command topic: the parameters of a run are those of a
\* choice that was declared, or conform to the schema, and by arguments, environment or
\* stdin the script reads each declared one as the command has it, with the exceptions
\* that Cmd!OnlyDeclared states (resolveCommandParams, validateStructuredParameters,
\* buildInvocation).
THEOREM ScriptsSeeDeclared == Spec => OnlyDeclared
<1>1. IInv /\ [Next]_vars => [Cmd!OnlyDeclared]_vars
  <2>1. SUFFICES ASSUME IInv, Next, ~UNCHANGED vars
                 PROVE  Cmd!OnlyDeclared
    OBVIOUS
  <2>2. CASE Cmd!CommandNext
    BY <2>1, <2>2, CmdProperties DEF IInv
  <2>3. CASE UNCHANGED commandVars
    BY <2>3, NoCommandStep
  <2>4. QED
    BY <2>1, <2>2, <2>3 DEF Next
<1>2. QED
  BY <1>1, Invariant, PTL DEF Spec, OnlyDeclared

-----------------------------------------------------------------------------
(* The lanes of commands *)

\* Nothing has come yet.
LEMMA InitTypeOK == MqttInit => MqttTypeOK
<1> SUFFICES ASSUME MqttInit PROVE MqttTypeOK
  OBVIOUS
<1> USE CapacityAssumption, BoundAssumption DEF MqttInit
<1>1. /\ came \in 0..MaxCommands
      /\ commands \in Seq(Command) /\ Len(commands) <= Queue
  OBVIOUS
<1>2. /\ hand \in {<<>>} \cup {<<c>> : c \in Command}
      /\ \A c \in Command : hand # <<c>>
      /\ hand # <<>> <=> lpc = "hand"
  OBVIOUS
<1>3. /\ queue \in [Entities -> Seq(Command)]
      /\ \A e \in Entities : Len(queue[e]) <= EntityQueue
  OBVIOUS
<1>4. busy \in [Entities -> {<<>>} \cup {<<c>> : c \in Command}]
  OBVIOUS
<1>5. QED
  BY <1>1, <1>2, <1>3, <1>4 DEF MqttTypeOK

\* Every action keeps the queues within their channels and the workers in agreement
\* with their handlers.
LEMMA StepTypeOK == MqttTypeOK /\ [MqttNext]_mqttVars => MqttTypeOK'
<1> SUFFICES ASSUME MqttTypeOK, [MqttNext]_mqttVars PROVE MqttTypeOK'
  OBVIOUS
<1> USE CapacityAssumption, BoundAssumption DEF loopVars, workerVars, stopVars
<1>1. ASSUME NEW e \in Entities, Come(e) PROVE MqttTypeOK'
  <2>1. [id |-> e, n |-> came + 1] \in Command
    <3>1. came + 1 \in 1..MaxCommands
      BY <1>1 DEF Come, MqttTypeOK
    <3>2. QED
      BY <3>1 DEF Command
  <2> DEFINE c == [id |-> e, n |-> came + 1]
  <2> HIDE DEF c
  <2>2. commands' \in Seq(Command) /\ Len(commands') <= Queue
    <3>1. \/ Len(commands) < Queue /\ commands' = Append(commands, c)
          \/ UNCHANGED commands
      BY <1>1 DEF Come, c
    <3>2. c \in Command /\ commands \in Seq(Command) /\ Len(commands) <= Queue
      BY <2>1 DEF c, MqttTypeOK
    <3>3. QED
      BY <3>1, <3>2
  <2>3. came' \in 0..MaxCommands
    BY <1>1 DEF Come, MqttTypeOK
  <2>4. QED
    BY <1>1, <2>2, <2>3 DEF Come, MqttTypeOK
<1>2. CASE LoopTake
  <2> DEFINE c == Head(commands)
  <2>1. c \in Command /\ commands' \in Seq(Command) /\ Len(commands') <= Queue
    BY <1>2 DEF LoopTake, MqttTypeOK
  <2>2. c.id \in Entities
    BY <2>1 DEF Command
  <2>3. wpc' = [wpc EXCEPT ![c.id] = IF @ = "none" THEN "select" ELSE @]
    BY <1>2 DEF LoopTake
  <2>4. \A e \in Entities : /\ wpc'[e] = "handle" <=> wpc[e] = "handle"
                            /\ wpc'[e] = "none" => wpc[e] = "none"
    BY <2>2, <2>3 DEF MqttTypeOK
  <2>5. /\ hand' = <<c>> /\ lpc' = "hand"
        /\ wpc'[c.id] # "none"
        /\ wpc' \in [Entities -> {"none", "select", "handle", "exited"}]
    BY <1>2, <2>2, <2>3 DEF LoopTake, MqttTypeOK
  <2>6. \A d \in Command : hand' = <<d>> => wpc'[d.id] # "none"
    BY <2>5
  <2>7. /\ hand' \in {<<>>} \cup {<<d>> : d \in Command}
        /\ hand' # <<>>
    BY <2>1, <2>5
  <2>8. UNCHANGED <<came, queue, busy, tpc, ctxDone>>
    BY <1>2 DEF LoopTake
  <2>9. QED
    BY <2>1, <2>4, <2>5, <2>6, <2>7, <2>8 DEF MqttTypeOK
<1>3. CASE LoopHand
  <2>1. PICK c \in Command : hand = <<c>>
    BY <1>3 DEF LoopHand, MqttTypeOK
  <2>2. c.id \in Entities /\ wpc[c.id] # "none" /\ hand[1] = c
    BY <2>1 DEF Command, MqttTypeOK
  <2>3. /\ hand' = <<>> /\ lpc' \in {"select", "wait"}
        /\ UNCHANGED <<came, commands, wpc, busy, tpc, ctxDone>>
    BY <1>3 DEF LoopHand
  <2>4. hand' \in {<<>>} \cup {<<d>> : d \in Command} /\ \A d \in Command : hand' # <<d>>
    BY <2>3
  <2>5. CASE UNCHANGED queue
    BY <2>3, <2>4, <2>5 DEF MqttTypeOK
  <2>6. CASE /\ Len(queue[c.id]) < EntityQueue
             /\ queue' = [queue EXCEPT ![c.id] = @ \o hand]
    <3>1. /\ queue[c.id] \o hand \in Seq(Command)
          /\ Len(queue[c.id] \o hand) <= EntityQueue
      BY <2>1, <2>2, <2>6 DEF MqttTypeOK
    <3>2. /\ queue' \in [Entities -> Seq(Command)]
          /\ \A e \in Entities : Len(queue'[e]) <= EntityQueue
          /\ \A e \in Entities : wpc[e] = "none" => queue'[e] = <<>>
      BY <2>2, <2>6, <3>1 DEF MqttTypeOK
    <3>3. QED
      BY <2>3, <2>4, <3>2 DEF MqttTypeOK
  <2>7. QED
    BY <1>3, <2>2, <2>5, <2>6 DEF LoopHand
<1>4. CASE LoopExit \/ LoopDone
  BY <1>4 DEF LoopExit, LoopDone, MqttTypeOK
<1>5. ASSUME NEW e \in Entities, WorkerTake(e) PROVE MqttTypeOK'
  <2>1. /\ Head(queue[e]) \in Command /\ Tail(queue[e]) \in Seq(Command)
        /\ Len(Tail(queue[e])) <= EntityQueue
    BY <1>5 DEF WorkerTake, MqttTypeOK
  <2>2. <<Head(queue[e])>> \in {<<c>> : c \in Command} /\ <<Head(queue[e])>> # <<>>
    BY <2>1
  <2>3. /\ queue' \in [Entities -> Seq(Command)]
        /\ \A d \in Entities : /\ Len(queue'[d]) <= EntityQueue
                               /\ wpc'[d] = "none" => queue'[d] = <<>>
    BY <1>5, <2>1 DEF WorkerTake, MqttTypeOK
  <2>4. /\ busy' \in [Entities -> {<<>>} \cup {<<c>> : c \in Command}]
        /\ \A d \in Entities : busy'[d] # <<>> <=> wpc'[d] = "handle"
    BY <1>5, <2>2 DEF WorkerTake, MqttTypeOK
  <2>5. /\ wpc' \in [Entities -> {"none", "select", "handle", "exited"}]
        /\ \A d \in Entities : wpc[d] # "none" => wpc'[d] # "none"
        /\ UNCHANGED <<came, commands, hand, lpc, tpc, ctxDone>>
    BY <1>5 DEF WorkerTake, MqttTypeOK
  <2>6. \A c \in Command : hand' = <<c>> => wpc'[c.id] # "none"
    BY <2>5 DEF Command, MqttTypeOK
  <2>7. QED
    BY <2>3, <2>4, <2>5, <2>6 DEF MqttTypeOK
<1>6. ASSUME NEW e \in Entities, WorkerReturn(e) \/ WorkerExit(e) PROVE MqttTypeOK'
  <2>1. /\ busy' \in [Entities -> {<<>>} \cup {<<c>> : c \in Command}]
        /\ \A d \in Entities : busy'[d] # <<>> <=> wpc'[d] = "handle"
    BY <1>6 DEF WorkerReturn, WorkerExit, MqttTypeOK
  <2>2. /\ wpc' \in [Entities -> {"none", "select", "handle", "exited"}]
        /\ \A d \in Entities : wpc'[d] = "none" <=> wpc[d] = "none"
        /\ UNCHANGED <<came, commands, hand, lpc, queue, tpc, ctxDone>>
    BY <1>6 DEF WorkerReturn, WorkerExit, MqttTypeOK
  <2>3. \A c \in Command : hand' = <<c>> => wpc'[c.id] # "none"
    BY <2>2 DEF Command, MqttTypeOK
  <2>4. QED
    BY <2>1, <2>2, <2>3 DEF MqttTypeOK
<1>7. CASE Cancel \/ Stop \/ StopReturn \/ StopTimeout
  BY <1>7 DEF Cancel, Stop, StopReturn, StopTimeout, MqttTypeOK
<1>8. CASE UNCHANGED mqttVars
  BY <1>8 DEF mqttVars, MqttTypeOK
<1>9. QED
  BY <1>1, <1>2, <1>3, <1>4, <1>5, <1>6, <1>7, <1>8 DEF MqttNext, LoopStep

\* For any entities, capacities and number of commands, neither queue overflows, a
\* command is handed over only where there is a worker, and a handler runs exactly
\* while its worker is in it.
THEOREM MqttTypeCorrect == MqttSpec => []MqttTypeOK
<1>1. QED
  BY InitTypeOK, StepTypeOK, PTL DEF MqttSpec
-----------------------------------------------------------------------------
(* Quiet after Stop *)

\* Once commandLoop is done there is no worker that has not exited; Stop waits for it.
\* Without the first part nothing would keep a worker from taking a command later.
QuietInv ==
  /\ lpc = "done" => \A e \in Entities : wpc[e] \in {"none", "exited"}
  /\ tpc = "stopped" => lpc = "done"

\* commandLoop starts no worker after it has gone to wait, and an exited one stays so.
LEMMA StepQuiet == MqttTypeOK /\ QuietInv /\ [MqttNext]_mqttVars => QuietInv'
<1> SUFFICES ASSUME MqttTypeOK, QuietInv, [MqttNext]_mqttVars PROVE QuietInv'
  OBVIOUS
<1> USE DEF QuietInv, loopVars, workerVars, stopVars
<1>1. ASSUME NEW e \in Entities, Come(e) PROVE QuietInv'
  BY <1>1 DEF Come
<1>2. CASE LoopStep
  BY <1>2 DEF LoopStep, LoopTake, LoopHand, LoopExit, LoopDone
<1>3. ASSUME NEW e \in Entities, WorkerTake(e) \/ WorkerReturn(e) \/ WorkerExit(e)
      PROVE QuietInv'
  <2>1. wpc[e] \notin {"none", "exited"} /\ UNCHANGED <<lpc, tpc>>
    BY <1>3 DEF WorkerTake, WorkerReturn, WorkerExit
  <2>2. QED
    BY <2>1
<1>4. CASE Cancel \/ Stop \/ StopReturn \/ StopTimeout
  BY <1>4 DEF Cancel, Stop, StopReturn, StopTimeout
<1>5. CASE UNCHANGED mqttVars
  BY <1>5 DEF mqttVars
<1>6. QED
  BY <1>1, <1>2, <1>3, <1>4, <1>5 DEF MqttNext

\* When Stop has returned without an error no handler of a command is running and none
\* is called any more, although commandLoop may start workers after its context is over.
THEOREM StoppedIsQuiet == MqttSpec => []QuietAfterStop
<1>1. MqttInit => QuietInv
  BY DEF MqttInit, QuietInv
<1>2. QuietInv => QuietAfterStop
  BY DEF QuietInv, QuietAfterStop
<1>3. QED
  BY <1>1, <1>2, InitTypeOK, StepTypeOK, StepQuiet, PTL DEF MqttSpec
-----------------------------------------------------------------------------
(* Lanes *)

\* Numbers grow from the front of a worker's queue over what commandLoop holds to the
\* end of its channel, and a worker is given the commands of its entity.
ChannelOrder ==
  \A i \in DOMAIN commands :
    commands[i].n <= came /\ \A j \in 1..(i - 1) : commands[j].n < commands[i].n

HandOrder ==
  \A c \in Command : hand = <<c>> =>
    c.n <= came /\ \A i \in DOMAIN commands : c.n < commands[i].n

QueueOrder(e) ==
  \A i \in DOMAIN queue[e] :
    /\ queue[e][i].id = e /\ queue[e][i].n <= came
    /\ \A j \in 1..(i - 1) : queue[e][j].n < queue[e][i].n
    /\ \A j \in DOMAIN commands : queue[e][i].n < commands[j].n
    /\ \A c \in Command : hand = <<c>> => queue[e][i].n < c.n

BusyOwn(e) == \A c \in Command : busy[e] = <<c>> => c.id = e

OrderInv ==
  ChannelOrder /\ HandOrder /\ \A e \in Entities : QueueOrder(e) /\ BusyOwn(e)

\* The front of a channel, and the others.
LEMMA Fronts ==
  ASSUME NEW s \in Seq(Command), s # <<>>
  PROVE  /\ Len(s) \in Nat \ {0} /\ Tail(s) \in Seq(Command) /\ Len(Tail(s)) = Len(s) - 1
         /\ \A i \in DOMAIN Tail(s) : i + 1 \in DOMAIN s /\ Tail(s)[i] = s[i + 1] /\ i \in Nat \ {0}
         /\ Head(s) = s[1] /\ 1 \in DOMAIN s /\ s[1] \in Command
         /\ \A i \in DOMAIN s \ {1} : i - 1 \in DOMAIN Tail(s) /\ Tail(s)[i - 1] = s[i]
  OBVIOUS

\* A command behind the others.
LEMMA Behinds ==
  ASSUME NEW s \in Seq(Command), NEW c \in Command
  PROVE  /\ s \o <<c>> \in Seq(Command) /\ Append(s, c) = s \o <<c>>
         /\ Len(s) \in Nat /\ DOMAIN s = 1..Len(s) /\ DOMAIN (s \o <<c>>) = 1..(Len(s) + 1)
         /\ \A i \in 1..Len(s) : (s \o <<c>>)[i] = s[i]
         /\ (s \o <<c>>)[Len(s) + 1] = c
  OBVIOUS

\* No command has come.
LEMMA InitOrder == MqttInit => OrderInv
<1> SUFFICES ASSUME MqttInit PROVE OrderInv
  OBVIOUS
<1>1. \A c \in Command : hand # <<c>> /\ \A e \in Entities : busy[e] # <<c>>
  BY DEF MqttInit
<1>2. QED
  BY <1>1 DEF MqttInit, OrderInv, ChannelOrder, HandOrder, QueueOrder, BusyOwn

\* Every hand-over takes from the front and gives to the back.
LEMMA StepOrder == MqttTypeOK /\ OrderInv /\ [MqttNext]_mqttVars => OrderInv'
<1> SUFFICES ASSUME MqttTypeOK, OrderInv, [MqttNext]_mqttVars PROVE OrderInv'
  OBVIOUS
<1> USE DEF loopVars, workerVars, stopVars
<1>1. /\ commands \in Seq(Command) /\ came \in Nat
      /\ hand \in {<<>>} \cup {<<c>> : c \in Command}
      /\ \A e \in Entities : queue[e] \in Seq(Command)
      /\ \A c \in Command : c.id \in Entities /\ c.n \in Nat
      /\ ChannelOrder /\ HandOrder /\ \A e \in Entities : QueueOrder(e) /\ BusyOwn(e)
  <2>1. \A c \in Command : c.id \in Entities /\ c.n \in Nat
    BY BoundAssumption DEF Command
  <2>2. came \in Nat
    BY BoundAssumption DEF MqttTypeOK
  <2>3. QED
    BY <2>1, <2>2 DEF MqttTypeOK, OrderInv
<1>2. \A i \in DOMAIN commands : commands[i] \in Command
  BY <1>1
<1>3. \A e \in Entities : \A i \in DOMAIN queue[e] : queue[e][i] \in Command
  BY <1>1
<1>4. ASSUME NEW e \in Entities, Come(e) PROVE OrderInv'
  <2> DEFINE c == [id |-> e, n |-> came + 1]
  <2>1. c \in Command /\ c.n = came + 1
    BY <1>4, BoundAssumption DEF Come, MqttTypeOK, Command
  <2>2. came' = came + 1 /\ UNCHANGED <<hand, queue, busy>>
    BY <1>4 DEF Come
  <2>3. (commands' = commands \o <<c>>) \/ UNCHANGED commands
    BY <1>1, <1>4, <2>1, Behinds DEF Come
  <2> HIDE DEF c
  <2>4. ASSUME NEW i \in DOMAIN commands'
        PROVE  (i \in DOMAIN commands /\ commands'[i] = commands[i])
                 \/ (i = Len(commands) + 1 /\ commands'[i] = c)
    BY <1>1, <2>1, <2>3, <2>4, Behinds
  <2>5. ChannelOrder'
    <3>1. ASSUME NEW i \in DOMAIN commands', NEW j \in 1..(i - 1)
          PROVE  j \in DOMAIN commands /\ commands'[j] = commands[j]
      BY <1>1, <2>1, <2>3, <3>1, Behinds
    <3>2. QED
      BY <1>1, <1>2, <2>1, <2>2, <2>4, <3>1 DEF ChannelOrder
  <2>6. HandOrder'
    <3>1. ASSUME NEW d \in Command, hand = <<d>>
          PROVE  d.n <= came' /\ \A i \in DOMAIN commands' : d.n < commands'[i].n
      <4>1. d.n \in Nat /\ d.n <= came /\ \A i \in DOMAIN commands : d.n < commands[i].n
        BY <1>1, <3>1 DEF HandOrder
      <4>2. d.n <= came + 1 /\ d.n < came + 1
        BY <1>1, <4>1
      <4>3. QED
        BY <2>1, <2>2, <2>4, <4>1, <4>2
    <3>2. QED
      BY <2>2, <3>1 DEF HandOrder
  <2>7. ASSUME NEW d \in Entities PROVE QueueOrder(d)'
    <3>1. ASSUME NEW i \in DOMAIN queue[d]
          PROVE  queue[d][i].n <= came' /\ \A j \in DOMAIN commands' : queue[d][i].n < commands'[j].n
      <4>1. queue[d][i].n \in Nat /\ queue[d][i].n <= came
            /\ \A j \in DOMAIN commands : queue[d][i].n < commands[j].n
        BY <1>1, <1>3, <3>1 DEF QueueOrder
      <4>2. queue[d][i].n <= came + 1 /\ queue[d][i].n < came + 1
        BY <1>1, <4>1
      <4>3. QED
        BY <2>1, <2>2, <2>4, <4>1, <4>2
    <3>2. QED
      BY <1>1, <2>2, <3>1 DEF QueueOrder
  <2>8. QED
    BY <1>1, <2>2, <2>5, <2>6, <2>7 DEF OrderInv, BusyOwn
<1>5. CASE LoopTake
  <2> DEFINE c == Head(commands)
  <2>1. commands # <<>> /\ commands' = Tail(commands) /\ hand' = <<c>> /\ UNCHANGED <<came, queue, busy>>
    BY <1>5 DEF LoopTake
  <2>2. /\ \A i \in DOMAIN commands' : /\ i + 1 \in DOMAIN commands /\ commands'[i] = commands[i + 1]
                                       /\ i \in Nat \ {0} /\ 1 \in 1..(i + 1 - 1)
        /\ c = commands[1] /\ 1 \in DOMAIN commands
    BY <1>1, <2>1, Fronts
  <2> HIDE DEF c
  <2>3. ChannelOrder'
    <3>1. ASSUME NEW i \in DOMAIN commands', NEW j \in 1..(i - 1)
          PROVE  j + 1 \in 1..(i + 1 - 1) /\ commands'[j] = commands[j + 1]
      <4>1. commands' \in Seq(Command)
        BY <1>1, <2>1
      <4>2. j \in DOMAIN commands'
        BY <4>1, <3>1
      <4>3. QED
        BY <2>2, <3>1, <4>2
    <3>2. QED
      BY <1>1, <2>1, <2>2, <3>1 DEF ChannelOrder
  <2>4. HandOrder'
    BY <1>1, <2>1, <2>2 DEF HandOrder, ChannelOrder
  <2>5. ASSUME NEW d \in Entities PROVE QueueOrder(d)'
    BY <1>1, <2>1, <2>2 DEF QueueOrder
  <2>6. QED
    BY <1>1, <2>1, <2>3, <2>4, <2>5 DEF OrderInv, BusyOwn
<1>6. CASE LoopHand
  <2>1. PICK c \in Command : hand = <<c>>
    BY <1>1, <1>6 DEF LoopHand, MqttTypeOK
  <2>2. hand[1] = c /\ c.id \in Entities
    BY <1>1, <2>1
  <2>3. hand' = <<>> /\ UNCHANGED <<came, commands, busy>>
    BY <1>6 DEF LoopHand
  <2>4. ChannelOrder' /\ HandOrder' /\ \A e \in Entities : BusyOwn(e)'
    BY <1>1, <2>3 DEF ChannelOrder, HandOrder, BusyOwn
  <2>5. UNCHANGED queue \/ queue' = [queue EXCEPT ![c.id] = @ \o <<c>>]
    BY <1>6, <2>1, <2>2 DEF LoopHand
  <2>6. ASSUME NEW e \in Entities, queue'[e] = queue[e] PROVE QueueOrder(e)'
    BY <1>1, <2>3, <2>6 DEF QueueOrder
  <2>7. ASSUME queue'[c.id] = queue[c.id] \o <<c>> PROVE QueueOrder(c.id)'
    <3> DEFINE e == c.id
    <3>1. queue[e] \in Seq(Command) /\ QueueOrder(e)
      BY <1>1, <2>2
    <3>2. /\ Len(queue[e]) \in Nat /\ DOMAIN queue[e] = 1..Len(queue[e])
          /\ DOMAIN queue'[e] = 1..(Len(queue[e]) + 1)
          /\ \A i \in 1..Len(queue[e]) : queue'[e][i] = queue[e][i]
          /\ queue'[e][Len(queue[e]) + 1] = c
      BY <2>7, <3>1, Behinds
    <3>3. ASSUME NEW i \in DOMAIN queue'[e]
          PROVE  /\ queue'[e][i].id = e /\ queue'[e][i].n <= came
                 /\ \A j \in 1..(i - 1) : queue'[e][j].n < queue'[e][i].n
                 /\ \A j \in DOMAIN commands : queue'[e][i].n < commands[j].n
      <4>1. CASE i \in DOMAIN queue[e]
        <5>1. \A j \in 1..(i - 1) : queue'[e][j] = queue[e][j]
          BY <3>2, <4>1
        <5>2. queue'[e][i] = queue[e][i]
          BY <3>2, <4>1
        <5>3. QED
          BY <3>1, <4>1, <5>1, <5>2 DEF QueueOrder
      <4>2. CASE i = Len(queue[e]) + 1
        <5>1. \A j \in 1..(i - 1) : j \in DOMAIN queue[e] /\ queue'[e][j] = queue[e][j]
          BY <3>2, <4>2
        <5>2. queue'[e][i] = c
          BY <3>2, <4>2
        <5>3. /\ c.n <= came /\ \A j \in DOMAIN commands : c.n < commands[j].n
              /\ \A j \in DOMAIN queue[e] : queue[e][j].n < c.n
          BY <1>1, <2>1, <3>1 DEF QueueOrder, HandOrder
        <5>4. QED
          BY <5>1, <5>2, <5>3
      <4>3. i \in DOMAIN queue[e] \/ i = Len(queue[e]) + 1
        BY <3>2
      <4>4. QED
        BY <4>1, <4>2, <4>3
    <3>4. QED
      BY <2>3, <3>3 DEF QueueOrder
  <2>8. \A e \in Entities : QueueOrder(e)'
    <3>1. CASE UNCHANGED queue
      BY <2>6, <3>1
    <3>2. CASE queue' = [queue EXCEPT ![c.id] = @ \o <<c>>]
      <4>1. queue'[c.id] = queue[c.id] \o <<c>> /\ \A e \in Entities \ {c.id} : queue'[e] = queue[e]
        BY <2>2, <3>2 DEF MqttTypeOK
      <4>2. QED
        BY <2>6, <2>7, <4>1
    <3>3. QED
      BY <2>5, <3>1, <3>2
  <2>9. QED
    BY <2>4, <2>8 DEF OrderInv
<1>7. ASSUME NEW e \in Entities, WorkerTake(e) PROVE OrderInv'
  <2>1. /\ queue[e] # <<>> /\ UNCHANGED <<came, commands, hand>>
        /\ queue'[e] = Tail(queue[e]) /\ busy'[e] = <<queue[e][1]>>
        /\ \A d \in Entities \ {e} : queue'[d] = queue[d] /\ busy'[d] = busy[d]
    BY <1>1, <1>7, Fronts DEF WorkerTake, MqttTypeOK
  <2>2. queue[e] \in Seq(Command) /\ QueueOrder(e)
    BY <1>1
  <2>3. /\ \A i \in DOMAIN queue'[e] : /\ i + 1 \in DOMAIN queue[e]
                                       /\ queue'[e][i] = queue[e][i + 1] /\ i \in Nat \ {0}
        /\ 1 \in DOMAIN queue[e] /\ queue'[e] \in Seq(Command)
    BY <2>1, <2>2, Fronts
  <2>4. QueueOrder(e)'
    <3>1. ASSUME NEW i \in DOMAIN queue'[e], NEW j \in 1..(i - 1)
          PROVE  j + 1 \in 1..(i + 1 - 1) /\ queue'[e][j] = queue[e][j + 1]
      BY <2>3, <3>1
    <3>2. QED
      BY <2>1, <2>2, <2>3, <3>1 DEF QueueOrder
  <2>5. BusyOwn(e)'
    BY <2>1, <2>2, <2>3 DEF BusyOwn, QueueOrder
  <2>6. ASSUME NEW d \in Entities \ {e} PROVE QueueOrder(d)' /\ BusyOwn(d)'
    <3>1. QueueOrder(d) /\ BusyOwn(d) /\ queue'[d] = queue[d] /\ busy'[d] = busy[d]
      BY <1>1, <2>1
    <3>2. QueueOrder(d)'
      BY <2>1, <3>1 DEF QueueOrder
    <3>3. BusyOwn(d)'
      BY <2>1, <3>1 DEF BusyOwn
    <3>4. QED
      BY <3>2, <3>3
  <2>7. ChannelOrder' /\ HandOrder'
    BY <1>1, <2>1 DEF ChannelOrder, HandOrder
  <2>8. QED
    BY <2>4, <2>5, <2>6, <2>7 DEF OrderInv
<1>8. ASSUME NEW e \in Entities, WorkerReturn(e) PROVE OrderInv'
  <2>1. /\ UNCHANGED <<came, commands, hand, queue>> /\ busy'[e] = <<>>
        /\ \A d \in Entities \ {e} : busy'[d] = busy[d]
    BY <1>8 DEF WorkerReturn, MqttTypeOK
  <2>2. QED
    <3>1. ChannelOrder' /\ HandOrder' /\ \A d \in Entities : QueueOrder(d)'
      BY <1>1, <2>1 DEF ChannelOrder, HandOrder, QueueOrder
    <3>2. \A d \in Entities : BusyOwn(d)'
      <4>1. \A d \in Entities \ {e} : BusyOwn(d)'
        BY <1>1, <2>1 DEF BusyOwn
      <4>2. BusyOwn(e)'
        BY <2>1 DEF BusyOwn
      <4>3. QED
        BY <4>1, <4>2
    <3>3. QED
      BY <3>1, <3>2 DEF OrderInv
<1>9. CASE UNCHANGED <<came, commands, hand, queue, busy>>
  BY <1>1, <1>9 DEF OrderInv, ChannelOrder, HandOrder, QueueOrder, BusyOwn
<1>10. QED
  BY <1>4, <1>5, <1>6, <1>7, <1>8, <1>9
     DEF MqttNext, LoopStep, LoopExit, LoopDone, WorkerExit, Cancel, Stop, StopReturn, StopTimeout, mqttVars
\* What is in a queue, by number.
LEMMA NumbersIn ==
  ASSUME NEW s, NEW e, NEW n
  PROVE  n \in numbers(s, e) <=> \E i \in DOMAIN s : s[i].id = e /\ s[i].n = n
BY DEF numbers

\* An empty queue has no numbers ...
LEMMA NumbersNone ==
  ASSUME NEW e
  PROVE  numbers(<<>>, e) = {}
BY DEF numbers

\* ... and that of one command its number, if it is for the entity.
LEMMA NumbersOne ==
  ASSUME NEW c, NEW e
  PROVE  numbers(<<c>>, e) = IF c.id = e THEN {c.n} ELSE {}
<1>1. DOMAIN <<c>> = {1} /\ <<c>>[1] = c
  OBVIOUS
<1>2. QED
  BY <1>1 DEF numbers

\* A command at the back adds its number.
LEMMA NumbersBehind ==
  ASSUME NEW s \in Seq(Command), NEW c \in Command, NEW e
  PROVE  numbers(s \o <<c>>, e) = numbers(s, e) \cup IF c.id = e THEN {c.n} ELSE {}
<1>1. /\ Len(s) \in Nat /\ DOMAIN s = 1..Len(s) /\ DOMAIN (s \o <<c>>) = 1..(Len(s) + 1)
      /\ \A i \in 1..Len(s) : (s \o <<c>>)[i] = s[i]
      /\ (s \o <<c>>)[Len(s) + 1] = c
  BY Behinds
<1>2. \A i \in 1..(Len(s) + 1) : i \in 1..Len(s) \/ i = Len(s) + 1
  BY <1>1
<1>3. Len(s) + 1 \in 1..(Len(s) + 1) /\ \A i \in 1..Len(s) : i \in 1..(Len(s) + 1)
  BY <1>1
<1>4. ASSUME NEW n \in numbers(s \o <<c>>, e) PROVE n \in numbers(s, e) \/ (c.id = e /\ n = c.n)
  <2>1. PICK i \in DOMAIN (s \o <<c>>) : (s \o <<c>>)[i].id = e /\ (s \o <<c>>)[i].n = n
    BY <1>4 DEF numbers
  <2>2. CASE i \in 1..Len(s)
    BY <1>1, <2>1, <2>2, NumbersIn
  <2>3. CASE i = Len(s) + 1
    BY <1>1, <2>1, <2>3
  <2>4. QED
    BY <1>1, <1>2, <2>2, <2>3
<1>5. ASSUME NEW n \in numbers(s, e) PROVE n \in numbers(s \o <<c>>, e)
  <2>1. PICK i \in 1..Len(s) : s[i].id = e /\ s[i].n = n
    BY <1>1, <1>5, NumbersIn
  <2>2. i \in DOMAIN (s \o <<c>>) /\ (s \o <<c>>)[i] = s[i]
    BY <1>1, <1>3
  <2>3. QED
    BY <2>1, <2>2, NumbersIn
<1>6. ASSUME c.id = e PROVE c.n \in numbers(s \o <<c>>, e)
  BY <1>1, <1>3, <1>6, NumbersIn
<1>7. QED
  BY <1>4, <1>5, <1>6

\* Taking the front takes away its number.
LEMMA NumbersFront ==
  ASSUME NEW s \in Seq(Command), s # <<>>, NEW e
  PROVE  numbers(s, e) = (IF Head(s).id = e THEN {Head(s).n} ELSE {}) \cup numbers(Tail(s), e)
<1>1. /\ \A i \in DOMAIN Tail(s) : i + 1 \in DOMAIN s /\ Tail(s)[i] = s[i + 1]
      /\ Head(s) = s[1] /\ 1 \in DOMAIN s
      /\ \A i \in DOMAIN s \ {1} : i - 1 \in DOMAIN Tail(s) /\ Tail(s)[i - 1] = s[i]
  BY Fronts
<1>2. ASSUME NEW n \in numbers(s, e) PROVE (s[1].id = e /\ n = s[1].n) \/ n \in numbers(Tail(s), e)
  <2>1. PICK i \in DOMAIN s : s[i].id = e /\ s[i].n = n
    BY <1>2, NumbersIn
  <2>2. CASE i = 1
    BY <2>1, <2>2
  <2>3. CASE i # 1
    <3>1. i - 1 \in DOMAIN Tail(s) /\ Tail(s)[i - 1] = s[i]
      BY <1>1, <2>3
    <3>2. QED
      BY <2>1, <3>1 DEF numbers
  <2>4. QED
    BY <2>2, <2>3
<1>3. ASSUME NEW n \in numbers(Tail(s), e) PROVE n \in numbers(s, e)
  <2>1. PICK i \in DOMAIN Tail(s) : Tail(s)[i].id = e /\ Tail(s)[i].n = n
    BY <1>3 DEF numbers
  <2>2. i + 1 \in DOMAIN s /\ Tail(s)[i] = s[i + 1]
    BY <1>1
  <2>3. QED
    BY <2>1, <2>2, NumbersIn
<1>4. ASSUME s[1].id = e PROVE s[1].n \in numbers(s, e)
  BY <1>1, <1>4, NumbersIn
<1>5. QED
  BY <1>1, <1>2, <1>3, <1>4

\* The lanes and the handlers, as CommandLanes has them.
way   == [e \in Entities |-> onTheWay(e)]
works == [e \in Entities |-> numbers(busy[e], e)]

\* What moves on without being lost or begun leaves the lanes as they are.
LEMMA Stutters ==
  ASSUME UNCHANGED <<came, busy>>, \A e \in Entities : onTheWay(e)' = onTheWay(e)
  PROVE  UNCHANGED Lanes!lvars
<1>1. way' = way
  BY DEF way
<1>2. works' = works
  BY DEF works
<1>3. QED
  BY <1>1, <1>2 DEF Lanes!lvars, way, works

\* Every step is a step of CommandLanes, or none.
LEMMA StepLanes ==
  MqttTypeOK /\ OrderInv /\ [MqttNext]_mqttVars => [Lanes!LaneNext]_(Lanes!lvars)
<1> SUFFICES ASSUME MqttTypeOK, OrderInv, [MqttNext]_mqttVars
             PROVE  Lanes!LaneNext \/ UNCHANGED Lanes!lvars
  OBVIOUS
<1> USE DEF loopVars, workerVars, stopVars
<1>1. /\ commands \in Seq(Command) /\ came \in Nat
      /\ hand \in {<<>>} \cup {<<c>> : c \in Command}
      /\ \A e \in Entities : queue[e] \in Seq(Command) /\ busy[e] \in {<<>>} \cup {<<c>> : c \in Command}
      /\ ChannelOrder /\ HandOrder /\ \A e \in Entities : QueueOrder(e) /\ BusyOwn(e)
  BY BoundAssumption DEF MqttTypeOK, OrderInv
<1>2. \A c \in Command : c.id \in Entities /\ c.n \in Nat
  BY BoundAssumption DEF Command
<1>3. ASSUME NEW e \in Entities, Come(e) PROVE Lanes!LaneNext \/ UNCHANGED Lanes!lvars
  <2> DEFINE c == [id |-> e, n |-> came + 1]
  <2>1. c \in Command /\ c.n = came + 1 /\ c.id = e
    BY <1>3, BoundAssumption DEF Come, MqttTypeOK, Command
  <2>2. came' = came + 1 /\ UNCHANGED <<hand, queue, busy>>
    BY <1>3 DEF Come
  <2>3. commands' = commands \o <<c>> \/ UNCHANGED commands
    BY <1>1, <1>3, <2>1, Behinds DEF Come
  <2> HIDE DEF c
  <2>4. works' = works
    BY <2>2 DEF works
  <2>5. way' = [way EXCEPT ![e] = @ \cup {came + 1}] \/ way' = way
    <3>1. CASE UNCHANGED commands
      BY <2>2, <3>1 DEF way, onTheWay
    <3>2. CASE commands' = commands \o <<c>>
      <4>1. \A d \in Entities : onTheWay(d)' = IF d = e THEN onTheWay(d) \cup {came + 1}
                                                        ELSE onTheWay(d)
        <5>1. ASSUME NEW d \in Entities
              PROVE  numbers(commands', d) = IF d = e THEN numbers(commands, d) \cup {came + 1}
                                                      ELSE numbers(commands, d)
          <6>1. numbers(commands \o <<c>>, d) = numbers(commands, d)
                                                \cup IF c.id = d THEN {c.n} ELSE {}
            BY <1>1, <2>1, NumbersBehind
          <6>2. QED
            BY <2>1, <3>2, <6>1
        <5>2. QED
          BY <2>2, <5>1 DEF onTheWay
      <4>2. QED
        BY <4>1 DEF way
    <3>3. QED
      BY <2>3, <3>1, <3>2
  <2>6. Lanes!Come(e)
    BY <2>2, <2>4, <2>5 DEF Lanes!Come, way, works
  <2>7. QED
    BY <2>6 DEF Lanes!LaneNext
<1>4. CASE LoopTake
  <2>1. commands # <<>> /\ commands' = Tail(commands) /\ hand' = <<Head(commands)>>
        /\ hand = <<>> /\ UNCHANGED <<came, queue, busy>>
    BY <1>4 DEF LoopTake, MqttTypeOK
  <2>2. \A e \in Entities : onTheWay(e)' = onTheWay(e)
    <3>1. ASSUME NEW e \in Entities
          PROVE  /\ numbers(commands, e) = numbers(hand', e) \cup numbers(commands', e)
                 /\ numbers(hand, e) = {}
      <4>1. numbers(<<Head(commands)>>, e) = IF Head(commands).id = e THEN {Head(commands).n} ELSE {}
        BY NumbersOne
      <4>2. QED
        BY <1>1, <2>1, <4>1, NumbersNone, NumbersFront
    <3>2. QED
      BY <2>1, <3>1 DEF onTheWay
  <2>3. QED
    BY <2>1, <2>2, Stutters
<1>5. CASE LoopHand
  <2>1. PICK c \in Command : hand = <<c>>
    BY <1>1, <1>5 DEF LoopHand, MqttTypeOK
  <2>2. hand[1] = c /\ c.id \in Entities
    BY <1>2, <2>1
  <2>3. hand' = <<>> /\ UNCHANGED <<came, commands, busy>>
    BY <1>5 DEF LoopHand
  <2>4. \A e \in Entities : numbers(hand', e) = {}
                            /\ numbers(hand, e) = IF e = c.id THEN {c.n} ELSE {}
    <3>1. ASSUME NEW e PROVE numbers(hand, e) = IF e = c.id THEN {c.n} ELSE {}
      <4>1. numbers(<<c>>, e) = IF c.id = e THEN {c.n} ELSE {}
        BY NumbersOne
      <4>2. QED
        BY <2>1, <4>1
    <3>2. QED
      BY <2>3, <3>1, NumbersNone
  <2>5. CASE queue' = [queue EXCEPT ![c.id] = @ \o <<c>>]
    <3>1. \A e \in Entities : onTheWay(e)' = onTheWay(e)
      <4>1. ASSUME NEW e \in Entities
            PROVE  numbers(queue'[e], e) = numbers(queue[e], e) \cup numbers(hand, e)
        <5>1. CASE e = c.id
          <6>1. queue'[e] = queue[e] \o <<c>>
            BY <2>5, <5>1 DEF MqttTypeOK
          <6>2. QED
            BY <1>1, <2>4, <5>1, <6>1, NumbersBehind
        <5>2. CASE e # c.id
          BY <2>4, <2>5, <5>2 DEF MqttTypeOK
        <5>3. QED
          BY <5>1, <5>2
      <4>2. QED
        BY <2>3, <2>4, <4>1 DEF onTheWay
    <3>2. QED
      BY <2>3, <3>1, Stutters
  <2>6. CASE UNCHANGED queue
    <3> DEFINE e == c.id
    <3>1. e \in Entities /\ c.n \in onTheWay(e)
      BY <2>2, <2>4 DEF onTheWay
    <3>2. c.n \notin numbers(queue[e], e)
      <4>1. \A i \in DOMAIN queue[e] : queue[e][i] \in Command /\ queue[e][i].n < c.n
        BY <1>1, <2>1, <3>1 DEF QueueOrder
      <4>2. \A i \in DOMAIN queue[e] : queue[e][i].n # c.n
        BY <1>2, <4>1
      <4>3. QED
        BY <4>2, NumbersIn
    <3>3. c.n \notin numbers(commands, e)
      <4>1. \A i \in DOMAIN commands : commands[i] \in Command /\ c.n < commands[i].n
        BY <1>1, <2>1 DEF HandOrder
      <4>2. \A i \in DOMAIN commands : commands[i].n # c.n
        BY <1>2, <4>1
      <4>3. QED
        BY <4>2, NumbersIn
    <3>4. \A d \in Entities : onTheWay(d)' = IF d = e THEN onTheWay(d) \ {c.n} ELSE onTheWay(d)
      BY <2>3, <2>4, <2>6, <3>2, <3>3 DEF onTheWay
    <3>5. way' = [way EXCEPT ![e] = @ \ {c.n}] /\ c.n \in way[e]
      BY <3>1, <3>4 DEF way
    <3>6. works' = works
      BY <2>3 DEF works
    <3>7. Lanes!Lose(e)
      BY <2>3, <3>5, <3>6 DEF Lanes!Lose, way, works
    <3>8. QED
      BY <3>1, <3>7 DEF Lanes!LaneNext
  <2>7. QED
    BY <1>5, <2>1, <2>2, <2>5, <2>6 DEF LoopHand
<1>6. ASSUME NEW e \in Entities, WorkerTake(e) PROVE Lanes!LaneNext \/ UNCHANGED Lanes!lvars
  <2> DEFINE c == Head(queue[e])
  <2>1. /\ queue[e] # <<>> /\ UNCHANGED <<came, commands, hand>> /\ busy[e] = <<>>
        /\ queue'[e] = Tail(queue[e]) /\ busy'[e] = <<c>>
        /\ \A d \in Entities \ {e} : queue'[d] = queue[d] /\ busy'[d] = busy[d]
    BY <1>6 DEF WorkerTake, MqttTypeOK
  <2>2. /\ queue[e] \in Seq(Command) /\ QueueOrder(e) /\ Tail(queue[e]) \in Seq(Command)
        /\ c = queue[e][1] /\ 1 \in DOMAIN queue[e] /\ c \in Command
        /\ \A i \in DOMAIN queue[e] \ {1} : 1 \in 1..(i - 1)
        /\ \A i \in DOMAIN queue[e] : queue[e][i] \in Command
        /\ \A i \in DOMAIN Tail(queue[e]) : /\ i + 1 \in DOMAIN queue[e] \ {1}
                                            /\ Tail(queue[e])[i] = queue[e][i + 1]
    BY <1>1, <2>1, Fronts
  <2>3. c.id = e /\ \A i \in DOMAIN queue[e] \ {1} : c.n < queue[e][i].n
    BY <2>2 DEF QueueOrder
  <2>4. \A i \in DOMAIN commands : commands[i] \in Command /\ c.n < commands[i].n
    BY <1>1, <2>2 DEF QueueOrder
  <2>5. \A d \in Command : hand = <<d>> => c.n < d.n
    BY <2>2 DEF QueueOrder
  <2> HIDE DEF c
  <2>6. numbers(queue[e], e) = {c.n} \cup numbers(queue'[e], e)
    BY <2>1, <2>2, <2>3, NumbersFront DEF c
  <2>7. \A n \in numbers(queue'[e], e) : c.n < n /\ n \in Nat
    <3>1. ASSUME NEW n \in numbers(queue'[e], e) PROVE c.n < n /\ n \in Nat
      <4>1. PICK i \in DOMAIN Tail(queue[e]) : Tail(queue[e])[i].n = n
        BY <2>1, <3>1 DEF numbers
      <4>2. i + 1 \in DOMAIN queue[e] \ {1} /\ Tail(queue[e])[i] = queue[e][i + 1]
        BY <2>2
      <4>3. QED
        BY <1>2, <2>2, <2>3, <4>1, <4>2
    <3>2. QED
      BY <3>1
  <2>8. \A n \in numbers(commands, e) : c.n < n /\ n \in Nat
    <3>1. ASSUME NEW n \in numbers(commands, e) PROVE c.n < n /\ n \in Nat
      <4>1. PICK i \in DOMAIN commands : commands[i].n = n
        BY <3>1, NumbersIn
      <4>2. QED
        BY <1>2, <2>4, <4>1
    <3>2. QED
      BY <3>1
  <2>9. \A n \in numbers(hand, e) : c.n < n /\ n \in Nat
    <3>1. CASE hand = <<>>
      BY <3>1, NumbersNone
    <3>2. ASSUME NEW d \in Command, hand = <<d>> PROVE \A n \in numbers(hand, e) : c.n < n /\ n \in Nat
      <4>1. numbers(<<d>>, e) = IF d.id = e THEN {d.n} ELSE {}
        BY NumbersOne
      <4>2. QED
        BY <1>2, <2>5, <3>2, <4>1
    <3>3. QED
      BY <1>1, <3>1, <3>2
  <2>10. c.n \in Nat
    BY <1>2, <2>2
  <2>11. /\ c.n \in onTheWay(e) /\ \A m \in onTheWay(e) : c.n <= m
         /\ onTheWay(e)' = onTheWay(e) \ {c.n}
    <3>1. \A n \in Nat : c.n < n => n # c.n /\ c.n <= n
      BY <2>10
    <3>2. /\ c.n \notin numbers(queue'[e], e) /\ c.n \notin numbers(hand, e)
          /\ c.n \notin numbers(commands, e)
      BY <2>7, <2>8, <2>9, <2>10
    <3>3. QED
      BY <2>1, <2>6, <2>7, <2>8, <2>9, <2>10, <3>1, <3>2 DEF onTheWay
  <2>12. \A d \in Entities \ {e} : onTheWay(d)' = onTheWay(d)
    BY <2>1 DEF onTheWay
  <2>13. way' = [way EXCEPT ![e] = @ \ {c.n}] /\ way[e] = onTheWay(e)
    BY <2>11, <2>12 DEF way
  <2>14. works' = [works EXCEPT ![e] = {c.n}] /\ works[e] = {}
    <3>1. numbers(busy'[e], e) = {c.n} /\ numbers(busy[e], e) = {}
      <4>1. numbers(<<c>>, e) = {c.n}
        BY <2>3, NumbersOne
      <4>2. QED
        BY <2>1, <4>1, NumbersNone
    <3>2. QED
      BY <2>1, <3>1 DEF works
  <2>15. Lanes!Begin(e)
    BY <2>1, <2>11, <2>13, <2>14 DEF Lanes!Begin, way, works
  <2>16. QED
    BY <2>15 DEF Lanes!LaneNext
<1>7. ASSUME NEW e \in Entities, WorkerReturn(e) PROVE Lanes!LaneNext \/ UNCHANGED Lanes!lvars
  <2>1. /\ UNCHANGED <<came, commands, hand, queue>> /\ busy'[e] = <<>> /\ busy[e] # <<>>
        /\ \A d \in Entities \ {e} : busy'[d] = busy[d]
    BY <1>7 DEF WorkerReturn, MqttTypeOK
  <2>2. PICK c \in Command : busy[e] = <<c>>
    BY <1>1, <2>1
  <2>3. c.id = e
    BY <1>1, <2>2 DEF BusyOwn
  <2>4. numbers(busy[e], e) = {c.n} /\ numbers(busy'[e], e) = {}
    <3>1. numbers(<<c>>, e) = {c.n}
      BY <2>3, NumbersOne
    <3>2. QED
      BY <2>1, <2>2, <3>1, NumbersNone
  <2>5. works' = [works EXCEPT ![e] = {}] /\ works[e] # {}
    BY <2>1, <2>4 DEF works
  <2>6. way' = way
    BY <2>1 DEF way, onTheWay
  <2>7. Lanes!End(e)
    BY <2>1, <2>5, <2>6 DEF Lanes!End, way, works
  <2>8. QED
    BY <2>7 DEF Lanes!LaneNext
<1>8. CASE UNCHANGED <<came, commands, hand, queue, busy>>
  <2>1. \A e \in Entities : onTheWay(e)' = onTheWay(e)
    BY <1>8 DEF onTheWay
  <2>2. QED
    BY <1>8, <2>1, Stutters
<1>9. QED
  BY <1>3, <1>4, <1>5, <1>6, <1>7, <1>8
     DEF MqttNext, LoopStep, LoopExit, LoopDone, WorkerExit, Cancel, Stop, StopReturn, StopTimeout, mqttVars

\* Every entity's commands take a lane of their own, for any capacities: in order, one at
\* a time, at most once, across two queues that overflow, a hand-over and a shutdown.
THEOREM LanesKept == MqttSpec => ImplementsLanes
<1>1. MqttInit => Lanes!LaneInit
  <2>1. ASSUME MqttInit PROVE /\ came = 0 /\ \A e \in Entities : onTheWay(e) = {} /\ numbers(busy[e], e) = {}
    <3>1. \A e : numbers(<<>>, e) = {}
      BY DEF numbers
    <3>2. QED
      BY <2>1, <3>1 DEF MqttInit, onTheWay
  <2>2. QED
    BY <2>1 DEF Lanes!LaneInit
<1>2. QED
  BY <1>1, InitTypeOK, StepTypeOK, InitOrder, StepOrder, StepLanes, PTL DEF MqttSpec, ImplementsLanes

\* What lanes keep: their commands have come, and what is handled came before the rest.
LaneInv ==
  /\ came \in Nat
  /\ \A e \in Entities : onTheWay(e) \cup numbers(busy[e], e) \subseteq 1..came
  /\ OldestFirst

\* Every step of the lanes keeps it.
LEMMA LaneStep == LaneInv /\ [Lanes!LaneNext]_(Lanes!lvars) => LaneInv'
<1> DEFINE lane == [e \in Entities |-> onTheWay(e)]
           hands == [e \in Entities |-> numbers(busy[e], e)]
           Ordered(n, l, h) ==
             /\ n \in Nat
             /\ \A e \in Entities : l[e] \cup h[e] \subseteq 1..n
             /\ \A e \in Entities : \A x \in h[e], y \in l[e] : x < y
<1>1. LaneInv = Ordered(came, lane, hands) /\ LaneInv' = Ordered(came', lane', hands')
  BY DEF LaneInv, OldestFirst
<1>2. /\ DOMAIN lane = Entities /\ DOMAIN hands = Entities
  OBVIOUS
<1>3. SUFFICES ASSUME Ordered(came, lane, hands), Lanes!LaneNext \/ UNCHANGED <<came, lane, hands>>
               PROVE  Ordered(came', lane', hands')
  BY <1>1 DEF Lanes!lvars
<1>4. ASSUME NEW e \in Entities, Lanes!Come(e) PROVE Ordered(came', lane', hands')
  <2>1. /\ came' = came + 1 /\ hands' = hands
        /\ lane' = [lane EXCEPT ![e] = @ \cup {came + 1}] \/ lane' = lane
    BY <1>4 DEF Lanes!Come
  <2> HIDE DEF lane, hands
  <2>2. QED
    BY <1>2, <1>3, <2>1
<1>5. ASSUME NEW e \in Entities, Lanes!Begin(e) PROVE Ordered(came', lane', hands')
  <2>1. PICK n \in lane[e] : /\ \A m \in lane[e] : n <= m
                             /\ hands' = [hands EXCEPT ![e] = {n}]
                             /\ lane' = [lane EXCEPT ![e] = @ \ {n}]
    BY <1>5 DEF Lanes!Begin
  <2>2. came' = came
    BY <1>5 DEF Lanes!Begin
  <2> HIDE DEF lane, hands
  <2>3. QED
    BY <1>2, <1>3, <2>1, <2>2
<1>6. ASSUME NEW e \in Entities, Lanes!End(e) PROVE Ordered(came', lane', hands')
  <2>1. hands' = [hands EXCEPT ![e] = {}] /\ came' = came /\ lane' = lane
    BY <1>6 DEF Lanes!End
  <2> HIDE DEF lane, hands
  <2>2. QED
    BY <1>2, <1>3, <2>1
<1>7. ASSUME NEW e \in Entities, Lanes!Lose(e) PROVE Ordered(came', lane', hands')
  <2>1. \E n : lane' = [lane EXCEPT ![e] = @ \ {n}]
    BY <1>7 DEF Lanes!Lose
  <2>2. came' = came /\ hands' = hands
    BY <1>7 DEF Lanes!Lose
  <2> HIDE DEF lane, hands
  <2>3. QED
    BY <1>2, <1>3, <2>1, <2>2
<1>8. QED
  <2>1. UNCHANGED <<came, lane, hands>> => Ordered(came', lane', hands')
    <3> HIDE DEF lane, hands
    <3>1. QED
      BY <1>3
  <2>2. QED
    BY <1>3, <1>4, <1>5, <1>6, <1>7, <2>1 DEF Lanes!LaneNext

\* So the handlers of an entity see its commands in the order they came, each at most
\* once, for any capacities and losses: it follows from the lanes alone (commandLoop,
\* entityCommandLoop).
THEOREM HandledInOrder == MqttSpec => []OldestFirst
<1>1. Lanes!LaneInit => LaneInv
  <2>1. SUFFICES ASSUME Lanes!LaneInit PROVE LaneInv
    OBVIOUS
  <2>2. came = 0 /\ \A e \in Entities : onTheWay(e) = {} /\ numbers(busy[e], e) = {}
    BY <2>1 DEF Lanes!LaneInit
  <2>3. QED
    BY <2>2 DEF LaneInv, OldestFirst
<1>2. LaneInv => OldestFirst
  BY DEF LaneInv
<1>3. QED
  BY <1>1, <1>2, LaneStep, LanesKept, PTL DEF ImplementsLanes
=============================================================================
