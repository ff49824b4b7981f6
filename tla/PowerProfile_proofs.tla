------------------------ MODULE PowerProfile_proofs ------------------------
(***************************************************************************)
(* What PowerProfile keeps for any daemon, lists, capacity and bounds: its *)
(* types, and that the entity mirrors the daemon once all is handled.      *)
(*                                                                         *)
(* The order of the bus carries the argument.  Whatever the plugin is told *)
(* of the daemon, by a signal or by a reply, was true when it was said;    *)
(* what has changed since is said by a signal behind it.                   *)
(***************************************************************************)
EXTENDS PowerProfile, TLAPS

\* At most one call of a caller is under way: as a request, or as its answer.
OneCall(c) ==
  /\ \A q, r \in reqs : q.to = c /\ r.to = c => q = r
  /\ \A i, j \in DOMAIN wire : wire[i].to = c /\ wire[j].to = c => i = j
  /\ \A r \in reqs, i \in DOMAIN wire : r.to = c => wire[i].to # c

\* The calls are those the watcher and the handler wait for, and the answers theirs.
WatchCalls ==
  /\ \A r \in reqs : r.to = "watch" =>
       wpc = "wait" /\ r.what = "all" /\ r.svc = Services[trying]
  /\ \A i \in DOMAIN wire : wire[i].to = "watch" =>
       /\ wpc = "wait" /\ wire[i].svc = Services[trying]
       /\ wire[i].type = "reply" => wire[i].list \in Lists /\ wire[i].active \in Profiles

CommandCalls ==
  /\ \A r \in reqs : r.to = "cmd" =>
       hpc \in {"set", "get"} /\ r.what = hpc /\ r.svc = hcall[1].svc
  /\ \A i \in DOMAIN wire : wire[i].to = "cmd" =>
       /\ hpc \in {"set", "get"} /\ wire[i].svc = hcall[1].svc
       /\ wire[i].type = "reply" /\ hpc = "get" => wire[i].active \in Profiles

\* Signals are signals, answers are answers.
Kinds ==
  /\ \A i \in DOMAIN wire : wire[i].to = "signals" <=> wire[i].type \notin {"reply", "error"}
  /\ \A i \in DOMAIN signals : signals[i].to = "signals"

\* What the plugin holds in which state.
Holds ==
  /\ hcall # <<>> <=> hpc # "idle"
  /\ got # <<>> => wpc = "apply"
  /\ service # None => options \in Lists
  /\ avail = None => wpc \in {"new", "call", "wait", "apply"}

CallInv == OneCall("watch") /\ OneCall("cmd") /\ WatchCalls /\ CommandCalls /\ Kinds /\ Holds

\* The signals behind position i.
After(s, i) == {s[k] : k \in {j \in DOMAIN s : j > i /\ s[j].to = "signals"}}
Ahead == After(signals, 0) \cup After(wire, 0)

Resets(m)       == m.type \in {"owner", "invalidated"}
SaysList(m, s)  == m.type = "changed" /\ m.svc = s /\ m.list # {}
SaysActive(m, s) == m.type = "changed" /\ m.svc = s /\ m.active # None

\* Unless a signal of M says otherwise, a daemon that owns the names "on", has the
\* profiles "all" and the active one "now" has this name, these profiles and this one.
Tells(M, s, list, act, on, all, now) ==
  (\A m \in M : ~Resets(m)) =>
    /\ s \in on
    /\ list # {} /\ (\A m \in M : ~SaysList(m, s)) => list = all
    /\ act # None /\ (\A m \in M : ~SaysActive(m, s)) => act = now

\* That is so of what is on the wire and in the channel, of a snapshot, of what the
\* entity shows, and of what the handler has read.
WireKnows ==
  \A i \in DOMAIN wire : wire[i].type \in {"changed", "reply"} =>
    Tells(After(wire, i), wire[i].svc, wire[i].list, wire[i].active, owned, dlist, dactive)
SignalsKnow ==
  \A i \in DOMAIN signals : signals[i].type = "changed" =>
    Tells(After(signals, i) \cup After(wire, 0),
          signals[i].svc, signals[i].list, signals[i].active, owned, dlist, dactive)
GotKnows ==
  \A snap \in Snapshot : got = <<snap>> =>
    Tells(Ahead, snap.svc, snap.list, snap.active, owned, dlist, dactive)
EntityKnows ==
  wpc = "select" /\ service # None =>
    Tells(Ahead, service, options, IF overtaken THEN None ELSE active, owned, dlist, dactive)
HandlerKnows ==
  hpc = "publish" /\ newer = None /\ wpc = "select" /\ service = hcall[1].svc =>
    Tells(Ahead, service, {}, hcall[1].val, owned, dlist, dactive)

\* While the handler is about to publish, what the watcher published meanwhile is shown.
NewerShown == hpc = "publish" /\ newer # None => active = newer /\ ~overtaken

KnowInv ==
  ~closed => WireKnows /\ SignalsKnow /\ GotKnows /\ EntityKnows /\ HandlerKnows

IInv == TypeOK /\ CallInv /\ NewerShown /\ KnowInv
-----------------------------------------------------------------------------
(* Sequences of messages *)

LEMMA Joins ==
  ASSUME NEW T, NEW w \in Seq(T), NEW v \in Seq(T)
  PROVE  /\ w \o v \in Seq(T) /\ Len(w \o v) = Len(w) + Len(v)
         /\ \A i \in DOMAIN w : /\ i \in DOMAIN (w \o v) /\ (w \o v)[i] = w[i]
                                /\ After(w \o v, i) = After(w, i) \cup After(v, 0)
         /\ \A i \in DOMAIN v : Len(w) + i \in DOMAIN (w \o v) /\ (w \o v)[Len(w) + i] = v[i]
         /\ \A k \in DOMAIN (w \o v) : k \in DOMAIN w \/ k - Len(w) \in DOMAIN v
         /\ After(w \o v, 0) = After(w, 0) \cup After(v, 0)
<1>1. /\ w \o v \in Seq(T) /\ Len(w) \in Nat /\ Len(v) \in Nat /\ Len(w \o v) = Len(w) + Len(v)
      /\ DOMAIN w = 1..Len(w) /\ DOMAIN v = 1..Len(v) /\ DOMAIN (w \o v) = 1..(Len(w) + Len(v))
  OBVIOUS
<1>2. \A i \in 1..Len(w) : (w \o v)[i] = w[i]
  BY <1>1
<1>3. \A i \in 1..Len(v) : (w \o v)[Len(w) + i] = v[i]
  BY <1>1
<1>4. \A i \in 1..Len(w) : i \in 1..(Len(w) + Len(v))
  BY <1>1
<1>5. \A i \in 1..Len(v) : Len(w) + i \in 1..(Len(w) + Len(v)) /\ Len(w) + i > Len(w) /\ i > 0
  BY <1>1
<1>6. \A k \in 1..(Len(w) + Len(v)) : k \in 1..Len(w) \/ (k - Len(w) \in 1..Len(v) /\ k = Len(w) + (k - Len(w)))
  BY <1>1
<1>7. ASSUME NEW i \in 0..Len(w) PROVE After(w \o v, i) = After(w, i) \cup After(v, 0)
  <2>1. ASSUME NEW m \in After(w \o v, i) PROVE m \in After(w, i) \cup After(v, 0)
    <3>1. PICK k \in 1..(Len(w) + Len(v)) : k > i /\ (w \o v)[k].to = "signals" /\ m = (w \o v)[k]
      BY <1>1, <2>1 DEF After
    <3>2. CASE k \in 1..Len(w)
      BY <1>1, <1>2, <3>1, <3>2 DEF After
    <3>3. CASE k - Len(w) \in 1..Len(v) /\ k = Len(w) + (k - Len(w))
      <4>1. (w \o v)[k] = v[k - Len(w)] /\ k - Len(w) > 0
        BY <1>3, <1>5, <3>3
      <4>2. QED
        BY <1>1, <3>1, <3>3, <4>1 DEF After
    <3>4. QED
      BY <1>6, <3>2, <3>3
  <2>2. ASSUME NEW m \in After(w, i) PROVE m \in After(w \o v, i)
    <3>1. PICK k \in 1..Len(w) : k > i /\ w[k].to = "signals" /\ m = w[k]
      BY <1>1, <2>2 DEF After
    <3>2. k \in DOMAIN (w \o v) /\ (w \o v)[k] = w[k]
      BY <1>1, <1>2, <1>4
    <3>3. QED
      BY <3>1, <3>2 DEF After
  <2>3. ASSUME NEW m \in After(v, 0) PROVE m \in After(w \o v, i)
    <3>1. PICK k \in 1..Len(v) : v[k].to = "signals" /\ m = v[k]
      BY <1>1, <2>3 DEF After
    <3>2. Len(w) + k \in DOMAIN (w \o v) /\ (w \o v)[Len(w) + k] = v[k] /\ Len(w) + k > i
      BY <1>1, <1>3, <1>5
    <3>3. QED
      BY <3>1, <3>2 DEF After
  <2>4. QED
    BY <2>1, <2>2, <2>3
<1>8. 0 \in 0..Len(w) /\ \A i \in 1..Len(w) : i \in 0..Len(w)
  BY <1>1
<1>9. QED
  BY <1>1, <1>2, <1>3, <1>4, <1>5, <1>6, <1>7, <1>8

LEMMA Tails ==
  ASSUME NEW T, NEW w \in Seq(T), w # <<>>
  PROVE  /\ Tail(w) \in Seq(T) /\ 1 \in DOMAIN w /\ w[1] \in T /\ Head(w) = w[1]
         /\ \A i \in DOMAIN Tail(w) : /\ i + 1 \in DOMAIN w \ {1} /\ Tail(w)[i] = w[i + 1]
                                      /\ After(Tail(w), i) = After(w, i + 1)
         /\ After(Tail(w), 0) = After(w, 1)
         /\ After(w, 0) = After(w, 1) \cup IF w[1].to = "signals" THEN {w[1]} ELSE {}
<1>1. /\ Tail(w) \in Seq(T) /\ Len(w) \in Nat /\ Len(w) > 0 /\ DOMAIN w = 1..Len(w)
      /\ DOMAIN Tail(w) = 1..(Len(w) - 1) /\ Head(w) = w[1]
  OBVIOUS
<1>2. \A i \in 1..(Len(w) - 1) : Tail(w)[i] = w[i + 1]
  BY <1>1
<1>3. 1 \in 1..Len(w) /\ w[1] \in T
  BY <1>1
<1>4. \A i \in 1..(Len(w) - 1) : i + 1 \in 1..Len(w) /\ i + 1 # 1
  BY <1>1
<1>5. ASSUME NEW i \in Nat PROVE After(Tail(w), i) = After(w, i + 1)
  <2>1. ASSUME NEW m \in After(Tail(w), i) PROVE m \in After(w, i + 1)
    <3>1. PICK k \in 1..(Len(w) - 1) : k > i /\ Tail(w)[k].to = "signals" /\ m = Tail(w)[k]
      BY <1>1, <2>1 DEF After
    <3>2. k + 1 \in DOMAIN w /\ Tail(w)[k] = w[k + 1] /\ k + 1 > i + 1
      BY <1>1, <1>2, <1>4, <3>1
    <3>3. QED
      BY <3>1, <3>2 DEF After
  <2>2. ASSUME NEW m \in After(w, i + 1) PROVE m \in After(Tail(w), i)
    <3>1. PICK k \in 1..Len(w) : k > i + 1 /\ w[k].to = "signals" /\ m = w[k]
      BY <1>1, <2>2 DEF After
    <3>2. k - 1 \in 1..(Len(w) - 1) /\ k - 1 > i /\ (k - 1) + 1 = k
      BY <1>1, <3>1
    <3>3. k - 1 \in DOMAIN Tail(w) /\ Tail(w)[k - 1] = w[k]
      BY <1>1, <1>2, <3>2
    <3>4. QED
      BY <3>1, <3>2, <3>3 DEF After
  <2>3. QED
    BY <2>1, <2>2
<1>6. After(Tail(w), 0) = After(w, 1)
  BY <1>5
<1>7. After(w, 0) = After(w, 1) \cup IF w[1].to = "signals" THEN {w[1]} ELSE {}
  <2>1. \A k \in 1..Len(w) : k > 0 /\ (k > 1 \/ k = 1)
    BY <1>1
  <2>2. QED
    BY <1>1, <1>3, <2>1 DEF After
<1>8. \A i \in 1..(Len(w) - 1) : After(Tail(w), i) = After(w, i + 1)
  <2>1. \A i \in 1..(Len(w) - 1) : i \in Nat
    BY <1>1
  <2>2. QED
    BY <1>5, <2>1
<1>9. QED
  BY <1>1, <1>2, <1>3, <1>4, <1>6, <1>7, <1>8
\* v is w without some messages that are no signals.
Thinned(w, v) ==
  \E m \in [DOMAIN v -> DOMAIN w] :
    /\ \A i \in DOMAIN v : v[i] = w[m[i]] /\ After(v, i) = After(w, m[i])
    /\ \A i, j \in DOMAIN v : m[i] = m[j] => i = j
    /\ After(v, 0) = After(w, 0)

LEMMA SameThinned ==
  ASSUME NEW w
  PROVE  Thinned(w, w)
<1> DEFINE m == [i \in DOMAIN w |-> i]
<1>1. m \in [DOMAIN w -> DOMAIN w] /\ \A i \in DOMAIN w : m[i] = i
  OBVIOUS
<1>2. QED
  BY <1>1 DEF Thinned

LEMMA TailThinned ==
  ASSUME NEW T, NEW w \in Seq(T), w # <<>>, w[1].to # "signals"
  PROVE  Thinned(w, Tail(w))
<1> DEFINE m == [i \in DOMAIN Tail(w) |-> i + 1]
<1>1. m \in [DOMAIN Tail(w) -> DOMAIN w] /\ \A i \in DOMAIN Tail(w) : m[i] = i + 1
  BY Tails
<1>2. \A i, j \in DOMAIN Tail(w) : i + 1 = j + 1 => i = j
  <2>1. DOMAIN Tail(w) \subseteq Nat
    <3>1. Tail(w) \in Seq(T)
      BY Tails
    <3>2. QED
      BY <3>1
  <2>2. QED
    BY <2>1
<1>3. \A i \in DOMAIN Tail(w) : Tail(w)[i] = w[i + 1] /\ After(Tail(w), i) = After(w, i + 1)
  BY Tails
<1>4. After(Tail(w), 0) = After(w, 0)
  BY Tails
<1> HIDE DEF m
<1>5. QED
  BY <1>1, <1>2, <1>3, <1>4 DEF Thinned

LEMMA RemovedThinned ==
  ASSUME NEW T, NEW w \in Seq(T), NEW r \in DOMAIN w, w[r].to # "signals"
  PROVE  /\ RemoveAt(w, r) \in Seq(T)
         /\ Thinned(w, RemoveAt(w, r))
         /\ \A i \in DOMAIN RemoveAt(w, r) : \E j \in DOMAIN w \ {r} : RemoveAt(w, r)[i] = w[j]
<1> DEFINE v    == RemoveAt(w, r)
           p(i) == IF i < r THEN i ELSE i + 1
           m    == [i \in DOMAIN v |-> p(i)]
<1>1. /\ Len(w) \in Nat /\ DOMAIN w = 1..Len(w) /\ r \in 1..Len(w)
  OBVIOUS
<1>2. /\ v \in Seq(T) /\ DOMAIN v = 1..(Len(w) - 1)
      /\ \A i \in 1..(Len(w) - 1) : v[i] = w[p(i)]
  <2> DEFINE a == SubSeq(w, 1, r - 1)
             b == SubSeq(w, r + 1, Len(w))
  <2>1. /\ a \in Seq(T) /\ Len(a) = r - 1 /\ \A i \in 1..(r - 1) : a[i] = w[i]
    BY <1>1
  <2>2. /\ b \in Seq(T) /\ Len(b) = Len(w) - r /\ \A i \in 1..(Len(w) - r) : b[i] = w[r + i]
    BY <1>1
  <2>3. v = a \o b
    BY DEF RemoveAt
  <2> HIDE DEF a, b, v
  <2>4. v \in Seq(T) /\ Len(v) = Len(w) - 1 /\ DOMAIN v = 1..(Len(w) - 1)
    <3>1. v \in Seq(T)
      BY <2>1, <2>2, <2>3
    <3>2. Len(v) = Len(a) + Len(b)
      BY <2>1, <2>2, <2>3, Joins
    <3>3. QED
      BY <1>1, <2>1, <2>2, <3>1, <3>2
  <2>5. ASSUME NEW i \in 1..(Len(w) - 1) PROVE v[i] = w[p(i)]
    <3>1. CASE i < r
      BY <1>1, <2>1, <2>2, <2>3, <3>1
    <3>2. CASE ~(i < r)
      <4>1. i - (r - 1) \in 1..(Len(w) - r) /\ r + (i - (r - 1)) = i + 1 /\ i > r - 1
        BY <1>1, <3>2
      <4>2. v[i] = b[i - (r - 1)]
        BY <1>1, <2>1, <2>2, <2>3, <4>1, SMTT(30)
      <4>3. QED
        BY <2>2, <3>2, <4>1, <4>2
    <3>3. QED
      BY <3>1, <3>2
  <2>6. QED
    BY <2>4, <2>5
<1> HIDE DEF v
<1>3. \A i \in 1..(Len(w) - 1) : p(i) \in 1..Len(w) /\ p(i) # r
  BY <1>1
<1>4. \A i, j \in 1..(Len(w) - 1) : p(i) = p(j) => i = j
  BY <1>1
<1>5. \A k \in 1..Len(w) : k # r => \E i \in 1..(Len(w) - 1) : k = p(i)
  <2>1. ASSUME NEW k \in 1..Len(w), k # r PROVE \E i \in 1..(Len(w) - 1) : k = p(i)
    <3>1. CASE k < r
      <4>1. k \in 1..(Len(w) - 1) /\ p(k) = k
        BY <1>1, <3>1
      <4>2. QED
        BY <4>1
    <3>2. CASE k > r
      <4>1. k - 1 \in 1..(Len(w) - 1) /\ p(k - 1) = k
        BY <1>1, <3>2
      <4>2. QED
        BY <4>1
    <3>3. QED
      BY <1>1, <2>1, <3>1, <3>2
  <2>2. QED
    BY <2>1
<1>6. ASSUME NEW i \in 0..Len(w), NEW q \in 0..Len(w),
             \A k \in 1..(Len(w) - 1) : k > i <=> p(k) > q
      PROVE  After(v, i) = After(w, q)
  <2>1. ASSUME NEW x \in After(v, i) PROVE x \in After(w, q)
    <3>1. PICK k \in 1..(Len(w) - 1) : k > i /\ v[k].to = "signals" /\ x = v[k]
      BY <1>2, <2>1 DEF After
    <3>2. p(k) \in DOMAIN w /\ v[k] = w[p(k)] /\ p(k) > q
      BY <1>1, <1>2, <1>3, <1>6, <3>1
    <3>3. QED
      BY <3>1, <3>2 DEF After
  <2>2. ASSUME NEW x \in After(w, q) PROVE x \in After(v, i)
    <3>1. PICK k \in 1..Len(w) : k > q /\ w[k].to = "signals" /\ x = w[k]
      BY <1>1, <2>2 DEF After
    <3>2. PICK j \in 1..(Len(w) - 1) : k = p(j)
      BY <1>5, <3>1
    <3>3. j \in DOMAIN v /\ v[j] = w[k] /\ j > i
      BY <1>2, <1>6, <3>1, <3>2
    <3>4. QED
      BY <3>1, <3>3 DEF After
  <2>3. QED
    BY <2>1, <2>2
<1>7. ASSUME NEW i \in 1..(Len(w) - 1) PROVE After(v, i) = After(w, p(i))
  <2>1. p(i) \in 0..Len(w) /\ i \in 0..Len(w)
    BY <1>1
  <2>2. \A k \in 1..(Len(w) - 1) : k > i <=> p(k) > p(i)
    BY <1>1
  <2>3. QED
    BY <1>6, <2>1, <2>2
<1>8. After(v, 0) = After(w, 0)
  <2>1. \A k \in 1..(Len(w) - 1) : k > 0 <=> p(k) > 0
    BY <1>1
  <2>2. QED
    BY <1>1, <1>6, <2>1
<1> HIDE DEF p
<1>9. m \in [DOMAIN v -> DOMAIN w] /\ \A i \in DOMAIN v : m[i] = p(i)
  BY <1>1, <1>2, <1>3
<1> HIDE DEF m
<1>10. Thinned(w, v)
  <2>1. \A i \in DOMAIN v : v[i] = w[m[i]] /\ After(v, i) = After(w, m[i])
    BY <1>2, <1>7, <1>9
  <2>2. \A i, j \in DOMAIN v : m[i] = m[j] => i = j
    BY <1>2, <1>4, <1>9
  <2>3. QED
    BY <1>8, <1>9, <2>1, <2>2 DEF Thinned
<1>11. \A i \in DOMAIN v : \E j \in DOMAIN w \ {r} : v[i] = w[j]
  BY <1>1, <1>2, <1>3
<1>12. QED
  BY <1>2, <1>10, <1>11 DEF v
-----------------------------------------------------------------------------
(* What the daemon says *)

\* The signals of ForEach are messages, one at least about each name.
Tellers(v, S, type, list, act) ==
  /\ v \in Seq(Message)
  /\ \A i \in DOMAIN v : /\ v[i].type = type /\ v[i].to = "signals" /\ v[i].svc \in S
                         /\ v[i].list = list /\ v[i].active = act
  /\ \A s \in S : \E m \in After(v, 0) : m.type = type /\ m.svc = s /\ m.list = list /\ m.active = act

LEMMA Signalled ==
  ASSUME NEW S, NEW type, NEW list, NEW act, NEW v \in ForEach(S, type, list, act),
         S \subseteq Names, type \in {"owner", "changed", "invalidated"},
         list \in Lists \cup {{}}, act \in Profiles \cup {None}
  PROVE  Tellers(v, S, type, list, act)
<1>1. PICK o \in SeqOf(S, Len(Services)) :
        Range(o) = S /\ v = [i \in DOMAIN o |-> Msg(type, "signals", o[i], list, act)]
  BY DEF ForEach
<1>2. PICK n \in Nat : o \in [1..n -> S]
  BY ListsAssumption DEF SeqOf
<1>3. DOMAIN v = 1..n /\ \A i \in 1..n : v[i] = Msg(type, "signals", o[i], list, act) /\ o[i] \in S
  BY <1>1, <1>2
<1>4. \A i \in 1..n : v[i] \in Message
  BY <1>3 DEF Message, Msg
<1>5. v \in [1..n -> Message]
  BY <1>1, <1>3, <1>4
<1>6. v \in Seq(Message)
  BY <1>2, <1>5
<1>7. \A i \in DOMAIN v : /\ v[i].type = type /\ v[i].to = "signals" /\ v[i].svc \in S
                          /\ v[i].list = list /\ v[i].active = act
  BY <1>3 DEF Msg
<1>8. ASSUME NEW s \in S
      PROVE  \E m \in After(v, 0) : m.type = type /\ m.svc = s /\ m.list = list /\ m.active = act
  <2>1. PICK i \in 1..n : o[i] = s
    BY <1>1, <1>2 DEF Range
  <2>2. v[i].svc = s
    BY <1>3, <2>1 DEF Msg
  <2>3. v[i] \in After(v, 0)
    BY <1>3, <1>7 DEF After
  <2>4. QED
    BY <1>3, <1>7, <2>2, <2>3
<1>9. QED
  BY <1>6, <1>7, <1>8 DEF Tellers

\* What is said when the daemon changes: that it has, or its new values to everyone who
\* follows one of its names; and nothing that is not so.
Announces(v, on, all, now, on2, all2, now2) ==
  /\ \/ \E m \in After(v, 0) : Resets(m)
     \/ /\ on2 = on
        /\ \A s \in on : /\ all2 = all \/ \E m \in After(v, 0) : SaysList(m, s)
                         /\ now2 = now \/ \E m \in After(v, 0) : SaysActive(m, s)
  /\ \A i \in DOMAIN v : v[i].type \in {"changed", "reply"} =>
       v[i].svc \in on2 /\ v[i].list \in {{}, all2} /\ v[i].active \in {None, now2}

\* The daemon says v.
Says(v) ==
  /\ v \in Seq(Message)
  /\ wire' = IF closed THEN wire ELSE wire \o v
  /\ Announces(v, owned, dlist, dactive, owned', dlist', dactive')
  /\ \A i \in DOMAIN v : v[i].to = "signals" <=> v[i].type \notin {"reply", "error"}
  /\ UNCHANGED <<signals, closed, timeouts, pluginVars, watchVars, cmdVars, histVars>>

LEMMA Wordless ==
  ASSUME NEW S, S \subseteq Names, NEW type \in {"owner", "invalidated"},
         NEW v \in ForEach(S, type, {}, None)
  PROVE  /\ v \in Seq(Message) /\ \A i \in DOMAIN v : v[i].type = type /\ v[i].to = "signals"
         /\ S # {} => \E m \in After(v, 0) : m.type = type
<1>1. type \in {"owner", "changed", "invalidated"} /\ {} \in Lists \cup {{}} /\ None \in Profiles \cup {None}
  OBVIOUS
<1>2. Tellers(v, S, type, {}, None)
  BY <1>1, Signalled
<1>3. QED
  BY <1>2 DEF Tellers

LEMMA DaemonSays ==
  ASSUME TypeOK, DaemonStart \/ DaemonStop \/ DaemonChange
  PROVE  /\ \E v : Says(v) /\ \A i \in DOMAIN v : v[i].to = "signals"
         /\ owned' \subseteq Names /\ dlist' \in Lists /\ dactive' \in dlist'
         /\ events' \in 0..MaxEvents /\ UNCHANGED reqs
<1> USE DEF busVars, pluginVars, watchVars, cmdVars, histVars
<1>1. /\ owned \subseteq Names /\ dlist \in Lists /\ dactive \in dlist /\ events \in 0..MaxEvents
      /\ Lists \subseteq (SUBSET Profiles) \ {{}} /\ MaxEvents \in Nat /\ None \notin Profiles
  BY ListsAssumption, BoundsAssumption, NoneAssumption DEF TypeOK
<1>2. CASE DaemonStart
  <2>1. PICK v \in ForEach(owned', "owner", {}, None) : Emit(v)
    BY <1>2 DEF DaemonStart, EmitSome
  <2>2. owned' \subseteq Names /\ owned' # {} /\ dlist' \in Lists /\ dactive' \in dlist'
    BY <1>2 DEF DaemonStart
  <2>3. /\ v \in Seq(Message) /\ \E m \in After(v, 0) : m.type = "owner"
        /\ \A i \in DOMAIN v : v[i].type = "owner" /\ v[i].to = "signals"
    BY <2>1, <2>2, Wordless
  <2>4. Says(v)
    BY <1>2, <2>1, <2>3 DEF Says, Announces, Resets, DaemonStart, Emit
  <2>5. QED
    BY <1>1, <1>2, <2>2, <2>3, <2>4 DEF DaemonStart
<1>3. CASE DaemonStop
  <2>1. PICK v \in ForEach(owned, "owner", {}, None) : Emit(v)
    BY <1>3 DEF DaemonStop, EmitSome
  <2>2. owned' = {} /\ owned # {} /\ UNCHANGED <<dlist, dactive>>
    BY <1>3 DEF DaemonStop
  <2>3. /\ v \in Seq(Message) /\ \E m \in After(v, 0) : m.type = "owner"
        /\ \A i \in DOMAIN v : v[i].type = "owner" /\ v[i].to = "signals"
    BY <1>1, <2>1, <2>2, Wordless
  <2>4. Says(v)
    BY <1>3, <2>1, <2>3 DEF Says, Announces, Resets, DaemonStop, Emit
  <2>5. QED
    BY <1>1, <1>3, <2>2, <2>3, <2>4 DEF DaemonStop
<1>4. CASE DaemonChange
  <2> DEFINE list == IF dlist' = dlist THEN {} ELSE dlist'
             act  == IF dactive' = dactive THEN None ELSE dactive'
  <2>1. owned # {} /\ dlist' \in Lists /\ dactive' \in dlist' /\ UNCHANGED owned
    BY <1>4 DEF DaemonChange
  <2>2. ASSUME NEW v \in ForEach(owned, "changed", list, act), Emit(v)
        PROVE  Says(v) /\ \A i \in DOMAIN v : v[i].to = "signals"
    <3>1. list \in Lists \cup {{}} /\ act \in Profiles \cup {None}
      BY <1>1, <2>1
    <3>2. list \in {{}, dlist'} /\ act \in {None, dactive'}
      OBVIOUS
    <3>3. (dlist' = dlist \/ list # {}) /\ (dactive' = dactive \/ act # None)
      BY <1>1, <2>1
    <3> HIDE DEF list, act
    <3>4. /\ v \in Seq(Message)
          /\ \A i \in DOMAIN v : /\ v[i].type = "changed" /\ v[i].to = "signals"
                                 /\ v[i].svc \in owned /\ v[i].list = list /\ v[i].active = act
          /\ \A s \in owned : \E m \in After(v, 0) :
               m.type = "changed" /\ m.svc = s /\ m.list = list /\ m.active = act
      <4>1. "changed" \in {"owner", "changed", "invalidated"}
        OBVIOUS
      <4>2. Tellers(v, owned, "changed", list, act)
        BY <1>1, <2>2, <3>1, <4>1, Signalled
      <4>3. QED
        BY <4>2 DEF Tellers
    <3>5. Announces(v, owned, dlist, dactive, owned', dlist', dactive')
      BY <2>1, <3>2, <3>3, <3>4 DEF Announces, SaysList, SaysActive
    <3>6. QED
      BY <1>4, <2>2, <3>4, <3>5 DEF Says, DaemonChange, Emit
  <2>3. ASSUME NEW v \in ForEach(owned, "invalidated", {}, None), Emit(v)
        PROVE  Says(v) /\ \A i \in DOMAIN v : v[i].to = "signals"
    <3>1. /\ v \in Seq(Message) /\ \E m \in After(v, 0) : m.type = "invalidated"
          /\ \A i \in DOMAIN v : v[i].type = "invalidated" /\ v[i].to = "signals"
      BY <1>1, <2>1, <2>3, Wordless
    <3>2. QED
      BY <1>4, <2>3, <3>1 DEF Says, Announces, Resets, DaemonChange, Emit
  <2>4. \E v : Says(v) /\ \A i \in DOMAIN v : v[i].to = "signals"
    BY <1>4, <2>2, <2>3 DEF DaemonChange, EmitSome
  <2>5. QED
    BY <1>1, <1>4, <2>1, <2>4 DEF DaemonChange
<1>5. QED
  BY <1>2, <1>3, <1>4
Request == [to : Callers \cup {"nobody"}, what : {"all", "set", "get"}, svc : Names,
            val : Profiles \cup {None}]

\* An answer to r, if somebody waits for one.
Back(r, type, list, act) ==
  IF r.to = "nobody" THEN <<>> ELSE <<Msg(type, r.to, r.svc, list, act)>>

\* All in v but signals is one answer to r, with values if it has asked for them.
Replies(v, r) ==
  /\ \A i \in DOMAIN v : v[i].to # "signals" =>
       /\ r.to \in Callers /\ v[i].to = r.to /\ v[i].svc = r.svc
       /\ v[i].type = "reply" /\ r.what # "set" => v[i].list \in Lists /\ v[i].active \in Profiles
  /\ \A i, j \in DOMAIN v : v[i].to # "signals" /\ v[j].to # "signals" => i = j

LEMMA Backs ==
  ASSUME NEW r \in Request, NEW type, NEW list, NEW act, NEW v, v = Back(r, type, list, act),
         type = "reply" \/ type = "error", list \in Lists \cup {{}}, act \in Profiles \cup {None}
  PROVE  /\ v \in Seq(Message) /\ After(v, 0) = {}
         /\ \A i \in DOMAIN v : i = 1 /\ r.to \in Callers /\ v[i] = Msg(type, r.to, r.svc, list, act)
<1>1. CASE r.to = "nobody"
  <2>1. v = <<>> /\ DOMAIN v = {}
    BY <1>1 DEF Back
  <2>2. QED
    BY <2>1 DEF After
<1>2. CASE r.to # "nobody"
  <2> DEFINE m == Msg(type, r.to, r.svc, list, act)
  <2>1. r.to \in Callers /\ m \in Message /\ m.to = r.to
    BY <1>2 DEF Request, Message, Msg
  <2>2. v = <<m>>
    BY <1>2 DEF Back
  <2> HIDE DEF m
  <2>3. v \in Seq(Message) /\ DOMAIN v = {1} /\ v[1] = m
    BY <2>1, <2>2
  <2>4. After(v, 0) = {}
    BY <2>1, <2>3 DEF After, Callers
  <2>5. QED
    BY <2>1, <2>3, <2>4 DEF m
<1>3. QED
  BY <1>1, <1>2

LEMMA AnswerSays ==
  ASSUME TypeOK, NEW r \in reqs, Answer(r)
  PROVE  /\ \E v : Says(v) /\ Replies(v, r)
         /\ UNCHANGED <<owned, dlist, events>> /\ dactive' \in dlist /\ reqs' = reqs \ {r}
<1> USE DEF pluginVars, watchVars, cmdVars, histVars
<1>1. /\ owned \subseteq Names /\ dlist \in Lists /\ dactive \in dlist /\ dactive \in Profiles
      /\ r \in Request /\ None \notin Profiles /\ dlist \subseteq Profiles
  BY ListsAssumption, NoneAssumption DEF TypeOK, Request
<1>2. /\ UNCHANGED <<owned, dlist, events>> /\ reqs' = reqs \ {r}
      /\ UNCHANGED <<signals, closed, timeouts, pluginVars, watchVars, cmdVars, histVars>>
  BY DEF Answer
<1>3. ASSUME NEW v, v = Back(r, "error", {}, None), Emit(v), UNCHANGED dactive
      PROVE  Says(v) /\ Replies(v, r)
  <2>1. /\ v \in Seq(Message)
        /\ \A i \in DOMAIN v : i = 1 /\ r.to \in Callers /\ v[i] = Msg("error", r.to, r.svc, {}, None)
    <3>1. "error" \in {"reply", "error"} /\ {} \in Lists \cup {{}} /\ None \in Profiles \cup {None}
      OBVIOUS
    <3>2. v = Back(r, "error", {}, None) /\ r \in Request
      BY <1>1, <1>3
    <3>3. /\ v \in Seq(Message) /\ After(v, 0) = {}
          /\ \A i \in DOMAIN v : i = 1 /\ r.to \in Callers /\ v[i] = Msg("error", r.to, r.svc, {}, None)
      BY <3>1, <3>2, Backs
    <3>4. QED
      BY <3>3
  <2>2. \A i \in DOMAIN v : i = 1 /\ v[i].type = "error" /\ v[i].to = r.to /\ v[i].to # "signals"
                            /\ v[i].svc = r.svc
    BY <2>1 DEF Msg, Callers
  <2>3. Announces(v, owned, dlist, dactive, owned', dlist', dactive')
    BY <1>2, <1>3, <2>2 DEF Announces
  <2>4. QED
    BY <1>2, <1>3, <2>1, <2>2, <2>3 DEF Says, Replies, Emit
<1>4. ASSUME NEW v, v = Back(r, "reply", dlist, dactive), Emit(v), UNCHANGED dactive,
             r.svc \in owned, r.what # "set"
      PROVE  Says(v) /\ Replies(v, r)
  <2>1. /\ v \in Seq(Message)
        /\ \A i \in DOMAIN v : i = 1 /\ r.to \in Callers /\ v[i] = Msg("reply", r.to, r.svc, dlist, dactive)
    BY <1>1, <1>4, Backs
  <2>2. \A i \in DOMAIN v : /\ i = 1 /\ v[i].type = "reply" /\ v[i].to = r.to /\ v[i].to # "signals"
                            /\ v[i].svc = r.svc /\ v[i].list = dlist /\ v[i].active = dactive
    BY <2>1 DEF Msg, Callers
  <2>3. Announces(v, owned, dlist, dactive, owned', dlist', dactive')
    BY <1>2, <1>4, <2>2 DEF Announces
  <2>4. QED
    BY <1>1, <1>2, <1>4, <2>1, <2>2, <2>3 DEF Says, Replies, Emit
<1>5. ASSUME NEW b, b = Back(r, "reply", {}, None), r.svc \in owned, r.what = "set"
      PROVE  /\ b \in Seq(Message) /\ After(b, 0) = {}
             /\ \A i \in DOMAIN b : /\ i = 1 /\ r.to \in Callers /\ b[i].type = "reply"
                                    /\ b[i].to = r.to /\ b[i].to # "signals"
                                    /\ b[i].svc = r.svc /\ b[i].list = {} /\ b[i].active = None
  <2>1. /\ b \in Seq(Message) /\ After(b, 0) = {}
        /\ \A i \in DOMAIN b : i = 1 /\ r.to \in Callers /\ b[i] = Msg("reply", r.to, r.svc, {}, None)
    BY <1>1, <1>5, Backs
  <2>2. QED
    BY <2>1 DEF Msg, Callers
<1>6. ASSUME NEW b, b = Back(r, "reply", {}, None), Emit(b), UNCHANGED dactive,
             r.svc \in owned, r.what = "set"
      PROVE  Says(b) /\ Replies(b, r)
  <2>1. Announces(b, owned, dlist, dactive, owned', dlist', dactive')
    BY <1>2, <1>5, <1>6 DEF Announces
  <2>2. QED
    BY <1>2, <1>5, <1>6, <2>1 DEF Says, Replies, Emit
<1>7. ASSUME NEW t \in ForEach(owned, "changed", {}, r.val), NEW b, b = Back(r, "reply", {}, None),
             Emit(t \o b), dactive' = r.val, r.svc \in owned, r.what = "set", r.val \in dlist
      PROVE  Says(t \o b) /\ Replies(t \o b, r)
  <2> DEFINE v == t \o b
  <2>1. Tellers(t, owned, "changed", {}, r.val)
    <3>1. /\ "changed" \in {"owner", "changed", "invalidated"} /\ {} \in Lists \cup {{}}
          /\ r.val \in Profiles \cup {None} /\ owned \subseteq Names
      BY <1>1, <1>7
    <3>2. QED
      BY <1>7, <3>1, Signalled
  <2>2. /\ t \in Seq(Message)
        /\ \A i \in DOMAIN t : /\ t[i].type = "changed" /\ t[i].to = "signals"
                               /\ t[i].svc \in owned /\ t[i].list = {} /\ t[i].active = r.val
        /\ \A s \in owned : \E m \in After(t, 0) :
             m.type = "changed" /\ m.svc = s /\ m.list = {} /\ m.active = r.val
    BY <2>1 DEF Tellers
  <2>3. /\ b \in Seq(Message) /\ After(b, 0) = {}
        /\ \A i \in DOMAIN b : /\ i = 1 /\ r.to \in Callers /\ b[i].type = "reply"
                               /\ b[i].to = r.to /\ b[i].to # "signals"
                               /\ b[i].svc = r.svc /\ b[i].list = {} /\ b[i].active = None
    BY <1>5, <1>7
  <2>4. /\ v \in Seq(Message) /\ After(v, 0) = After(t, 0)
        /\ \A i \in DOMAIN v : i \in DOMAIN t \/ i - Len(t) \in DOMAIN b
        /\ \A i \in DOMAIN t : v[i] = t[i]
        /\ \A i \in DOMAIN b : v[Len(t) + i] = b[i]
        /\ Len(t) \in Nat /\ \A i \in DOMAIN v : i \in Nat
    <3>1. v \in Seq(Message) /\ Len(t) \in Nat /\ \A i \in DOMAIN v : i \in Nat
      BY <2>2, <2>3
    <3>2. /\ \A i \in DOMAIN v : i \in DOMAIN t \/ i - Len(t) \in DOMAIN b
          /\ \A i \in DOMAIN t : v[i] = t[i]
          /\ \A i \in DOMAIN b : v[Len(t) + i] = b[i]
          /\ After(v, 0) = After(t, 0) \cup After(b, 0)
      BY <2>2, <2>3, Joins
    <3>3. QED
      BY <2>3, <3>1, <3>2
  <2> HIDE DEF v
  <2>5. \A i \in DOMAIN v : i \notin DOMAIN t => i = Len(t) + 1 /\ 1 \in DOMAIN b /\ v[i] = b[1]
    <3>1. ASSUME NEW i \in DOMAIN v, i \notin DOMAIN t PROVE i = Len(t) + 1 /\ 1 \in DOMAIN b /\ v[i] = b[1]
      <4>1. i - Len(t) \in DOMAIN b
        BY <2>4, <3>1
      <4>2. i - Len(t) = 1
        BY <2>3, <4>1
      <4>3. QED
        BY <2>4, <4>1, <4>2
    <3>2. QED
      BY <3>1
  <2>6. \A i \in DOMAIN v :
          \/ /\ v[i].type = "changed" /\ v[i].to = "signals" /\ v[i].svc \in owned
             /\ v[i].list = {} /\ v[i].active = r.val
          \/ /\ i = Len(t) + 1 /\ v[i].type = "reply" /\ v[i].to = r.to /\ v[i].to # "signals"
             /\ r.to \in Callers /\ v[i].svc = r.svc /\ v[i].list = {} /\ v[i].active = None
    <3>1. ASSUME NEW i \in DOMAIN v, i \in DOMAIN t
          PROVE  /\ v[i].type = "changed" /\ v[i].to = "signals" /\ v[i].svc \in owned
                 /\ v[i].list = {} /\ v[i].active = r.val
      BY <2>2, <2>4, <3>1
    <3>2. ASSUME NEW i \in DOMAIN v, i \notin DOMAIN t
          PROVE  /\ i = Len(t) + 1 /\ v[i].type = "reply" /\ v[i].to = r.to /\ v[i].to # "signals"
                 /\ r.to \in Callers /\ v[i].svc = r.svc /\ v[i].list = {} /\ v[i].active = None
      BY <2>3, <2>5, <3>2
    <3>3. QED
      BY <3>1, <3>2
  <2>7. Announces(v, owned, dlist, dactive, owned', dlist', dactive')
    <3>1. \A s \in owned : \E m \in After(v, 0) : SaysActive(m, s)
      BY <1>1, <1>7, <2>2, <2>4 DEF SaysActive
    <3>2. \A i \in DOMAIN v : v[i].svc \in owned /\ v[i].list = {} /\ v[i].active \in {None, r.val}
      BY <1>7, <2>6
    <3>3. QED
      BY <1>2, <1>7, <3>1, <3>2 DEF Announces
  <2>8. Replies(v, r)
    BY <1>7, <2>6 DEF Replies
  <2>9. QED
    BY <1>2, <1>7, <2>4, <2>6, <2>7, <2>8 DEF Says, Emit, v
<1>8. \E v : Says(v) /\ Replies(v, r)
  <2>1. CASE r.svc \notin owned /\ Emit(Back(r, "error", {}, None)) /\ UNCHANGED dactive
    BY <1>3, <2>1
  <2>2. CASE r.svc \in owned /\ r.what # "set" /\ Emit(Back(r, "reply", dlist, dactive)) /\ UNCHANGED dactive
    BY <1>4, <2>2
  <2>3. CASE r.svc \in owned /\ r.what = "set" /\ Emit(Back(r, "error", {}, None)) /\ UNCHANGED dactive
    BY <1>3, <2>3
  <2>4. CASE /\ r.svc \in owned /\ r.what = "set" /\ r.val \in dlist /\ dactive' = r.val /\ dactive = r.val
             /\ Emit(Back(r, "reply", {}, None))
    BY <1>6, <2>4
  <2>5. ASSUME r.svc \in owned, r.what = "set", r.val \in dlist, dactive' = r.val,
               EmitSome({t \o Back(r, "reply", {}, None) : t \in ForEach(owned, "changed", {}, r.val)})
        PROVE  \E v : Says(v) /\ Replies(v, r)
    <3>1. PICK t \in ForEach(owned, "changed", {}, r.val) : Emit(t \o Back(r, "reply", {}, None))
      BY <2>5 DEF EmitSome
    <3>2. QED
      BY <1>7, <2>5, <3>1
  <2>6. QED
    BY <2>1, <2>2, <2>3, <2>4, <2>5 DEF Answer, Back
<1>9. dactive' \in dlist
  BY <1>1 DEF Answer
<1>10. QED
  BY <1>2, <1>8, <1>9
-----------------------------------------------------------------------------
(* Types *)

LEMMA InitTypeOK == Init => TypeOK
<1> SUFFICES ASSUME Init PROVE TypeOK
  OBVIOUS
<1>1. <<>> \in Seq(Message) /\ Len(<<>>) = 0 /\ 0 \in 0..MaxEvents /\ 0 \in 0..MaxCommands /\ 0 \in 0..MaxTimeouts
  BY BoundsAssumption
<1>2. 1 \in DOMAIN Services /\ Room \in Nat
  BY ListsAssumption, BoundsAssumption
<1>3. /\ owned \subseteq Names /\ dlist \in Lists /\ dactive \in dlist /\ reqs = {}
      /\ wire \in Seq(Message) /\ signals \in Seq(Message) /\ Len(signals) <= Room /\ closed \in BOOLEAN
  <2>1. owned \subseteq Names /\ dlist \in Lists /\ dactive \in dlist /\ reqs = {} /\ closed = FALSE
    BY DEF Init
  <2>2. wire = <<>> /\ signals = <<>>
    BY DEF Init
  <2>3. Len(<<>>) <= Room
    BY <1>1, <1>2
  <2>4. QED
    BY <1>1, <2>1, <2>2, <2>3
<1>4. /\ service = None /\ options \subseteq Profiles /\ active = None /\ avail = None
      /\ None # "online" /\ wpc = "new" /\ trying \in DOMAIN Services /\ got = <<>>
  BY <1>2, ListsAssumption DEF Init, None
<1>5. /\ hpc = "idle" /\ hcall = <<>> /\ newer = None /\ overtaken \in BOOLEAN
      /\ events \in 0..MaxEvents /\ commands \in 0..MaxCommands /\ timeouts \in 0..MaxTimeouts
  BY <1>1 DEF Init
<1>6. QED
  BY <1>3, <1>4, <1>5 DEF TypeOK

\* A sequence of at most one has one in it where it is taken from.
LEMMA OnlyOne ==
  ASSUME NEW T, NEW g \in {<<>>} \cup {<<t>> : t \in T}, g # <<>>
  PROVE  /\ g[1] \in T /\ g = <<g[1]>> /\ Range(g) = {g[1]}
<1>1. PICK t \in T : g = <<t>>
  OBVIOUS
<1>2. DOMAIN g = {1} /\ g[1] = t
  BY <1>1
<1>3. QED
  BY <1>1, <1>2 DEF Range

\* A caller that gives up leaves its Set at most, and its answer is lost.
LEMMA GivesUp ==
  ASSUME TypeOK, Kinds, NEW c \in Callers, GiveUp(c)
  PROVE  /\ reqs' \subseteq Request /\ timeouts' \in 0..MaxTimeouts
         /\ \A r \in reqs' : r.to # "nobody" => r \in reqs /\ r.to # c
         /\ wire' \in Seq(Message) /\ Thinned(wire, wire')
         /\ OneCall(c) => \A i \in DOMAIN wire' : wire'[i].to # c
<1>1. wire \in Seq(Message) /\ reqs \subseteq Request /\ timeouts \in 0..MaxTimeouts /\ MaxTimeouts \in Nat
  BY BoundsAssumption DEF TypeOK, Request
<1>2. timeouts' \in 0..MaxTimeouts
  BY <1>1 DEF GiveUp
<1>3. reqs' \subseteq Request /\ \A r \in reqs' : r.to # "nobody" => r \in reqs /\ r.to # c
  <2>1. \A r \in Request : [r EXCEPT !.to = "nobody"] \in Request /\ [r EXCEPT !.to = "nobody"].to = "nobody"
    BY DEF Request
  <2>2. QED
    BY <1>1, <2>1, ZenonT(40) DEF GiveUp
<1>4. CASE wire' = wire /\ \A i \in DOMAIN wire : wire[i].to # c
  BY <1>1, <1>2, <1>3, <1>4, SameThinned
<1>5. ASSUME NEW i \in DOMAIN wire, wire[i].to = c, wire' = RemoveAt(wire, i)
      PROVE  /\ wire' \in Seq(Message) /\ Thinned(wire, wire')
             /\ OneCall(c) => \A k \in DOMAIN wire' : wire'[k].to # c
  <2>1. /\ wire' \in Seq(Message) /\ Thinned(wire, wire')
        /\ \A k \in DOMAIN wire' : \E j \in DOMAIN wire \ {i} : wire'[k] = wire[j]
    <3>1. wire[i].to # "signals"
      BY <1>5 DEF Callers
    <3>2. QED
      BY <1>1, <1>5, <3>1, RemovedThinned
  <2>2. QED
    BY <1>5, <2>1 DEF OneCall
<1>6. (wire' = wire /\ \A i \in DOMAIN wire : wire[i].to # c)
      \/ \E i \in DOMAIN wire : wire[i].to = c /\ wire' = RemoveAt(wire, i)
  BY DEF GiveUp
<1>7. QED
  BY <1>2, <1>3, <1>4, <1>5, <1>6

LEMMA Calls ==
  ASSUME TypeOK, NEW c \in Callers, NEW what \in {"all", "set", "get"}, NEW svc \in Names,
         NEW val \in Profiles \cup {None}, reqs' = Call(c, what, svc, val)
  PROVE  /\ reqs' \subseteq Request
         /\ \A r \in reqs' : r \in reqs \/ (r.to = c /\ r.what = what /\ r.svc = svc)
BY DEF TypeOK, Call, Request

LEMMA StepTypeOK == TypeOK /\ CallInv /\ [Next]_vars => TypeOK'
<1> SUFFICES ASSUME TypeOK, CallInv, [Next]_vars PROVE TypeOK'
  OBVIOUS
<1> USE DEF daemonVars, busVars, pluginVars, watchVars, cmdVars, histVars
<1>1. /\ wire \in Seq(Message) /\ signals \in Seq(Message) /\ trying \in DOMAIN Services
      /\ Room \in Nat /\ MaxCommands \in Nat /\ commands \in 0..MaxCommands
      /\ Services \in Seq(STRING) /\ 1 \in DOMAIN Services /\ Names = Range(Services)
      /\ \A i \in DOMAIN Services : Services[i] \in Names
      /\ None \notin Profiles /\ None \notin Names /\ Lists \subseteq SUBSET Profiles
  BY ListsAssumption, BoundsAssumption, NoneAssumption DEF TypeOK, Names, Range
<1>2. CASE DaemonStart \/ DaemonStop \/ DaemonChange
  <2>1. /\ owned' \subseteq Names /\ dlist' \in Lists /\ dactive' \in dlist'
        /\ events' \in 0..MaxEvents /\ UNCHANGED reqs
    BY <1>2, DaemonSays
  <2>2. PICK v : Says(v)
    BY <1>2, DaemonSays
  <2>3. wire' \in Seq(Message)
    BY <1>1, <2>2 DEF Says
  <2>4. QED
    BY <2>1, <2>2, <2>3 DEF TypeOK, Says
<1>3. ASSUME NEW r \in reqs, Answer(r) PROVE TypeOK'
  <2>1. UNCHANGED <<owned, dlist, events>> /\ dactive' \in dlist /\ reqs' = reqs \ {r}
    BY <1>3, AnswerSays
  <2>2. PICK v : Says(v)
    BY <1>3, AnswerSays
  <2>3. wire' \in Seq(Message)
    BY <1>1, <2>2 DEF Says
  <2>4. QED
    BY <2>1, <2>2, <2>3 DEF TypeOK, Says
<1>4. CASE DeliverSignal
  <2>1. wire # <<>> /\ wire' = Tail(wire) /\ Len(signals) < Room /\ signals' = Append(signals, wire[1])
    BY <1>4 DEF DeliverSignal
  <2>2. wire' \in Seq(Message) /\ wire[1] \in Message
    BY <1>1, <2>1, Tails
  <2>3. signals' \in Seq(Message) /\ Len(signals') <= Room
    BY <1>1, <2>1, <2>2
  <2>4. QED
    BY <1>4, <2>2, <2>3 DEF TypeOK, DeliverSignal
<1>5. CASE StartLoad
  BY <1>1, <1>5 DEF TypeOK, StartLoad
<1>6. CASE LoadCall
  <2>1. reqs' \subseteq Request
    <3>1. "watch" \in Callers /\ "all" \in {"all", "set", "get"} /\ None \in Profiles \cup {None}
      BY DEF Callers
    <3>2. QED
      BY <1>1, <1>6, <3>1, Calls DEF LoadCall
  <2>2. QED
    BY <1>6, <2>1 DEF TypeOK, LoadCall, Request
<1>7. CASE LoadReply
  <2>1. wire # <<>> /\ wire' = Tail(wire) /\ wire[1].to = "watch" /\ wire[1].type = "reply"
    BY <1>7 DEF LoadReply, Replied
  <2>2. wire' \in Seq(Message) /\ 1 \in DOMAIN wire
    BY <1>1, <2>1, Tails
  <2>3. [svc |-> Services[trying], list |-> wire[1].list, active |-> wire[1].active] \in Snapshot
    BY <1>1, <2>1, <2>2 DEF CallInv, WatchCalls, Snapshot
  <2>4. got' \in {<<s>> : s \in Snapshot}
    BY <1>7, <2>3 DEF LoadReply
  <2>5. QED
    BY <1>7, <2>2, <2>4 DEF TypeOK, LoadReply
<1>8. CASE LoadError
  <2>1. wire' \in Seq(Message) /\ reqs' \subseteq Request /\ timeouts' \in 0..MaxTimeouts
    <3>1. CASE Replied("watch", "error") /\ wire' = Tail(wire) /\ UNCHANGED <<reqs, timeouts>>
      BY <1>1, <3>1, Tails DEF Replied, TypeOK, Request
    <3>2. CASE GiveUp("watch")
      BY <3>2, GivesUp DEF CallInv, Callers
    <3>3. QED
      BY <1>8, <3>1, <3>2 DEF LoadError
  <2>2. trying' \in DOMAIN Services /\ wpc' \in {"call", "apply"}
    BY <1>1, <1>8 DEF LoadError
  <2>3. QED
    BY <1>8, <2>1, <2>2 DEF TypeOK, LoadError, Request
<1>9. CASE Apply
  <2>1. CASE got = <<>> /\ service' = None /\ avail' = "unavailable" /\ UNCHANGED <<options, active, histVars>>
    BY <1>9, <2>1 DEF TypeOK, Apply
  <2>2. ASSUME NEW s \in Range(got), service' = s.svc, options' = s.list, avail' = "online", Shows(s.active)
        PROVE  TypeOK'
    <3>1. s \in Snapshot
      <4>1. got # <<>>
        BY <2>2 DEF Range
      <4>2. QED
        BY <2>2, <4>1, OnlyOne DEF TypeOK
    <3>2. s.svc \in Names /\ s.list \subseteq Profiles /\ s.active \in Profiles
      BY <1>1, <3>1 DEF Snapshot
    <3>3. QED
      BY <1>1, <1>9, <2>2, <3>2 DEF TypeOK, Apply, Shows
  <2>3. QED
    BY <1>9, <2>1, <2>2 DEF Apply
<1>10. CASE WatchReload
  <2>1. signals' \in Seq(Message) /\ Len(signals') <= Room
    BY <1>1, <1>10 DEF WatchReload, TypeOK
  <2>2. QED
    BY <1>1, <1>10, <2>1 DEF TypeOK, WatchReload
<1>11. CASE WatchChange
  <2>1. signals' \in Seq(Message) /\ Len(signals') <= Room
    BY <1>1, <1>11 DEF WatchChange, TypeOK
  <2>2. signals[1] \in Message
    BY <1>1, <1>11, Tails DEF WatchChange
  <2>3. options' \subseteq Profiles
    BY <1>1, <1>11, <2>2 DEF WatchChange, TypeOK, Message
  <2>4. active' \in Profiles \cup {None} /\ newer' \in Profiles \cup {None} /\ overtaken' \in BOOLEAN
        /\ (service # None => active' # None)
    BY <1>1, <1>11, <2>2 DEF WatchChange, Shows, TypeOK, Message
  <2>5. QED
    BY <1>11, <2>1, <2>3, <2>4 DEF TypeOK, WatchChange
<1>12. CASE WatchTick
  BY <1>1, <1>12 DEF TypeOK, WatchTick
<1>13. CASE WatchExit
  BY <1>13 DEF TypeOK, WatchExit
<1>14. CASE Stop
  <2>1. reqs' \subseteq Request
    BY <1>14, SMTT(30) DEF TypeOK, Stop, Request
  <2>2. QED
    BY <1>14, <2>1 DEF TypeOK, Stop, Request
<1>15. ASSUME NEW val \in Profiles, Command(val) PROVE TypeOK'
  <2>1. service \in Names /\ commands' \in 0..MaxCommands
    BY <1>1, <1>15 DEF TypeOK, Command
  <2>2. reqs' \subseteq Request
    <3>1. "cmd" \in Callers /\ "set" \in {"all", "set", "get"} /\ val \in Profiles \cup {None}
      BY DEF Callers
    <3>2. QED
      BY <1>15, <2>1, <3>1, Calls DEF Command
  <2>3. hcall' \in {<<c>> : c \in [svc : Names, val : Profiles]}
    BY <1>15, <2>1 DEF Command
  <2>4. QED
    BY <1>15, <2>1, <2>2, <2>3 DEF TypeOK, Command, Request
<1>16. CASE SetReply
  <2>1. wire # <<>> /\ wire' = Tail(wire) /\ hcall # <<>>
    BY <1>16 DEF SetReply, Replied, CallInv, Holds
  <2>2. wire' \in Seq(Message)
    BY <1>1, <2>1, Tails
  <2>3. hcall[1] \in [svc : Names, val : Profiles]
    BY <2>1, OnlyOne DEF TypeOK
  <2>4. reqs' \subseteq Request
    <3>1. /\ "cmd" \in Callers /\ "get" \in {"all", "set", "get"} /\ None \in Profiles \cup {None}
          /\ hcall[1].svc \in Names
      BY <2>3 DEF Callers
    <3>2. QED
      BY <1>16, <3>1, Calls DEF SetReply
  <2>5. QED
    BY <1>16, <2>2, <2>4 DEF TypeOK, SetReply, Request
<1>17. CASE GetReply
  <2>1. wire # <<>> /\ wire' = Tail(wire) /\ wire[1].to = "cmd" /\ wire[1].type = "reply" /\ hpc = "get" /\ hcall # <<>>
    BY <1>17 DEF GetReply, Replied, CallInv, Holds
  <2>2. wire' \in Seq(Message) /\ 1 \in DOMAIN wire
    BY <1>1, <2>1, Tails
  <2>3. hcall[1] \in [svc : Names, val : Profiles]
    BY <2>1, OnlyOne DEF TypeOK
  <2>4. wire[1].active \in Profiles
    BY <2>1, <2>2 DEF CallInv, CommandCalls
  <2>5. [hcall[1] EXCEPT !.val = wire[1].active] \in [svc : Names, val : Profiles]
    BY <2>3, <2>4
  <2>6. hcall' \in {<<c>> : c \in [svc : Names, val : Profiles]}
    BY <1>17, <2>5 DEF GetReply
  <2>7. QED
    BY <1>17, <2>2, <2>6 DEF TypeOK, GetReply
<1>18. CASE CommandError
  <2>1. wire' \in Seq(Message) /\ reqs' \subseteq Request /\ timeouts' \in 0..MaxTimeouts
    <3>1. CASE Replied("cmd", "error") /\ wire' = Tail(wire) /\ UNCHANGED <<reqs, timeouts>>
      BY <1>1, <3>1, Tails DEF Replied, TypeOK, Request
    <3>2. CASE GiveUp("cmd")
      BY <3>2, GivesUp DEF CallInv, Callers
    <3>3. QED
      BY <1>18, <3>1, <3>2 DEF CommandError
  <2>2. QED
    BY <1>18, <2>1 DEF TypeOK, CommandError, Request
<1>19. CASE CommandPublish
  <2>1. hcall[1] \in [svc : Names, val : Profiles]
    BY <1>19, OnlyOne DEF TypeOK, CommandPublish, CallInv, Holds
  <2>2. hcall[1].val \in Profiles
    BY <2>1
  <2>3. active' \in Profiles \cup {None} /\ overtaken' \in BOOLEAN /\ (service # None => active' # None)
    BY <1>1, <1>19, <2>2 DEF TypeOK, CommandPublish
  <2>4. QED
    BY <1>19, <2>3 DEF TypeOK, CommandPublish
<1>20. CASE UNCHANGED vars
  BY <1>20 DEF TypeOK, vars
<1>21. QED
  BY <1>2, <1>3, <1>4, <1>5, <1>6, <1>7, <1>8, <1>9, <1>10, <1>11, <1>12, <1>13, <1>14, <1>15,
     <1>16, <1>17, <1>18, <1>19, <1>20 DEF Next, LoadStep, WatchStep, CommandStep
-----------------------------------------------------------------------------
(* Calls *)

LEMMA InitCalls == Init => CallInv
BY DEF Init, CallInv, OneCall, WatchCalls, CommandCalls, Kinds, Holds

\* v is a part of w.
Part(w, v) ==
  \E m \in [DOMAIN v -> DOMAIN w] :
    /\ \A i \in DOMAIN v : v[i] = w[m[i]]
    /\ \A i, j \in DOMAIN v : m[i] = m[j] => i = j

LEMMA ThinnedPart ==
  ASSUME NEW w, NEW v, Thinned(w, v)
  PROVE  Part(w, v)
BY DEF Thinned, Part

LEMMA TailPart ==
  ASSUME NEW T, NEW w \in Seq(T), w # <<>>
  PROVE  /\ Part(w, Tail(w)) /\ 1 \in DOMAIN w
         /\ \A i \in DOMAIN Tail(w) : \E j \in DOMAIN w : j # 1 /\ Tail(w)[i] = w[j]
<1> DEFINE m == [i \in DOMAIN Tail(w) |-> i + 1]
<1>1. /\ m \in [DOMAIN Tail(w) -> DOMAIN w] /\ \A i \in DOMAIN Tail(w) : m[i] = i + 1
      /\ \A i \in DOMAIN Tail(w) : Tail(w)[i] = w[i + 1] /\ i + 1 \in DOMAIN w /\ i + 1 # 1
      /\ 1 \in DOMAIN w
  BY Tails
<1>2. DOMAIN Tail(w) \subseteq Nat
  <2>1. Tail(w) \in Seq(T)
    BY Tails
  <2>2. QED
    BY <2>1
<1> HIDE DEF m
<1>3. Part(w, Tail(w))
  BY <1>1, <1>2 DEF Part
<1>4. QED
  BY <1>1, <1>3

\* Calls stay single when messages are taken off the wire and no call is made.
LEMMA PartCalls ==
  ASSUME OneCall("watch"), OneCall("cmd"), Kinds, Part(wire, wire'),
         \A i \in DOMAIN signals' : signals'[i].to = "signals",
         \A r \in reqs' : r.to # "nobody" => r \in reqs
  PROVE  /\ OneCall("watch")' /\ OneCall("cmd")' /\ Kinds'
         /\ \A i \in DOMAIN wire' : \E j \in DOMAIN wire : wire'[i] = wire[j]
<1>1. PICK m \in [DOMAIN wire' -> DOMAIN wire] :
        /\ \A i \in DOMAIN wire' : wire'[i] = wire[m[i]]
        /\ \A i, j \in DOMAIN wire' : m[i] = m[j] => i = j
  BY DEF Part
<1>2. \A i \in DOMAIN wire' : m[i] \in DOMAIN wire
  BY <1>1
<1>3. ASSUME NEW c \in {"watch", "cmd"}, OneCall(c) PROVE OneCall(c)'
  <2>1. \A q, r \in reqs' : q.to = c /\ r.to = c => q = r
    BY <1>3 DEF OneCall
  <2>2. \A i, j \in DOMAIN wire' : wire'[i].to = c /\ wire'[j].to = c => i = j
    BY <1>1, <1>2, <1>3 DEF OneCall
  <2>3. \A r \in reqs', i \in DOMAIN wire' : r.to = c => wire'[i].to # c
    BY <1>1, <1>2, <1>3 DEF OneCall
  <2>4. QED
    BY <2>1, <2>2, <2>3 DEF OneCall
<1>4. Kinds'
  BY <1>1, <1>2 DEF Kinds
<1>5. QED
  BY <1>1, <1>2, <1>3, <1>4

\* What the daemon says adds answers only to requests it has answered.
LEMMA SaidCalls ==
  ASSUME TypeOK, CallInv, NEW v, Says(v), reqs' \subseteq reqs,
         \A i \in DOMAIN v : v[i].to # "signals" =>
           \E r \in reqs \ reqs' : /\ v[i].to = r.to /\ v[i].svc = r.svc
                                   /\ v[i].type = "reply" /\ r.what # "set" =>
                                        v[i].list \in Lists /\ v[i].active \in Profiles,
         \A i, j \in DOMAIN v : v[i].to # "signals" /\ v[j].to # "signals" => i = j
  PROVE  CallInv'
<1>1. wire \in Seq(Message) /\ v \in Seq(Message) /\ UNCHANGED <<signals, pluginVars, watchVars, cmdVars>>
  BY DEF TypeOK, Says
<1>2. CASE closed
  <2>1. wire' = wire
    BY <1>2 DEF Says
  <2>2. QED
    BY <1>1, <2>1 DEF CallInv, OneCall, WatchCalls, CommandCalls, Kinds, Holds, pluginVars, watchVars, cmdVars
<1>3. CASE ~closed
  <2> DEFINE n == Len(wire)
  <2>1. wire' = wire \o v
    BY <1>3 DEF Says
  <2>2. /\ \A k \in DOMAIN wire' : k \in DOMAIN wire \/ k - n \in DOMAIN v
        /\ \A k \in DOMAIN wire : wire'[k] = wire[k]
        /\ \A i \in DOMAIN v : wire'[n + i] = v[i]
    BY <1>1, <2>1, Joins
  <2>3. n \in Nat /\ DOMAIN wire' \subseteq Nat
    <3>1. wire' \in Seq(Message)
      BY <1>1, <2>1
    <3>2. QED
      BY <1>1, <3>1
  <2> HIDE DEF n
  <2>4. \A k \in DOMAIN wire' : k \in DOMAIN wire \/ (k - n \in DOMAIN v /\ wire'[k] = v[k - n])
    <3>1. ASSUME NEW k \in DOMAIN wire', k - n \in DOMAIN v PROVE wire'[k] = v[k - n]
      <4>1. n + (k - n) = k
        BY <2>3
      <4>2. QED
        BY <2>2, <3>1, <4>1
    <3>2. QED
      BY <2>2, <3>1
  <2>5. ASSUME NEW c \in {"watch", "cmd"}, OneCall(c) PROVE OneCall(c)'
    <3>1. \A q, r \in reqs' : q.to = c /\ r.to = c => q = r
      BY <2>5 DEF OneCall
    <3>2. \A i \in DOMAIN v : v[i].to = c => \E r \in reqs \ reqs' : r.to = c
      BY <2>5
    <3>3. ASSUME NEW i \in DOMAIN wire', NEW j \in DOMAIN wire', wire'[i].to = c, wire'[j].to = c
          PROVE  i = j
      <4>1. CASE i \in DOMAIN wire /\ j \in DOMAIN wire
        BY <2>2, <2>5, <3>3, <4>1 DEF OneCall
      <4>2. CASE i \notin DOMAIN wire /\ j \notin DOMAIN wire
        <5>1. i - n = j - n
          BY <2>4, <2>5, <3>3, <4>2
        <5>2. QED
          BY <2>3, <5>1
      <4>3. CASE i \in DOMAIN wire /\ j \notin DOMAIN wire
        BY <2>2, <2>4, <2>5, <3>2, <3>3, <4>3 DEF OneCall
      <4>4. CASE i \notin DOMAIN wire /\ j \in DOMAIN wire
        BY <2>2, <2>4, <2>5, <3>2, <3>3, <4>4 DEF OneCall
      <4>5. QED
        BY <4>1, <4>2, <4>3, <4>4
    <3>4. ASSUME NEW r \in reqs', NEW i \in DOMAIN wire', r.to = c PROVE wire'[i].to # c
      <4>1. CASE i \in DOMAIN wire
        BY <2>2, <2>5, <3>4, <4>1 DEF OneCall
      <4>2. CASE i \notin DOMAIN wire
        BY <2>4, <2>5, <3>2, <3>4, <4>2 DEF OneCall
      <4>3. QED
        BY <4>1, <4>2
    <3>5. QED
      BY <3>1, <3>3, <3>4 DEF OneCall
  <2>6. WatchCalls'
    <3>1. \A r \in reqs' : r.to = "watch" => (wpc = "wait" /\ r.what = "all" /\ r.svc = Services[trying])'
      BY <1>1 DEF CallInv, WatchCalls, watchVars
    <3>2. ASSUME NEW i \in DOMAIN wire', wire'[i].to = "watch"
          PROVE  /\ wpc = "wait" /\ wire'[i].svc = Services[trying]
                 /\ wire'[i].type = "reply" => wire'[i].list \in Lists /\ wire'[i].active \in Profiles
      <4>1. CASE i \in DOMAIN wire
        BY <2>2, <3>2, <4>1 DEF CallInv, WatchCalls
      <4>2. CASE i \notin DOMAIN wire
        <5>1. i - n \in DOMAIN v /\ wire'[i] = v[i - n]
          BY <2>4, <4>2
        <5>2. PICK r \in reqs : /\ r.to = "watch" /\ wire'[i].svc = r.svc
                                /\ wire'[i].type = "reply" /\ r.what # "set" =>
                                     wire'[i].list \in Lists /\ wire'[i].active \in Profiles
          BY <3>2, <5>1
        <5>3. wpc = "wait" /\ r.what = "all" /\ r.svc = Services[trying]
          BY <5>2 DEF CallInv, WatchCalls
        <5>4. QED
          BY <5>2, <5>3
      <4>3. QED
        BY <4>1, <4>2
    <3>3. QED
      BY <1>1, <3>1, <3>2 DEF WatchCalls, watchVars
  <2>7. CommandCalls'
    <3>1. \A r \in reqs' : r.to = "cmd" => (hpc \in {"set", "get"} /\ r.what = hpc /\ r.svc = hcall[1].svc)'
      BY <1>1 DEF CallInv, CommandCalls, cmdVars
    <3>2. ASSUME NEW i \in DOMAIN wire', wire'[i].to = "cmd"
          PROVE  /\ hpc \in {"set", "get"} /\ wire'[i].svc = hcall[1].svc
                 /\ wire'[i].type = "reply" /\ hpc = "get" => wire'[i].active \in Profiles
      <4>1. CASE i \in DOMAIN wire
        BY <2>2, <3>2, <4>1 DEF CallInv, CommandCalls
      <4>2. CASE i \notin DOMAIN wire
        <5>1. i - n \in DOMAIN v /\ wire'[i] = v[i - n]
          BY <2>4, <4>2
        <5>2. PICK r \in reqs : /\ r.to = "cmd" /\ wire'[i].svc = r.svc
                                /\ wire'[i].type = "reply" /\ r.what # "set" =>
                                     wire'[i].list \in Lists /\ wire'[i].active \in Profiles
          BY <3>2, <5>1
        <5>3. hpc \in {"set", "get"} /\ r.what = hpc /\ r.svc = hcall[1].svc
          BY <5>2 DEF CallInv, CommandCalls
        <5>4. QED
          BY <5>2, <5>3
      <4>3. QED
        BY <4>1, <4>2
    <3>3. QED
      BY <1>1, <3>1, <3>2 DEF CommandCalls, cmdVars
  <2>8. Kinds'
    <3>1. \A i \in DOMAIN wire' : wire'[i].to = "signals" <=> wire'[i].type \notin {"reply", "error"}
      BY <2>2, <2>4 DEF CallInv, Kinds, Says
    <3>2. QED
      BY <1>1, <3>1 DEF CallInv, Kinds
  <2>9. Holds'
    BY <1>1 DEF CallInv, Holds, pluginVars, watchVars, cmdVars
  <2>10. QED
    BY <2>5, <2>6, <2>7, <2>8, <2>9 DEF CallInv
<1>4. QED
  BY <1>2, <1>3
LEMMA StepCalls == TypeOK /\ CallInv /\ [Next]_vars => CallInv'
<1> SUFFICES ASSUME TypeOK, CallInv, [Next]_vars PROVE CallInv'
  OBVIOUS
<1> USE DEF daemonVars, busVars, pluginVars, watchVars, cmdVars, histVars
<1>1. /\ wire \in Seq(Message) /\ signals \in Seq(Message) /\ reqs \subseteq Request
      /\ OneCall("watch") /\ OneCall("cmd") /\ WatchCalls /\ CommandCalls /\ Kinds /\ Holds
  BY DEF TypeOK, CallInv, Request
<1>2. /\ \A i \in DOMAIN signals : signals[i].to = "signals"
      /\ \A i \in DOMAIN wire : wire[i].to = "watch" => wpc = "wait"
      /\ \A i \in DOMAIN wire : wire[i].to = "cmd" => hpc \in {"set", "get"}
      /\ \A r \in reqs : r.to = "watch" => wpc = "wait"
      /\ \A r \in reqs : r.to = "cmd" => hpc \in {"set", "get"}
  BY <1>1 DEF Kinds, WatchCalls, CommandCalls
<1>3. CASE DaemonStart \/ DaemonStop \/ DaemonChange
  <2>1. PICK v : Says(v) /\ \A i \in DOMAIN v : v[i].to = "signals"
    BY <1>3, DaemonSays
  <2>2. UNCHANGED reqs
    BY <1>3, DaemonSays
  <2>3. QED
    BY <2>1, <2>2, SaidCalls
<1>4. ASSUME NEW r \in reqs, Answer(r) PROVE CallInv'
  <2>1. PICK v : Says(v) /\ Replies(v, r)
    BY <1>4, AnswerSays
  <2>2. reqs' = reqs \ {r}
    BY <1>4, AnswerSays
  <2>3. /\ reqs' \subseteq reqs /\ r \in reqs \ reqs'
        /\ \A i, j \in DOMAIN v : v[i].to # "signals" /\ v[j].to # "signals" => i = j
    BY <2>1, <2>2 DEF Replies
  <2>4. \A i \in DOMAIN v : v[i].to # "signals" =>
           \E q \in reqs \ reqs' : /\ v[i].to = q.to /\ v[i].svc = q.svc
                                   /\ v[i].type = "reply" /\ q.what # "set" =>
                                        v[i].list \in Lists /\ v[i].active \in Profiles
    BY <2>1, <2>3 DEF Replies
  <2>5. QED
    BY <2>1, <2>3, <2>4, SaidCalls
\* What a plugin step does to calls that are not its own.
<1>5. ASSUME Part(wire, wire'), \A i \in DOMAIN signals' : signals'[i].to = "signals",
             \A r \in reqs' : r.to # "nobody" => r \in reqs,
             UNCHANGED watchVars \/ ((\A r \in reqs' : r.to # "watch") /\ \A i \in DOMAIN wire' : wire'[i].to # "watch"),
             UNCHANGED cmdVars \/ ((\A r \in reqs' : r.to # "cmd") /\ \A i \in DOMAIN wire' : wire'[i].to # "cmd"),
             Holds'
      PROVE  CallInv'
  <2>1. /\ OneCall("watch")' /\ OneCall("cmd")' /\ Kinds'
        /\ \A i \in DOMAIN wire' : \E j \in DOMAIN wire : wire'[i] = wire[j]
    BY <1>1, <1>5, PartCalls
  <2>2. WatchCalls'
    <3>1. CASE UNCHANGED watchVars
      BY <1>1, <1>5, <2>1, <3>1 DEF WatchCalls
    <3>2. QED
      BY <1>5, <3>1 DEF WatchCalls
  <2>3. CommandCalls'
    <3>1. CASE UNCHANGED cmdVars
      BY <1>1, <1>5, <2>1, <3>1 DEF CommandCalls
    <3>2. QED
      BY <1>5, <3>1 DEF CommandCalls
  <2>4. QED
    BY <1>5, <2>1, <2>2, <2>3 DEF CallInv
<1>6. Part(wire, wire)
  BY SameThinned, ThinnedPart
<1>7. wpc # "wait" => (\A r \in reqs : r.to # "watch") /\ \A i \in DOMAIN wire : wire[i].to # "watch"
  BY <1>2
<1>8. hpc \notin {"set", "get"} => (\A r \in reqs : r.to # "cmd") /\ \A i \in DOMAIN wire : wire[i].to # "cmd"
  BY <1>2
\* The first message is taken.
<1>9. ASSUME NEW c \in {"watch", "cmd"}, wire # <<>>, wire[1].to = c, wire' = Tail(wire)
      PROVE  /\ Part(wire, wire')
             /\ (\A r \in reqs : r.to # c) /\ \A i \in DOMAIN wire' : wire'[i].to # c
  <2>1. /\ Part(wire, wire') /\ 1 \in DOMAIN wire
        /\ \A i \in DOMAIN wire' : \E j \in DOMAIN wire : j # 1 /\ wire'[i] = wire[j]
    BY <1>1, <1>9, TailPart
  <2>2. OneCall(c)
    BY <1>1, <1>9
  <2>3. QED
    BY <1>9, <2>1, <2>2 DEF OneCall
\* A call ends, without an answer.
<1>10. ASSUME NEW c \in {"watch", "cmd"}, GiveUp(c)
       PROVE  /\ Part(wire, wire') /\ \A r \in reqs' : r.to # "nobody" => r \in reqs
              /\ (\A r \in reqs' : r.to # c) /\ \A i \in DOMAIN wire' : wire'[i].to # c
  <2>1. c \in Callers /\ OneCall(c) /\ c # "nobody"
    BY <1>1, <1>10 DEF Callers
  <2>2. /\ \A r \in reqs' : r.to # "nobody" => r \in reqs /\ r.to # c
        /\ Thinned(wire, wire') /\ \A i \in DOMAIN wire' : wire'[i].to # c
    BY <1>1, <1>10, <2>1, GivesUp
  <2>3. QED
    BY <2>1, <2>2, ThinnedPart
\* A call is made, while there is none.
<1>11. ASSUME NEW c \in {"watch", "cmd"}, NEW what \in {"all", "set", "get"}, NEW svc, NEW val,
              reqs' = Call(c, what, svc, val), \A r \in reqs : r.to # c,
              Part(wire, wire'), \A i \in DOMAIN wire' : wire'[i].to # c, UNCHANGED signals
       PROVE  /\ OneCall("watch")' /\ OneCall("cmd")' /\ Kinds'
              /\ \A i \in DOMAIN wire' : \E j \in DOMAIN wire : wire'[i] = wire[j]
              /\ \A r \in reqs' : r \in reqs \/ (r.to = c /\ r.what = what /\ r.svc = svc)
  <2>1. PICK m \in [DOMAIN wire' -> DOMAIN wire] :
          /\ \A i \in DOMAIN wire' : wire'[i] = wire[m[i]]
          /\ \A i, j \in DOMAIN wire' : m[i] = m[j] => i = j
    BY <1>11 DEF Part
  <2>2. \A i \in DOMAIN wire' : m[i] \in DOMAIN wire
    BY <2>1
  <2>3. \A r \in reqs' : r \in reqs \/ (r.to = c /\ r.what = what /\ r.svc = svc)
    BY <1>11 DEF Call
  <2>4. \A q, r \in reqs' : q.to = c /\ r.to = c => q = r
    BY <1>11 DEF Call
  <2>5. ASSUME NEW d \in {"watch", "cmd"}, OneCall(d) PROVE OneCall(d)'
    <3>1. \A q, r \in reqs' : q.to = d /\ r.to = d => q = r
      BY <2>3, <2>4, <2>5 DEF OneCall
    <3>2. \A i, j \in DOMAIN wire' : wire'[i].to = d /\ wire'[j].to = d => i = j
      BY <2>1, <2>2, <2>5 DEF OneCall
    <3>3. \A r \in reqs', i \in DOMAIN wire' : r.to = d => wire'[i].to # d
      BY <1>11, <2>1, <2>2, <2>3, <2>5 DEF OneCall
    <3>4. QED
      BY <3>1, <3>2, <3>3 DEF OneCall
  <2>6. Kinds'
    BY <1>1, <1>11, <2>1, <2>2 DEF Kinds
  <2>7. QED
    BY <1>1, <2>1, <2>2, <2>3, <2>5, <2>6
<1>12. CASE DeliverSignal
  <2>1. wire # <<>> /\ wire' = Tail(wire) /\ wire[1].to = "signals" /\ signals' = Append(signals, wire[1])
    BY <1>12 DEF DeliverSignal
  <2>2. Part(wire, wire') /\ wire[1] \in Message
    BY <1>1, <2>1, TailPart
  <2>3. \A i \in DOMAIN signals' : signals'[i].to = "signals"
    <3>1. \A i \in DOMAIN signals' : i \in DOMAIN signals \/ i = Len(signals) + 1
      BY <1>1, <2>1, <2>2
    <3>2. \A i \in DOMAIN signals' : signals'[i] = IF i \in DOMAIN signals THEN signals[i] ELSE wire[1]
      BY <1>1, <2>1, <2>2
    <3>3. QED
      BY <1>2, <2>1, <3>1, <3>2
  <2>4. UNCHANGED <<reqs, watchVars, cmdVars, pluginVars>>
    BY <1>12 DEF DeliverSignal
  <2>5. Holds'
    BY <1>1, <2>4 DEF Holds
  <2>6. QED
    BY <1>5, <2>2, <2>3, <2>4, <2>5
<1>13. CASE StartLoad \/ Apply \/ WatchReload \/ WatchTick \/ WatchExit
  <2>1. UNCHANGED <<reqs, wire, cmdVars>> /\ wpc # "wait"
    BY <1>13 DEF StartLoad, Apply, WatchReload, WatchTick, WatchExit
  <2>2. \A i \in DOMAIN signals' : signals'[i].to = "signals"
    <3>1. CASE WatchReload
      BY <1>1, <1>2, <3>1, TailPart DEF WatchReload
    <3>2. CASE ~WatchReload
      BY <1>2, <1>13, <3>2 DEF StartLoad, Apply, WatchTick, WatchExit
    <3>3. QED
      BY <3>1, <3>2
  <2>3. Holds'
    <3>1. CASE Apply
      <4>1. CASE got = <<>> /\ service' = None /\ avail' = "unavailable"
        BY <1>1, <1>13, <3>1, <4>1 DEF Apply, Holds, None
      <4>2. ASSUME NEW s \in Range(got), service' = s.svc, options' = s.list, avail' = "online"
            PROVE  Holds'
        <5>1. got # <<>>
          BY <4>2 DEF Range
        <5>2. s \in Snapshot
          BY <4>2, <5>1, OnlyOne DEF TypeOK
        <5>3. QED
          BY <1>1, <3>1, <4>2, <5>2 DEF Apply, Holds, Snapshot, None
      <4>3. QED
        BY <3>1, <4>1, <4>2 DEF Apply
    <3>2. CASE ~Apply
      BY <1>1, <1>13, <3>2 DEF StartLoad, WatchReload, WatchTick, WatchExit, Holds
    <3>3. QED
      BY <3>1, <3>2
  <2>4. QED
    BY <1>5, <1>6, <1>7, <2>1, <2>2, <2>3
<1>14. CASE LoadCall
  <2>1. /\ reqs' = Call("watch", "all", Services[trying], None) /\ wpc = "call" /\ wpc' = "wait"
        /\ UNCHANGED <<wire, signals, trying, got, cmdVars, pluginVars>>
    BY <1>14 DEF LoadCall
  <2>2. /\ OneCall("watch")' /\ OneCall("cmd")' /\ Kinds'
        /\ \A r \in reqs' : r \in reqs \/ (r.to = "watch" /\ r.what = "all" /\ r.svc = Services[trying])
    BY <1>6, <1>7, <1>11, <2>1
  <2>3. WatchCalls'
    BY <1>7, <2>1, <2>2 DEF WatchCalls
  <2>4. CommandCalls'
    BY <1>1, <2>1, <2>2 DEF CommandCalls
  <2>5. Holds'
    BY <1>1, <2>1 DEF Holds
  <2>6. QED
    BY <2>2, <2>3, <2>4, <2>5 DEF CallInv
<1>15. CASE LoadReply
  <2>1. /\ wire # <<>> /\ wire' = Tail(wire) /\ wire[1].to = "watch" /\ UNCHANGED <<reqs, signals, cmdVars>>
        /\ Holds'
    BY <1>1, <1>15 DEF LoadReply, Replied, Holds
  <2>2. QED
    BY <1>2, <1>5, <1>9, <2>1
<1>16. CASE LoadError
  <2>1. UNCHANGED <<signals, cmdVars>> /\ Holds'
    BY <1>1, <1>16 DEF LoadError, Holds
  <2>2. CASE Replied("watch", "error") /\ wire' = Tail(wire) /\ UNCHANGED <<reqs, timeouts>>
    BY <1>2, <1>5, <1>9, <2>1, <2>2 DEF Replied
  <2>3. CASE GiveUp("watch")
    BY <1>2, <1>5, <1>10, <2>1, <2>3
  <2>4. QED
    BY <1>16, <2>2, <2>3 DEF LoadError
<1>17. CASE WatchChange
  <2>1. signals # <<>> /\ signals' = Tail(signals) /\ UNCHANGED <<reqs, wire, watchVars, cmdVars, service, avail>>
    BY <1>17 DEF WatchChange
  <2>2. signals[1] \in Message /\ \A i \in DOMAIN signals' : signals'[i].to = "signals"
    BY <1>1, <1>2, <2>1, TailPart
  <2>3. Holds'
    BY <1>1, <1>17, <2>1, <2>2 DEF WatchChange, Holds, Message
  <2>4. QED
    BY <1>5, <1>6, <2>1, <2>2, <2>3
<1>18. CASE Stop
  <2>1. /\ wire' = <<>> /\ UNCHANGED <<signals, watchVars, cmdVars, pluginVars>>
        /\ \A r \in reqs' : r.to = "nobody"
    <3>1. \A q \in Request : [q EXCEPT !.to = "nobody"].to = "nobody"
      BY DEF Request
    <3>2. QED
      BY <1>1, <1>18, <3>1 DEF Stop
  <2>2. QED
    BY <1>1, <2>1 DEF CallInv, OneCall, WatchCalls, CommandCalls, Kinds, Holds
<1>19. ASSUME NEW val \in Profiles, Command(val) PROVE CallInv'
  <2>1. /\ reqs' = Call("cmd", "set", service, val) /\ hpc = "idle" /\ hpc' = "set"
        /\ hcall' = <<[svc |-> service, val |-> val]>>
        /\ UNCHANGED <<wire, signals, watchVars, pluginVars>>
    BY <1>19 DEF Command
  <2>2. hcall' # <<>> /\ hcall'[1].svc = service
    BY <2>1
  <2>3. /\ OneCall("watch")' /\ OneCall("cmd")' /\ Kinds'
        /\ \A r \in reqs' : r \in reqs \/ (r.to = "cmd" /\ r.what = "set" /\ r.svc = service)
    BY <1>6, <1>8, <1>11, <2>1
  <2>4. WatchCalls'
    BY <1>1, <2>1, <2>3 DEF WatchCalls
  <2>5. CommandCalls'
    BY <1>8, <2>1, <2>2, <2>3 DEF CommandCalls
  <2>6. Holds'
    BY <1>1, <2>1, <2>2 DEF Holds
  <2>7. QED
    BY <2>3, <2>4, <2>5, <2>6 DEF CallInv
<1>20. CASE SetReply
  <2>1. /\ wire # <<>> /\ wire[1].to = "cmd" /\ wire' = Tail(wire)
        /\ reqs' = Call("cmd", "get", hcall[1].svc, None) /\ hpc = "set" /\ hpc' = "get"
        /\ UNCHANGED <<hcall, signals, watchVars, pluginVars>>
    BY <1>20 DEF SetReply, Replied
  <2>2. Part(wire, wire') /\ (\A r \in reqs : r.to # "cmd") /\ \A i \in DOMAIN wire' : wire'[i].to # "cmd"
    BY <1>9, <2>1
  <2>3. /\ OneCall("watch")' /\ OneCall("cmd")' /\ Kinds'
        /\ \A i \in DOMAIN wire' : \E j \in DOMAIN wire : wire'[i] = wire[j]
        /\ \A r \in reqs' : r \in reqs \/ (r.to = "cmd" /\ r.what = "get" /\ r.svc = hcall[1].svc)
    BY <1>11, <2>1, <2>2
  <2>4. WatchCalls'
    BY <1>1, <2>1, <2>3 DEF WatchCalls
  <2>5. CommandCalls'
    BY <2>1, <2>2, <2>3 DEF CommandCalls
  <2>6. Holds'
    BY <1>1, <2>1 DEF Holds
  <2>7. QED
    BY <2>3, <2>4, <2>5, <2>6 DEF CallInv
<1>21. CASE GetReply
  <2>1. /\ wire # <<>> /\ wire' = Tail(wire) /\ wire[1].to = "cmd" /\ UNCHANGED <<reqs, signals, watchVars>>
        /\ Holds'
    BY <1>1, <1>21 DEF GetReply, Replied, Holds
  <2>2. QED
    BY <1>2, <1>5, <1>9, <2>1
<1>22. CASE CommandError
  <2>1. UNCHANGED <<signals, watchVars>> /\ Holds'
    BY <1>1, <1>22 DEF CommandError, Holds
  <2>2. CASE Replied("cmd", "error") /\ wire' = Tail(wire) /\ UNCHANGED <<reqs, timeouts>>
    BY <1>2, <1>5, <1>9, <2>1, <2>2 DEF Replied
  <2>3. CASE GiveUp("cmd")
    BY <1>2, <1>5, <1>10, <2>1, <2>3
  <2>4. QED
    BY <1>22, <2>2, <2>3 DEF CommandError
<1>23. CASE CommandPublish
  <2>1. /\ UNCHANGED <<reqs, wire, signals, watchVars>> /\ hpc = "publish" /\ Holds'
    BY <1>1, <1>23 DEF CommandPublish, Holds
  <2>2. QED
    BY <1>2, <1>5, <1>6, <1>8, <2>1
<1>24. CASE UNCHANGED vars
  BY <1>24 DEF vars, CallInv, OneCall, WatchCalls, CommandCalls, Kinds, Holds
<1>25. QED
  BY <1>3, <1>4, <1>12, <1>13, <1>14, <1>15, <1>16, <1>17, <1>18, <1>19, <1>20, <1>21, <1>22, <1>23, <1>24
     DEF Next, LoadStep, WatchStep, CommandStep
\* The types of the plugin, the daemon and the bus between them; that an answer has the
\* profiles its caller takes from it follows from the calls being matched.
THEOREM TypeCorrect == Spec => []TypeOK
<1>1. Init => TypeOK /\ CallInv
  BY InitTypeOK, InitCalls
<1>2. TypeOK /\ CallInv /\ [Next]_vars => (TypeOK /\ CallInv)'
  BY StepTypeOK, StepCalls
<1>3. QED
  BY <1>1, <1>2, PTL DEF Spec
-----------------------------------------------------------------------------
(* What is known of the daemon *)

LEMMA StepNewer == TypeOK /\ NewerShown /\ [Next]_vars => NewerShown'
<1> SUFFICES ASSUME TypeOK, NewerShown, [Next]_vars PROVE NewerShown'
  OBVIOUS
<1> USE DEF daemonVars, busVars, pluginVars, watchVars, cmdVars, histVars
<1>1. CASE Apply
  <2>1. CASE UNCHANGED <<active, histVars>>
    BY <1>1, <2>1 DEF Apply, NewerShown
  <2>2. ASSUME NEW act, Shows(act) PROVE NewerShown'
    BY <1>1, <2>2 DEF Apply, Shows, NewerShown
  <2>3. QED
    BY <1>1, <2>1, <2>2 DEF Apply
<1>2. CASE WatchChange
  <2>1. CASE UNCHANGED <<active, histVars>>
    BY <1>2, <2>1 DEF WatchChange, NewerShown
  <2>2. ASSUME NEW act, Shows(act) PROVE NewerShown'
    BY <1>2, <2>2 DEF WatchChange, Shows, NewerShown
  <2>3. QED
    BY <1>2, <2>1, <2>2 DEF WatchChange
<1>3. CASE GetReply
  BY <1>3 DEF GetReply, NewerShown
<1>4. CASE hpc' # "publish"
  BY <1>4 DEF NewerShown
<1>5. CASE UNCHANGED <<hpc, newer, active, overtaken>>
  BY <1>5 DEF NewerShown
<1>6. ASSUME NEW r \in reqs, Answer(r) PROVE UNCHANGED <<hpc, newer, active, overtaken>>
  BY <1>6 DEF Answer
<1>7. QED
  BY <1>1, <1>2, <1>3, <1>4, <1>5, <1>6
     DEF Next, DaemonStart, DaemonStop, DaemonChange, DeliverSignal, LoadStep, StartLoad, LoadCall,
         LoadReply, LoadError, WatchStep, WatchReload, WatchTick, WatchExit, Stop, Command,
         CommandStep, SetReply, CommandError, CommandPublish, vars

\* More signals leave less to hold.
LEMMA Weaker ==
  ASSUME NEW M, NEW N, M \subseteq N, NEW s, NEW list, NEW act, NEW on, NEW all, NEW now,
         Tells(M, s, list, act, on, all, now)
  PROVE  Tells(N, s, list, act, on, all, now)
BY DEF Tells

\* What was so is so, but for what has been said since.
LEMMA Learns ==
  ASSUME NEW M, NEW v, NEW s, NEW list, NEW act,
         NEW on, NEW all, NEW now, NEW on2, NEW all2, NEW now2,
         Tells(M, s, list, act, on, all, now),
         Announces(v, on, all, now, on2, all2, now2)
  PROVE  Tells(M \cup After(v, 0), s, list, act, on2, all2, now2)
<1> SUFFICES ASSUME \A m \in M \cup After(v, 0) : ~Resets(m)
             PROVE  /\ s \in on2
                    /\ list # {} /\ (\A m \in M \cup After(v, 0) : ~SaysList(m, s)) => list = all2
                    /\ act # None /\ (\A m \in M \cup After(v, 0) : ~SaysActive(m, s)) => act = now2
  BY DEF Tells
<1>1. /\ on2 = on
      /\ \A x \in on : /\ all2 = all \/ \E m \in After(v, 0) : SaysList(m, x)
                       /\ now2 = now \/ \E m \in After(v, 0) : SaysActive(m, x)
  BY DEF Announces
<1>2. /\ s \in on
      /\ list # {} /\ (\A m \in M : ~SaysList(m, s)) => list = all
      /\ act # None /\ (\A m \in M : ~SaysActive(m, s)) => act = now
  BY DEF Tells
<1>3. QED
  BY <1>1, <1>2

\* What the daemon says is so.
LEMMA Current ==
  ASSUME NEW M, NEW s, NEW list, NEW act, NEW on, NEW all, NEW now,
         s \in on, list \in {{}, all}, act \in {None, now}
  PROVE  Tells(M, s, list, act, on, all, now)
BY DEF Tells

LEMMA InitKnow == Init => NewerShown /\ KnowInv
<1> SUFFICES ASSUME Init PROVE NewerShown /\ KnowInv
  OBVIOUS
<1>1. /\ wire = <<>> /\ signals = <<>> /\ got = <<>> /\ hpc = "idle" /\ wpc = "new"
  BY DEF Init
<1>2. QED
  BY <1>1 DEF NewerShown, KnowInv, WireKnows, SignalsKnow, GotKnows, EntityKnows, HandlerKnows

LEMMA SaidKnow ==
  ASSUME TypeOK, KnowInv, NEW v, Says(v)
  PROVE  KnowInv'
<1> SUFFICES ASSUME ~closed PROVE (WireKnows /\ SignalsKnow /\ GotKnows /\ EntityKnows /\ HandlerKnows)'
  BY DEF KnowInv, Says
<1> USE DEF pluginVars, watchVars, cmdVars, histVars
<1>1. /\ wire \in Seq(Message) /\ v \in Seq(Message) /\ wire' = wire \o v
      /\ UNCHANGED <<signals, closed, pluginVars, watchVars, cmdVars, histVars>>
      /\ Announces(v, owned, dlist, dactive, owned', dlist', dactive')
      /\ WireKnows /\ SignalsKnow /\ GotKnows /\ EntityKnows /\ HandlerKnows
  BY DEF TypeOK, Says, KnowInv
<1>2. /\ \A i \in DOMAIN wire : wire'[i] = wire[i] /\ After(wire', i) = After(wire, i) \cup After(v, 0)
      /\ \A k \in DOMAIN wire' : k \in DOMAIN wire \/ k - Len(wire) \in DOMAIN v
      /\ \A i \in DOMAIN v : wire'[Len(wire) + i] = v[i]
      /\ After(wire', 0) = After(wire, 0) \cup After(v, 0)
  BY <1>1, Joins
<1>3. ASSUME NEW M, NEW s, NEW list, NEW act, Tells(M, s, list, act, owned, dlist, dactive)
      PROVE  Tells(M \cup After(v, 0), s, list, act, owned', dlist', dactive')
  BY <1>1, <1>3, Learns
<1>4. Ahead' = Ahead \cup After(v, 0)
  BY <1>1, <1>2 DEF Ahead
<1>5. WireKnows'
  <2>1. ASSUME NEW i \in DOMAIN wire', wire'[i].type \in {"changed", "reply"}
        PROVE  Tells(After(wire', i), wire'[i].svc, wire'[i].list, wire'[i].active, owned', dlist', dactive')
    <3>1. CASE i \in DOMAIN wire
      <4>1. Tells(After(wire, i), wire[i].svc, wire[i].list, wire[i].active, owned, dlist, dactive)
        BY <1>1, <1>2, <2>1, <3>1 DEF WireKnows
      <4>2. QED
        BY <1>2, <1>3, <3>1, <4>1
    <3>2. CASE i \notin DOMAIN wire
      <4>1. i - Len(wire) \in DOMAIN v /\ wire'[i] = v[i - Len(wire)]
        <5>1. Len(wire) \in Nat /\ wire' \in Seq(Message)
          BY <1>1
        <5>2. i \in Nat
          BY <2>1, <5>1
        <5>3. i - Len(wire) \in DOMAIN v /\ Len(wire) + (i - Len(wire)) = i
          BY <1>2, <3>2, <5>1, <5>2
        <5>4. QED
          BY <1>2, <5>3
      <4>2. /\ wire'[i].svc \in owned' /\ wire'[i].list \in {{}, dlist'}
            /\ wire'[i].active \in {None, dactive'}
        BY <1>1, <2>1, <4>1 DEF Announces
      <4>3. QED
        BY <4>2, Current
    <3>3. QED
      BY <3>1, <3>2
  <2>2. QED
    BY <2>1 DEF WireKnows
<1>6. SignalsKnow'
  <2>1. ASSUME NEW i \in DOMAIN signals, signals[i].type = "changed"
        PROVE  Tells(After(signals, i) \cup After(wire', 0), signals[i].svc, signals[i].list,
                     signals[i].active, owned', dlist', dactive')
    <3>1. Tells(After(signals, i) \cup After(wire, 0), signals[i].svc, signals[i].list,
                signals[i].active, owned, dlist, dactive)
      BY <1>1, <2>1 DEF SignalsKnow
    <3>2. After(signals, i) \cup After(wire', 0) = (After(signals, i) \cup After(wire, 0)) \cup After(v, 0)
      BY <1>2
    <3>3. QED
      BY <1>3, <3>1, <3>2
  <2>2. QED
    BY <1>1, <2>1 DEF SignalsKnow
<1>7. GotKnows'
  BY <1>1, <1>3, <1>4 DEF GotKnows
<1>8. EntityKnows'
  BY <1>1, <1>3, <1>4 DEF EntityKnows
<1>9. HandlerKnows'
  BY <1>1, <1>3, <1>4 DEF HandlerKnows
<1>10. QED
  BY <1>5, <1>6, <1>7, <1>8, <1>9
\* Taking answers off the wire changes nothing of what is known.
LEMMA ThinnedKnow ==
  ASSUME TypeOK, WireKnows, SignalsKnow, Thinned(wire, wire'),
         UNCHANGED <<signals, owned, dlist, dactive>>
  PROVE  WireKnows' /\ SignalsKnow' /\ Ahead' = Ahead
<1>1. PICK m \in [DOMAIN wire' -> DOMAIN wire] :
        \A i \in DOMAIN wire' : wire'[i] = wire[m[i]] /\ After(wire', i) = After(wire, m[i])
  BY DEF Thinned
<1>2. \A i \in DOMAIN wire' : m[i] \in DOMAIN wire
  BY <1>1
<1>3. After(wire', 0) = After(wire, 0)
  BY DEF Thinned
<1>4. WireKnows'
  <2>1. ASSUME NEW i \in DOMAIN wire', wire'[i].type \in {"changed", "reply"}
        PROVE  Tells(After(wire', i), wire'[i].svc, wire'[i].list, wire'[i].active, owned, dlist, dactive)
    <3>1. Tells(After(wire, m[i]), wire[m[i]].svc, wire[m[i]].list, wire[m[i]].active, owned, dlist, dactive)
      BY <1>1, <1>2, <2>1 DEF WireKnows
    <3>2. QED
      BY <1>1, <3>1
  <2>2. QED
    BY <2>1 DEF WireKnows
<1>5. SignalsKnow'
  BY <1>3 DEF SignalsKnow
<1>6. QED
  BY <1>3, <1>4, <1>5 DEF Ahead

\* A signal that is delivered stays where it is in the order of signals.
LEMMA DeliveredKnow ==
  ASSUME TypeOK, Kinds, WireKnows, SignalsKnow, DeliverSignal
  PROVE  WireKnows' /\ SignalsKnow' /\ Ahead' = Ahead
<1> DEFINE x == wire[1]
<1>1. /\ wire # <<>> /\ x.to = "signals" /\ signals' = signals \o <<x>> /\ wire' = Tail(wire)
      /\ wire \in Seq(Message) /\ signals \in Seq(Message) /\ UNCHANGED <<owned, dlist, dactive>>
  <2>1. wire # <<>> /\ wire \in Seq(Message) /\ signals \in Seq(Message)
    BY DEF TypeOK, DeliverSignal
  <2>2. x \in Message
    BY <2>1, Tails
  <2>3. Append(signals, x) = signals \o <<x>>
    BY <2>1, <2>2
  <2>4. QED
    BY <2>1, <2>3 DEF DeliverSignal, daemonVars
<1>2. /\ x \in Message /\ 1 \in DOMAIN wire
      /\ \A i \in DOMAIN wire' : /\ i + 1 \in DOMAIN wire /\ wire'[i] = wire[i + 1]
                                 /\ After(wire', i) = After(wire, i + 1)
      /\ After(wire', 0) = After(wire, 1)
      /\ After(wire, 0) = After(wire, 1) \cup {x}
  BY <1>1, Tails
<1> HIDE DEF x
<1>3. <<x>> \in Seq(Message) /\ After(<<x>>, 0) = {x}
  <2>1. <<x>> \in Seq(Message) /\ DOMAIN <<x>> = {1} /\ <<x>>[1] = x
    BY <1>2
  <2>2. QED
    BY <1>1, <2>1 DEF After
<1>4. /\ \A i \in DOMAIN signals : signals'[i] = signals[i] /\ After(signals', i) = After(signals, i) \cup {x}
      /\ After(signals', 0) = After(signals, 0) \cup {x}
  <2> DEFINE v == <<x>>
  <2>1. v \in Seq(Message) /\ After(v, 0) = {x} /\ signals' = signals \o v
    BY <1>1, <1>3
  <2> HIDE DEF v
  <2>2. /\ \A i \in DOMAIN signals : /\ (signals \o v)[i] = signals[i]
                                     /\ After(signals \o v, i) = After(signals, i) \cup After(v, 0)
        /\ After(signals \o v, 0) = After(signals, 0) \cup After(v, 0)
    BY <1>1, <2>1, Joins
  <2>3. QED
    BY <2>1, <2>2
<1>5. /\ Len(signals) \in Nat /\ DOMAIN signals = 1..Len(signals)
      /\ DOMAIN signals' = 1..(Len(signals) + 1) /\ signals'[Len(signals) + 1] = x
  BY <1>1, <1>2
<1>6. WireKnows'
  <2>1. ASSUME NEW i \in DOMAIN wire', wire'[i].type \in {"changed", "reply"}
        PROVE  Tells(After(wire', i), wire'[i].svc, wire'[i].list, wire'[i].active, owned, dlist, dactive)
    <3>1. PICK k \in DOMAIN wire : k = i + 1
      BY <1>2
    <3>2. wire'[i] = wire[k] /\ After(wire', i) = After(wire, k)
      BY <1>2, <3>1
    <3>3. QED
      BY <2>1, <3>2 DEF WireKnows
  <2>2. QED
    BY <1>1, <2>1 DEF WireKnows
<1>7. SignalsKnow'
  <2>1. ASSUME NEW i \in DOMAIN signals', signals'[i].type = "changed"
        PROVE  Tells(After(signals', i) \cup After(wire', 0), signals'[i].svc, signals'[i].list,
                     signals'[i].active, owned, dlist, dactive)
    <3>1. CASE i \in DOMAIN signals
      <4>1. After(signals', i) \cup After(wire', 0) = After(signals, i) \cup After(wire, 0)
        BY <1>2, <1>4, <3>1
      <4>2. signals'[i] = signals[i]
        BY <1>4, <3>1
      <4>3. QED
        BY <2>1, <3>1, <4>1, <4>2 DEF SignalsKnow
    <3>2. CASE i \notin DOMAIN signals
      <4>1. i = Len(signals) + 1 /\ signals'[i] = x
        BY <1>5, <2>1, <3>2
      <4>2. Tells(After(wire, 1), x.svc, x.list, x.active, owned, dlist, dactive)
        BY <1>2, <2>1, <4>1 DEF WireKnows, x
      <4>3. After(wire, 1) \subseteq After(signals', i) \cup After(wire', 0)
        BY <1>2
      <4>4. Tells(After(signals', i) \cup After(wire', 0), x.svc, x.list, x.active, owned, dlist, dactive)
        BY <4>2, <4>3, Weaker
      <4>5. QED
        BY <4>1, <4>4
    <3>3. QED
      BY <3>1, <3>2
  <2>2. QED
    BY <1>1, <2>1 DEF SignalsKnow
<1>8. Ahead' = Ahead
  BY <1>2, <1>4 DEF Ahead
<1>9. QED
  BY <1>6, <1>7, <1>8

\* The watcher takes a signal: it is no longer ahead.
LEMMA TakenKnow ==
  ASSUME TypeOK, Kinds, WireKnows, SignalsKnow, signals # <<>>, signals' = Tail(signals),
         UNCHANGED <<wire, owned, dlist, dactive>>
  PROVE  /\ WireKnows' /\ SignalsKnow' /\ Ahead = Ahead' \cup {signals[1]} /\ signals[1] \in Message
         /\ signals[1].type = "changed" =>
              Tells(Ahead', signals[1].svc, signals[1].list, signals[1].active, owned, dlist, dactive)
<1>1. /\ signals \in Seq(Message) /\ signals[1] \in Message /\ 1 \in DOMAIN signals
      /\ \A i \in DOMAIN signals' : /\ i + 1 \in DOMAIN signals /\ signals'[i] = signals[i + 1]
                                    /\ After(signals', i) = After(signals, i + 1)
      /\ After(signals', 0) = After(signals, 1)
      /\ After(signals, 0) = After(signals, 1) \cup IF signals[1].to = "signals" THEN {signals[1]} ELSE {}
  <2>1. signals \in Seq(Message)
    BY DEF TypeOK
  <2>2. QED
    BY <2>1, Tails
<1>2. signals[1].to = "signals"
  BY <1>1 DEF Kinds
<1>3. WireKnows'
  BY DEF WireKnows
<1>4. SignalsKnow'
  <2>1. ASSUME NEW i \in DOMAIN signals', signals'[i].type = "changed"
        PROVE  Tells(After(signals', i) \cup After(wire, 0), signals'[i].svc, signals'[i].list,
                     signals'[i].active, owned, dlist, dactive)
    <3>1. PICK k \in DOMAIN signals : k = i + 1
      BY <1>1
    <3>2. signals'[i] = signals[k] /\ After(signals', i) = After(signals, k)
      BY <1>1, <3>1
    <3>3. QED
      BY <2>1, <3>2 DEF SignalsKnow
  <2>2. QED
    BY <2>1 DEF SignalsKnow
<1>5. Ahead' = After(signals, 1) \cup After(wire, 0)
  BY <1>1 DEF Ahead
<1>6. Ahead = Ahead' \cup {signals[1]}
  BY <1>1, <1>2, <1>5 DEF Ahead
<1>7. signals[1].type = "changed" =>
        Tells(Ahead', signals[1].svc, signals[1].list, signals[1].active, owned, dlist, dactive)
  BY <1>1, <1>5 DEF SignalsKnow
<1>8. QED
  BY <1>1, <1>3, <1>4, <1>6, <1>7

\* What is known when m is behind it, and what m says, is known behind m.
LEMMA Updates ==
  ASSUME NEW N, NEW m, ~Resets(m), NEW s, NEW list, NEW act, NEW on, NEW all, NEW now,
         Tells(N \cup {m}, s, list, act, on, all, now),
         Tells(N, m.svc, m.list, m.active, on, all, now)
  PROVE  Tells(N, s, IF SaysList(m, s) THEN m.list ELSE list,
                     IF SaysActive(m, s) THEN m.active ELSE act, on, all, now)
<1> SUFFICES ASSUME \A k \in N : ~Resets(k)
             PROVE  LET l == IF SaysList(m, s) THEN m.list ELSE list
                        a == IF SaysActive(m, s) THEN m.active ELSE act
                    IN  /\ s \in on
                        /\ l # {} /\ (\A k \in N : ~SaysList(k, s)) => l = all
                        /\ a # None /\ (\A k \in N : ~SaysActive(k, s)) => a = now
  BY DEF Tells
<1>1. /\ s \in on
      /\ list # {} /\ (\A k \in N \cup {m} : ~SaysList(k, s)) => list = all
      /\ act # None /\ (\A k \in N \cup {m} : ~SaysActive(k, s)) => act = now
  BY DEF Tells
<1>2. /\ m.list # {} /\ (\A k \in N : ~SaysList(k, m.svc)) => m.list = all
      /\ m.active # None /\ (\A k \in N : ~SaysActive(k, m.svc)) => m.active = now
  BY DEF Tells
<1>3. CASE SaysList(m, s)
  <2>1. m.svc = s /\ m.list # {}
    BY <1>3 DEF SaysList
  <2>2. (\A k \in N : ~SaysList(k, s)) => m.list = all
    BY <1>2, <2>1
  <2>3. CASE SaysActive(m, s)
    BY <1>1, <1>2, <1>3, <2>1, <2>2, <2>3
  <2>4. CASE ~SaysActive(m, s)
    BY <1>1, <1>3, <2>2, <2>4
  <2>5. QED
    BY <2>3, <2>4
<1>4. CASE ~SaysList(m, s)
  <2>1. CASE SaysActive(m, s)
    <3>1. m.svc = s
      BY <2>1 DEF SaysActive
    <3>2. QED
      BY <1>1, <1>2, <1>4, <2>1, <3>1
  <2>2. CASE ~SaysActive(m, s)
    BY <1>1, <1>4, <2>2
  <2>3. QED
    BY <2>1, <2>2
<1>5. QED
  BY <1>3, <1>4
LEMMA StepKnow == TypeOK /\ CallInv /\ NewerShown /\ KnowInv /\ [Next]_vars => KnowInv'
<1> SUFFICES ASSUME TypeOK, CallInv, NewerShown, KnowInv, [Next]_vars PROVE KnowInv'
  OBVIOUS
<1> USE DEF daemonVars, busVars, pluginVars, watchVars, cmdVars, histVars
<1>1. CASE DaemonStart \/ DaemonStop \/ DaemonChange
  BY <1>1, DaemonSays, SaidKnow
<1>2. ASSUME NEW r \in reqs, Answer(r) PROVE KnowInv'
  BY <1>2, AnswerSays, SaidKnow
<1>3. CASE closed'
  BY <1>3 DEF KnowInv
<1>4. CASE ~closed' /\ ~(DaemonStart \/ DaemonStop \/ DaemonChange) /\ ~(\E r \in reqs : Answer(r))
  <2>1. /\ ~closed /\ UNCHANGED <<owned, dlist, dactive>>
        /\ \/ DeliverSignal \/ LoadStep \/ WatchStep \/ CommandStep \/ UNCHANGED vars
           \/ \E val \in Profiles : Command(val)
    BY <1>4 DEF Next, DeliverSignal, LoadStep, StartLoad, LoadCall, LoadReply, LoadError, Apply,
                WatchStep, WatchReload, WatchChange, WatchTick, WatchExit, Stop, Command,
                CommandStep, SetReply, GetReply, CommandError, CommandPublish, vars
  <2>2. /\ WireKnows /\ SignalsKnow /\ GotKnows /\ EntityKnows /\ HandlerKnows
        /\ Kinds /\ Holds /\ WatchCalls /\ CommandCalls
    BY <2>1 DEF KnowInv, CallInv
  <2>3. /\ wire \in Seq(Message) /\ trying \in DOMAIN Services
        /\ None \notin Profiles /\ None \notin Names
        /\ service \in Names \cup {None} /\ active \in Profiles \cup {None}
    BY NoneAssumption DEF TypeOK, Names
  <2> SUFFICES (WireKnows /\ SignalsKnow /\ GotKnows /\ EntityKnows /\ HandlerKnows)'
    BY DEF KnowInv
  <2>4. Thinned(wire, wire)
    BY SameThinned
  \* What holds of the handler and of the entity while the order of signals is as it was.
  <2>5. ASSUME Ahead' = Ahead, UNCHANGED pluginVars, UNCHANGED histVars, UNCHANGED wpc
        PROVE  EntityKnows' /\ (UNCHANGED cmdVars => HandlerKnows')
    BY <2>1, <2>2, <2>5 DEF EntityKnows, HandlerKnows
  <2>6. ASSUME NEW c \in {"watch", "cmd"}, GiveUp(c) PROVE Thinned(wire, wire')
    BY <2>2, <2>6, GivesUp DEF Callers
  <2>7. ASSUME NEW c \in {"watch", "cmd"}, wire # <<>>, wire[1].to = c, wire' = Tail(wire)
        PROVE  Thinned(wire, wire')
    BY <2>3, <2>7, TailThinned
  <2>8. hpc # "idle" => /\ hcall[1] \in [svc : Names, val : Profiles] /\ hcall = <<hcall[1]>>
                        /\ hcall[1].svc \in Names /\ hcall[1].val \in Profiles
    BY <2>2, OnlyOne DEF Holds, TypeOK
  <2>9. CASE DeliverSignal
    <3>1. WireKnows' /\ SignalsKnow' /\ Ahead' = Ahead
      BY <2>2, <2>9, DeliveredKnow
    <3>2. UNCHANGED <<pluginVars, watchVars, cmdVars, histVars>>
      BY <2>9 DEF DeliverSignal
    <3>3. GotKnows'
      BY <2>1, <2>2, <3>1, <3>2 DEF GotKnows
    <3>4. QED
      BY <2>5, <3>1, <3>2, <3>3
  <2>10. CASE StartLoad \/ LoadCall \/ WatchTick \/ WatchExit
    <3>1. UNCHANGED <<wire, signals, got>> /\ wpc' # "select"
      BY <2>10 DEF StartLoad, LoadCall, WatchTick, WatchExit
    <3>2. WireKnows' /\ SignalsKnow' /\ Ahead' = Ahead
      BY <2>1, <2>2, <2>4, <3>1, ThinnedKnow
    <3>3. QED
      BY <2>1, <2>2, <3>1, <3>2 DEF GotKnows, EntityKnows, HandlerKnows
  <2>11. CASE LoadReply
    <3>1. /\ wire # <<>> /\ wire[1].to = "watch" /\ wire[1].type = "reply" /\ wire' = Tail(wire)
          /\ got' = <<[svc |-> Services[trying], list |-> wire[1].list, active |-> wire[1].active]>>
          /\ UNCHANGED signals /\ wpc' # "select"
      BY <2>11 DEF LoadReply, Replied
    <3>2. WireKnows' /\ SignalsKnow' /\ Ahead' = Ahead
      BY <2>1, <2>2, <2>7, <3>1, ThinnedKnow
    <3>3. 1 \in DOMAIN wire /\ After(wire, 1) \subseteq After(wire, 0)
      BY <2>3, <3>1, Tails
    <3>4. Tells(After(wire, 1), wire[1].svc, wire[1].list, wire[1].active, owned, dlist, dactive)
      BY <2>2, <3>1, <3>3 DEF WireKnows
    <3>5. wire[1].svc = Services[trying]
      BY <2>2, <3>1, <3>3 DEF WatchCalls
    <3>6. Tells(Ahead, Services[trying], wire[1].list, wire[1].active, owned, dlist, dactive)
      BY <3>3, <3>4, <3>5, Weaker DEF Ahead
    <3>7. GotKnows'
      <4>1. ASSUME NEW s \in Snapshot, got' = <<s>>
            PROVE  Tells(Ahead, s.svc, s.list, s.active, owned, dlist, dactive)
        <5>1. s = [svc |-> Services[trying], list |-> wire[1].list, active |-> wire[1].active]
          BY <3>1, <4>1
        <5>2. QED
          BY <3>6, <5>1
      <4>2. QED
        BY <2>1, <3>2, <4>1 DEF GotKnows
    <3>8. QED
      BY <3>1, <3>2, <3>7 DEF EntityKnows, HandlerKnows
  <2>12. CASE LoadError
    <3>1. UNCHANGED signals /\ wpc' # "select" /\ got' = <<>>
      BY <2>12 DEF LoadError
    <3>2. Thinned(wire, wire')
      BY <2>6, <2>7, <2>12 DEF LoadError, Replied
    <3>3. WireKnows' /\ SignalsKnow'
      BY <2>1, <2>2, <3>1, <3>2, ThinnedKnow
    <3>4. QED
      BY <3>1, <3>3 DEF GotKnows, EntityKnows, HandlerKnows
  <2>13. CASE Apply
    <3>1. UNCHANGED <<wire, signals, hpc, hcall>> /\ got' = <<>>
      BY <2>13 DEF Apply
    <3>2. WireKnows' /\ SignalsKnow' /\ Ahead' = Ahead
      BY <2>1, <2>2, <2>4, <3>1, ThinnedKnow
    <3>3. GotKnows'
      BY <3>1 DEF GotKnows
    <3>4. CASE service' = None
      <4>1. EntityKnows'
        BY <3>4 DEF EntityKnows
      <4>2. HandlerKnows'
        BY <2>3, <2>8, <3>1, <3>4 DEF HandlerKnows
      <4>3. QED
        BY <3>2, <3>3, <4>1, <4>2
    <3>5. ASSUME NEW s \in Range(got), service' = s.svc, options' = s.list, Shows(s.active)
          PROVE  EntityKnows' /\ HandlerKnows'
      <4>1. s \in Snapshot /\ got = <<s>>
        <5>1. got # <<>>
          BY <3>5 DEF Range
        <5>2. got[1] \in Snapshot /\ got = <<got[1]>> /\ Range(got) = {got[1]}
          BY <5>1, OnlyOne DEF TypeOK
        <5>3. QED
          BY <3>5, <5>2
      <4>2. s.active \in Profiles
        BY <4>1 DEF Snapshot
      <4>3. Tells(Ahead, s.svc, s.list, s.active, owned, dlist, dactive)
        BY <2>2, <4>1 DEF GotKnows
      <4>4. EntityKnows'
        BY <2>1, <3>2, <3>5, <4>3 DEF EntityKnows, Shows
      <4>5. HandlerKnows'
        BY <2>3, <3>1, <3>5, <4>2 DEF HandlerKnows, Shows
      <4>6. QED
        BY <4>4, <4>5
    <3>6. QED
      BY <2>13, <3>2, <3>3, <3>4, <3>5 DEF Apply
  <2>14. CASE WatchReload
    <3>1. signals # <<>> /\ signals' = Tail(signals) /\ UNCHANGED <<wire, got>> /\ wpc = "select" /\ wpc' # "select"
      BY <2>14 DEF WatchReload
    <3>2. WireKnows' /\ SignalsKnow'
      BY <2>1, <2>2, <3>1, TakenKnow
    <3>3. got' = <<>>
      BY <2>2, <3>1 DEF Holds
    <3>4. QED
      BY <3>1, <3>2, <3>3 DEF GotKnows, EntityKnows, HandlerKnows
  <2>15. CASE WatchChange
    <3> DEFINE m == signals[1]
    <3>1. /\ signals # <<>> /\ signals' = Tail(signals) /\ m.type = "changed" /\ wpc = "select"
          /\ UNCHANGED <<wire, got, service, wpc, hpc, hcall>>
      BY <2>15 DEF WatchChange
    <3>2. /\ WireKnows' /\ SignalsKnow' /\ Ahead = Ahead' \cup {m} /\ m \in Message
          /\ Tells(Ahead', m.svc, m.list, m.active, owned, dlist, dactive)
      BY <2>1, <2>2, <3>1, TakenKnow
    <3>3. options' = (IF SaysList(m, service) THEN m.list ELSE options)
      BY <2>15, <3>1 DEF WatchChange, SaysList
    <3>4. IF SaysActive(m, service) THEN Shows(m.active) ELSE UNCHANGED <<active, histVars>>
      BY <2>15, <3>1 DEF WatchChange, SaysActive
    <3> HIDE DEF m
    <3>5. ~Resets(m)
      BY <3>1 DEF Resets
    <3>6. GotKnows'
      BY <2>2, <3>1 DEF Holds, GotKnows
    <3>7. ASSUME NEW list, NEW act, Tells(Ahead, service, list, act, owned, dlist, dactive)
          PROVE  Tells(Ahead', service, IF SaysList(m, service) THEN m.list ELSE list,
                       IF SaysActive(m, service) THEN m.active ELSE act, owned, dlist, dactive)
      BY <3>2, <3>5, <3>7, Updates
    <3>8. EntityKnows'
      <4>1. ASSUME service # None
            PROVE  Tells(Ahead', service, options', IF overtaken' THEN None ELSE active', owned, dlist, dactive)
        <5>1. Tells(Ahead, service, options, IF overtaken THEN None ELSE active, owned, dlist, dactive)
          BY <2>2, <3>1, <4>1 DEF EntityKnows
        <5>2. Tells(Ahead', service, options',
                    IF SaysActive(m, service) THEN m.active ELSE IF overtaken THEN None ELSE active,
                    owned, dlist, dactive)
          BY <3>3, <3>7, <5>1
        <5>3. CASE SaysActive(m, service)
          BY <3>4, <5>2, <5>3 DEF Shows
        <5>4. CASE ~SaysActive(m, service)
          BY <3>4, <5>2, <5>4
        <5>5. QED
          BY <5>3, <5>4
      <4>2. QED
        BY <2>1, <3>1, <4>1 DEF EntityKnows
    <3>9. HandlerKnows'
      <4>1. ASSUME hpc = "publish", newer' = None, service = hcall[1].svc
            PROVE  Tells(Ahead', service, {}, hcall[1].val, owned, dlist, dactive)
        <5>1. ~SaysActive(m, service) /\ newer = None
          BY <3>4, <4>1 DEF Shows, SaysActive
        <5>2. Tells(Ahead, service, {}, hcall[1].val, owned, dlist, dactive)
          BY <2>2, <3>1, <4>1, <5>1 DEF HandlerKnows
        <5>3. Tells(Ahead', service, IF SaysList(m, service) THEN m.list ELSE {}, hcall[1].val,
                    owned, dlist, dactive)
          BY <3>7, <5>1, <5>2
        <5>4. QED
          BY <5>3 DEF Tells
      <4>2. QED
        BY <2>1, <3>1, <4>1 DEF HandlerKnows
    <3>10. QED
      BY <3>2, <3>6, <3>8, <3>9
  <2>16. ASSUME NEW val \in Profiles, Command(val)
         PROVE  (WireKnows /\ SignalsKnow /\ GotKnows /\ EntityKnows /\ HandlerKnows)'
    <3>1. UNCHANGED <<wire, signals, pluginVars, watchVars, histVars>> /\ hpc' # "publish"
      BY <2>16 DEF Command
    <3>2. WireKnows' /\ SignalsKnow' /\ Ahead' = Ahead
      BY <2>1, <2>2, <2>4, <3>1, ThinnedKnow
    <3>3. GotKnows' /\ HandlerKnows'
      BY <2>1, <2>2, <3>1, <3>2 DEF GotKnows, HandlerKnows
    <3>4. QED
      BY <2>5, <3>1, <3>2, <3>3
  <2>17. CASE SetReply \/ CommandError
    <3>1. UNCHANGED <<signals, pluginVars, watchVars, histVars>> /\ hpc' # "publish"
      BY <2>17 DEF SetReply, CommandError
    <3>2. Thinned(wire, wire')
      BY <2>6, <2>7, <2>17 DEF SetReply, CommandError, Replied
    <3>3. WireKnows' /\ SignalsKnow' /\ Ahead' = Ahead
      BY <2>1, <2>2, <3>1, <3>2, ThinnedKnow
    <3>4. GotKnows' /\ HandlerKnows'
      BY <2>1, <2>2, <3>1, <3>3 DEF GotKnows, HandlerKnows
    <3>5. QED
      BY <2>5, <3>1, <3>3, <3>4
  <2>18. CASE GetReply
    <3>1. /\ wire # <<>> /\ wire[1].to = "cmd" /\ wire[1].type = "reply" /\ wire' = Tail(wire) /\ hpc = "get"
          /\ hcall' = <<[hcall[1] EXCEPT !.val = wire[1].active]>> /\ overtaken' = overtaken
          /\ UNCHANGED <<signals, pluginVars, watchVars>>
      BY <2>18 DEF GetReply, Replied
    <3>2. WireKnows' /\ SignalsKnow' /\ Ahead' = Ahead
      BY <2>1, <2>2, <2>7, <3>1, ThinnedKnow
    <3>3. 1 \in DOMAIN wire /\ After(wire, 1) \subseteq After(wire, 0)
      BY <2>3, <3>1, Tails
    <3>4. Tells(After(wire, 1), wire[1].svc, wire[1].list, wire[1].active, owned, dlist, dactive)
      BY <2>2, <3>1, <3>3 DEF WireKnows
    <3>5. wire[1].svc = hcall[1].svc
      BY <2>2, <3>1, <3>3 DEF CommandCalls
    <3>6. Tells(Ahead, hcall[1].svc, wire[1].list, wire[1].active, owned, dlist, dactive)
      BY <3>3, <3>4, <3>5, Weaker DEF Ahead
    <3>7. Tells(Ahead, hcall[1].svc, {}, wire[1].active, owned, dlist, dactive)
      BY <3>6 DEF Tells
    <3>8. hcall'[1].svc = hcall[1].svc /\ hcall'[1].val = wire[1].active
      <4>1. hcall'[1] = [hcall[1] EXCEPT !.val = wire[1].active] /\ hcall[1] \in [svc : Names, val : Profiles]
        BY <2>8, <3>1
      <4>2. QED
        BY <4>1
    <3>9. HandlerKnows'
      BY <2>1, <3>1, <3>2, <3>7, <3>8 DEF HandlerKnows
    <3>10. GotKnows'
      BY <2>1, <2>2, <3>1, <3>2 DEF GotKnows
    <3>11. EntityKnows'
      BY <2>1, <2>2, <3>1, <3>2 DEF EntityKnows
    <3>12. QED
      BY <3>2, <3>9, <3>10, <3>11
  <2>19. CASE CommandPublish
    <3>1. /\ hpc = "publish" /\ hpc' = "idle"
          /\ UNCHANGED <<wire, signals, service, options, avail, watchVars, newer>>
      BY <2>19 DEF CommandPublish
    <3>2. WireKnows' /\ SignalsKnow' /\ Ahead' = Ahead
      BY <2>1, <2>2, <2>4, <3>1, ThinnedKnow
    <3>3. GotKnows' /\ HandlerKnows'
      BY <2>1, <2>2, <3>1, <3>2 DEF GotKnows, HandlerKnows
    <3>4. CASE service # hcall[1].svc
      <4>1. UNCHANGED <<active, overtaken>>
        BY <2>19, <3>4 DEF CommandPublish
      <4>2. EntityKnows'
        BY <2>1, <2>2, <3>1, <3>2, <4>1 DEF EntityKnows
      <4>3. QED
        BY <3>2, <3>3, <4>2
    <3>5. CASE service = hcall[1].svc
      <4> DEFINE val == hcall[1].val
      <4>1. active' = val /\ overtaken' = (newer \notin {None, val})
        BY <2>19, <3>5 DEF CommandPublish
      <4> HIDE DEF val
      <4>2. ASSUME wpc = "select", service # None
            PROVE  Tells(Ahead, service, options, IF overtaken' THEN None ELSE active', owned, dlist, dactive)
        <5>1. Tells(Ahead, service, options, IF overtaken THEN None ELSE active, owned, dlist, dactive)
          BY <2>2, <4>2 DEF EntityKnows
        <5>2. CASE newer = None
          <6>1. Tells(Ahead, service, {}, val, owned, dlist, dactive)
            BY <2>2, <3>1, <3>5, <4>2, <5>2 DEF HandlerKnows, val
          <6>2. overtaken' = FALSE
            BY <4>1, <5>2
          <6>3. QED
            BY <4>1, <5>1, <6>1, <6>2 DEF Tells
        <5>3. CASE newer # None /\ newer = val
          <6>1. active = val /\ ~overtaken /\ ~overtaken'
            BY <3>1, <4>1, <5>3 DEF NewerShown
          <6>2. QED
            BY <4>1, <5>1, <6>1
        <5>4. CASE newer # None /\ newer # val
          <6>1. overtaken'
            BY <4>1, <5>4
          <6>2. QED
            BY <5>1, <6>1 DEF Tells
        <5>5. QED
          BY <5>2, <5>3, <5>4
      <4>3. EntityKnows'
        BY <2>1, <3>1, <3>2, <4>2 DEF EntityKnows
      <4>4. QED
        BY <3>2, <3>3, <4>3
    <3>6. QED
      BY <3>4, <3>5
  <2>20. CASE UNCHANGED vars
    <3>1. UNCHANGED <<wire, signals, pluginVars, watchVars, cmdVars, histVars>>
      BY <2>20 DEF vars
    <3>2. WireKnows' /\ SignalsKnow' /\ Ahead' = Ahead
      BY <2>1, <2>2, <2>4, <3>1, ThinnedKnow
    <3>3. GotKnows'
      BY <2>1, <2>2, <3>1, <3>2 DEF GotKnows
    <3>4. QED
      BY <2>5, <3>1, <3>2, <3>3
  <2>21. QED
    BY <2>1, <2>9, <2>10, <2>11, <2>12, <2>13, <2>14, <2>15, <2>16, <2>17, <2>18, <2>19, <2>20
       DEF LoadStep, WatchStep, CommandStep
<1>5. QED
  BY <1>1, <1>2, <1>3, <1>4

\* Once everything is handled the entity is what the daemon is, for any daemon, capacity
\* and bounds.
THEOREM DaemonMirrored == Spec => []Mirrors
<1>1. Init => IInv
  BY InitTypeOK, InitCalls, InitKnow DEF IInv
<1>2. IInv /\ [Next]_vars => IInv'
  BY StepTypeOK, StepCalls, StepNewer, StepKnow DEF IInv
<1>3. IInv => Mirrors
  <2> SUFFICES ASSUME IInv, Quiet
               PROVE  /\ owned = {} => avail = "unavailable"
                      /\ service # None => /\ service \in owned /\ options = dlist
                                           /\ active = dactive \/ overtaken
    BY DEF Mirrors
  <2>1. ~closed /\ wpc = "select" /\ wire = <<>> /\ signals = <<>>
    BY DEF Quiet
  <2>2. Ahead = {}
    BY <2>1 DEF Ahead, After
  <2>3. ASSUME service # None
        PROVE  service \in owned /\ options = dlist /\ (active = dactive \/ overtaken)
    <3>1. Tells({}, service, options, IF overtaken THEN None ELSE active, owned, dlist, dactive)
      BY <2>1, <2>2, <2>3 DEF IInv, KnowInv, EntityKnows
    <3>2. options # {} /\ active # None /\ overtaken \in BOOLEAN
      BY <2>3, ListsAssumption DEF IInv, TypeOK, CallInv, Holds
    <3>3. QED
      BY <3>1, <3>2 DEF Tells
  <2>4. ASSUME owned = {} PROVE avail = "unavailable"
    <3>1. service = None
      BY <2>3, <2>4
    <3>2. avail # "online" /\ avail # None /\ avail \in {None, "online", "unavailable"}
      BY <2>1, <3>1 DEF IInv, TypeOK, CallInv, Holds
    <3>3. QED
      BY <3>2
  <2>5. QED
    BY <2>3, <2>4
<1>4. QED
  BY <1>1, <1>2, <1>3, PTL DEF Spec
=============================================================================
