------------------------------ MODULE UiProofs -------------------------------
(***************************************************************************)
(* Proofs about the page of UiPage.tla: its inductive invariant PageInv    *)
(* and the safety properties of UiProperties.tla, for every capacity and   *)
(* every number of entries, runs, drops and logins.                        *)
(***************************************************************************)
EXTENDS UiProperties, TLAPS, WellFoundedInduction

-----------------------------------------------------------------------------
(* Induction, stated of sets: a least number outside the set would have a  *)
(* predecessor in it.                                                      *)
LEMMA NatSetInduction ==
  ASSUME NEW S, 0 \in S, \A n \in Nat : n \in S => n + 1 \in S
  PROVE  Nat \subseteq S
<1> DEFINE T == Nat \ S
           R == OpToRel(<, Nat)
<1>1. IsWellFoundedOn(R, Nat) BY NatLessThanWellFounded
<1>2. \A y, x \in Nat : y < x => <<y, x>> \in R BY DEF OpToRel
<1>3. ASSUME T # {} PROVE FALSE
  <2> HIDE DEF R
  <2>1. \E x \in T : \A y \in T : <<y, x>> \notin R BY <1>1, <1>3, WFMin
  <2>2. PICK x \in T : \A y \in T : <<y, x>> \notin R BY <2>1
  <2>3. x \in Nat /\ x # 0 BY <2>2
  <2>4. x - 1 \in Nat /\ x - 1 < x BY <2>3
  <2>5. x - 1 \in S BY <1>2, <2>2, <2>4
  <2>6. (x - 1) + 1 = x BY <2>3
  <2> QED BY <2>2, <2>4, <2>5, <2>6
<1> QED BY <1>3

-----------------------------------------------------------------------------
(* Taking in entries one after the other                                   *)

\* f holds what becomes of l as the first m entries of s are taken in.
Ingests(f, l, s, m) == f = [n \in 0 .. m |-> IF n = 0 THEN l ELSE ingest(f[n - 1], s[n])]

LEMMA IngestsExists ==
  ASSUME NEW l, NEW s
  PROVE  \A m \in Nat : \E f : Ingests(f, l, s, m)
<1> DEFINE S == {m \in Nat : \E f : Ingests(f, l, s, m)}
<1>1. 0 \in S
  <2> DEFINE f == [n \in 0 .. 0 |-> l]
  <2>1. f = [n \in 0 .. 0 |-> IF n = 0 THEN l ELSE ingest(f[n - 1], s[n])] OBVIOUS
  <2> QED BY <2>1 DEF Ingests
<1>2. ASSUME NEW m \in Nat, m \in S PROVE m + 1 \in S
  <2>1. PICK f : Ingests(f, l, s, m) BY <1>2
  <2> DEFINE g == [n \in 0 .. m + 1 |-> IF n = 0 THEN l ELSE ingest(f[n - 1], s[n])]
  <2>2. \A n \in 0 .. m : g[n] = f[n] BY <2>1 DEF Ingests
  <2>3. g = [n \in 0 .. m + 1 |-> IF n = 0 THEN l ELSE ingest(g[n - 1], s[n])]
    <3>1. \A n \in 0 .. m + 1 : n # 0 => n - 1 \in 0 .. m OBVIOUS
    <3>2. \A n \in 0 .. m + 1 : n # 0 => g[n - 1] = f[n - 1] BY <2>2, <3>1
    <3> HIDE DEF g
    <3>3. g = [n \in 0 .. m + 1 |-> IF n = 0 THEN l ELSE ingest(f[n - 1], s[n])] BY DEF g
    <3> QED BY <3>2, <3>3
  <2>4. Ingests(g, l, s, m + 1) BY <2>3 DEF Ingests
  <2> QED BY <2>4
<1> HIDE DEF S
<1>3. Nat \subseteq S BY <1>1, <1>2, NatSetInduction
<1> QED BY <1>3 DEF S

LEMMA IngestsUnique ==
  ASSUME NEW l, NEW s, NEW m \in Nat, NEW k \in Nat, m <= k, NEW f, NEW g,
         Ingests(f, l, s, m), Ingests(g, l, s, k)
  PROVE  \A n \in 0 .. m : f[n] = g[n]
<1> DEFINE S == {n \in Nat : n <= m => f[n] = g[n]}
<1>1. 0 \in S BY DEF Ingests
<1>2. ASSUME NEW n \in Nat, n \in S PROVE n + 1 \in S
  <2>1. CASE n + 1 <= m
    <3>1. f[n] = g[n] BY <1>2, <2>1
    <3>2. f[n + 1] = ingest(f[(n + 1) - 1], s[n + 1]) BY <2>1 DEF Ingests
    <3>3. g[n + 1] = ingest(g[(n + 1) - 1], s[n + 1]) BY <2>1 DEF Ingests
    <3>4. (n + 1) - 1 = n OBVIOUS
    <3> QED BY <3>1, <3>2, <3>3, <3>4
  <2> QED BY <2>1
<1> HIDE DEF S
<1>3. Nat \subseteq S BY <1>1, <1>2, NatSetInduction
<1> QED BY <1>3 DEF S

\* What ingestAll is, computed step by step.
LEMMA IngestAllIs ==
  ASSUME NEW l, NEW s, Len(s) \in Nat, NEW f, Ingests(f, l, s, Len(s))
  PROVE  ingestAll(l, s) = f[Len(s)]
<1> DEFINE upto == CHOOSE g : Ingests(g, l, s, Len(s))
<1>1. ingestAll(l, s) = upto[Len(s)] BY DEF ingestAll, Ingests
<1>2. Ingests(upto, l, s, Len(s)) OBVIOUS
<1> HIDE DEF upto
<1> QED BY <1>1, <1>2, IngestsUnique

LEMMA IngestAllEmpty ==
  ASSUME NEW l
  PROVE  ingestAll(l, <<>>) = l
<1>1. Len(<<>>) = 0 OBVIOUS
<1>2. PICK f : Ingests(f, l, <<>>, 0) BY IngestsExists
<1>3. f[0] = l BY <1>2 DEF Ingests
<1>4. ingestAll(l, <<>>) = f[0] BY <1>1, <1>2, IngestAllIs
<1> QED BY <1>3, <1>4

LEMMA IngestAllAppend ==
  ASSUME NEW l, NEW S, NEW s \in Seq(S), NEW e \in S
  PROVE  ingestAll(l, Append(s, e)) = ingest(ingestAll(l, s), e)
<1> DEFINE n == Len(s)
           t == Append(s, e)
<1>1. n \in Nat /\ Len(t) = n + 1 /\ t[n + 1] = e /\ \A i \in 1 .. n : t[i] = s[i] OBVIOUS
<1>2. PICK f : Ingests(f, l, t, n + 1) BY <1>1, IngestsExists
<1>3. PICK g : Ingests(g, l, s, n) BY <1>1, IngestsExists
<1>4. Ingests(g, l, t, n)
  <2>1. \A i \in 0 .. n : i # 0 => t[i] = s[i] BY <1>1
  <2> HIDE DEF n, t
  <2> QED BY <1>3, <2>1 DEF Ingests
<1>5. f[n] = g[n]
  <2>1. \A i \in 0 .. n : g[i] = f[i] BY <1>1, <1>2, <1>4, IngestsUnique
  <2> QED BY <1>1, <2>1
<1>6. f[n + 1] = ingest(f[(n + 1) - 1], e) BY <1>1, <1>2 DEF Ingests
<1>7. ingestAll(l, t) = f[n + 1]
  <2>1. Len(t) \in Nat /\ Len(t) = n + 1 BY <1>1
  <2>2. Ingests(f, l, t, Len(t)) BY <1>2, <2>1
  <2> HIDE DEF n, t
  <2> QED BY <2>1, <2>2, IngestAllIs
<1>8. ingestAll(l, s) = g[n] BY <1>1, <1>3, IngestAllIs
<1>9. (n + 1) - 1 = n BY <1>1
<1> QED BY <1>5, <1>6, <1>7, <1>8, <1>9

-----------------------------------------------------------------------------
(* Taking in one entry                                                     *)

LEMMA HeadIsFirst ==
  ASSUME NEW S, NEW q \in Seq(S), q # <<>>
  PROVE  /\ Len(q) \in Nat \ {0} /\ Head(q) = q[1] /\ q[1] \in S
         /\ Tail(q) \in Seq(S) /\ Len(Tail(q)) = Len(q) - 1
         /\ \A i \in 1 .. Len(q) - 1 : Tail(q)[i] = q[i + 1]
OBVIOUS

\* What the page shows afterwards: the same, or the entry behind all or all but
\* the oldest of what it showed.
LEMMA IngestShows ==
  ASSUME NEW l \in Lists, NEW e \in Entries, e.id \notin l.seen
  PROVE  LET n == Len(l.entries)
             new == ingest(l, e)
         IN  /\ n \in 0 .. MAX_ROWS
             /\ new.entries \in Seq(Entries)
             /\ \/ /\ Len(new.entries) = n + 1 /\ n < MAX_ROWS
                   /\ \A i \in 1 .. n : new.entries[i] = l.entries[i]
                   /\ new.seen = l.seen \union {e.id}
                \/ /\ Len(new.entries) = n /\ n = MAX_ROWS
                   /\ \A i \in 1 .. n - 1 : new.entries[i] = l.entries[i + 1]
                   /\ new.seen = (l.seen \union {e.id}) \ {l.entries[1].id}
             /\ new.entries[Len(new.entries)] = e
<1> DEFINE n == Len(l.entries)
           all == Append(l.entries, e)
           new == ingest(l, e)
<1>0. MAX_ROWS \in Nat \ {0} BY PageAssumption
<1>1. l.entries \in Seq(Entries) /\ n \in 0 .. MAX_ROWS BY <1>0 DEF Lists
<1>2. /\ all \in Seq(Entries) /\ Len(all) = n + 1 /\ all[n + 1] = e
      /\ \A i \in 1 .. n : all[i] = l.entries[i]
  BY <1>1
<1>3. CASE n < MAX_ROWS
  <2>1. ~(Len(all) > MAX_ROWS) BY <1>0, <1>1, <1>2, <1>3
  <2>2. new = [entries |-> all, seen |-> l.seen \union {e.id}] BY <2>1 DEF ingest
  <2>3. new.entries = all /\ new.seen = l.seen \union {e.id} BY <2>2
  <2> QED BY <1>1, <1>2, <1>3, <2>3
<1>4. CASE n = MAX_ROWS
  <2>1. Len(all) > MAX_ROWS BY <1>0, <1>1, <1>2, <1>4
  <2>2. new = [entries |-> Tail(all), seen |-> (l.seen \union {e.id}) \ {Head(all).id}]
    BY <2>1 DEF ingest
  <2>3. new.entries = Tail(all) /\ new.seen = (l.seen \union {e.id}) \ {Head(all).id} BY <2>2
  <2>4. all # <<>> BY <1>1, <1>2
  <2>9. Head(all) = all[1] BY <1>2, <2>4, HeadIsFirst
  <2>5. all[1] = l.entries[1] BY <1>0, <1>1, <1>2, <1>4
  <2>6. /\ Tail(all) \in Seq(Entries) /\ Len(Tail(all)) = n
        /\ \A i \in 1 .. n : Tail(all)[i] = all[i + 1]
    BY <1>1, <1>2, <2>4, HeadIsFirst
  <2>7. Tail(all)[n] = e BY <1>0, <1>2, <1>4, <2>6
  <2>8. \A i \in 1 .. n - 1 : Tail(all)[i] = l.entries[i + 1] BY <1>1, <1>2, <2>6
  <2> QED BY <1>1, <1>4, <2>3, <2>5, <2>6, <2>7, <2>8, <2>9
<1> QED BY <1>0, <1>1, <1>3, <1>4

LEMMA IngestKnown ==
  ASSUME NEW l, NEW e, e.id \in l.seen
  PROVE  ingest(l, e) = l
BY DEF ingest

LEMMA IngestTyped ==
  ASSUME NEW l \in Lists, NEW e \in Entries
  PROVE  ingest(l, e) \in Lists
<1>1. CASE e.id \in l.seen BY <1>1, IngestKnown
<1>2. CASE e.id \notin l.seen
  <2> DEFINE new == ingest(l, e)
  <2>1. l.seen \subseteq 1 .. MaxID /\ e.id \in 1 .. MaxID /\ MAX_ROWS \in Nat
    BY PageAssumption DEF Lists, Entries
  <2>2. new.entries \in Seq(Entries) /\ Len(new.entries) <= MAX_ROWS
    BY <1>2, <2>1, IngestShows
  <2>3. new.seen \subseteq 1 .. MaxID BY <1>2, <2>1, IngestShows
  <2>4. \E s, t : new = [entries |-> s, seen |-> t] BY <1>2 DEF ingest
  <2>5. new = [entries |-> new.entries, seen |-> new.seen] BY <2>4
  <2> QED BY <2>2, <2>3, <2>5 DEF Lists
<1> QED BY <1>1, <1>2

LEMMA IngestFrom ==
  ASSUME NEW l \in Lists, NEW e \in Entries
  PROVE  ToSet(ingest(l, e).entries) \subseteq ToSet(l.entries) \union {e}
<1>1. CASE e.id \in l.seen BY <1>1, IngestKnown
<1>2. CASE e.id \notin l.seen
  <2> DEFINE n == Len(l.entries)
             new == ingest(l, e).entries
  <2>1. l.entries \in Seq(Entries) /\ n \in Nat /\ new \in Seq(Entries)
    BY <1>2, IngestShows DEF Lists
  <2>2. ASSUME NEW i \in DOMAIN new PROVE new[i] = e \/ \E j \in DOMAIN l.entries : new[i] = l.entries[j]
    <3>1. i \in 1 .. Len(new) /\ new[Len(new)] = e BY <1>2, <2>1, IngestShows
    <3>2. DOMAIN l.entries = 1 .. n BY <2>1
    <3>3. CASE i = Len(new) BY <3>1, <3>3
    <3>4. CASE i < Len(new)
      <4>1. CASE Len(new) = n + 1 /\ \A k \in 1 .. n : new[k] = l.entries[k]
        BY <2>1, <3>1, <3>2, <3>4, <4>1
      <4>2. CASE Len(new) = n /\ \A k \in 1 .. n - 1 : new[k] = l.entries[k + 1]
        <5>1. i + 1 \in 1 .. n /\ new[i] = l.entries[i + 1] BY <2>1, <3>1, <3>4, <4>2
        <5> QED BY <3>2, <5>1
      <4> QED BY <1>2, <4>1, <4>2, IngestShows
    <3> QED BY <2>1, <3>1, <3>3, <3>4
  <2> QED BY <2>2 DEF ToSet
<1> QED BY <1>1, <1>2

LEMMA KnowsMeans ==
  ASSUME NEW l, NEW n, DOMAIN l.entries = 1 .. n,
         \A i \in 1 .. n : l.entries[i].id \in l.seen,
         \A x \in l.seen : \E i \in 1 .. n : x = l.entries[i].id,
         \A i, j \in 1 .. n : l.entries[i].id = l.entries[j].id => i = j
  PROVE  KnowsItsEntries(l)
<1>1. \A e \in ToSet(l.entries) : e.id \in l.seen BY DEF ToSet
<1>2. \A x \in l.seen : \E e \in ToSet(l.entries) : x = e.id BY DEF ToSet
<1>3. l.seen = {e.id : e \in ToSet(l.entries)} BY <1>1, <1>2
<1> QED BY <1>3 DEF KnowsItsEntries

LEMMA ToSetAppend ==
  ASSUME NEW S, NEW s \in Seq(S), NEW e \in S
  PROVE  ToSet(Append(s, e)) = ToSet(s) \union {e}
<1> DEFINE t == Append(s, e)
           n == Len(s)
<1>1. n \in Nat /\ DOMAIN s = 1 .. n /\ DOMAIN t = 1 .. n + 1 /\ t[n + 1] = e /\ \A i \in 1 .. n : t[i] = s[i]
  OBVIOUS
<1>2. \A i \in 1 .. n + 1 : i = n + 1 \/ i \in 1 .. n BY <1>1
<1>3. n + 1 \in 1 .. n + 1 /\ \A i \in 1 .. n : i \in 1 .. n + 1 BY <1>1
<1> HIDE DEF t, n
<1>4. ToSet(t) = ToSet(s) \union {e} BY <1>1, <1>2, <1>3 DEF ToSet
<1> QED BY <1>4 DEF t

LEMMA ToSetConcat ==
  ASSUME NEW S, NEW s \in Seq(S), NEW t \in Seq(S)
  PROVE  ToSet(s) \union ToSet(t) \subseteq ToSet(s \o t)
<1> DEFINE u == s \o t
           m == Len(s)
           n == Len(t)
<1>1. /\ m \in Nat /\ n \in Nat /\ DOMAIN s = 1 .. m /\ DOMAIN t = 1 .. n /\ DOMAIN u = 1 .. m + n
      /\ \A i \in 1 .. m + n : u[i] = IF i <= m THEN s[i] ELSE t[i - m]
  OBVIOUS
<1> HIDE DEF u, m, n
<1>2. ASSUME NEW x \in ToSet(s) PROVE x \in ToSet(u)
  <2>1. PICK i \in 1 .. m : x = s[i] BY <1>1 DEF ToSet
  <2>2. i \in 1 .. m + n /\ i <= m BY <1>1
  <2> QED BY <1>1, <2>1, <2>2 DEF ToSet
<1>3. ASSUME NEW x \in ToSet(t) PROVE x \in ToSet(u)
  <2>1. PICK i \in 1 .. n : x = t[i] BY <1>1 DEF ToSet
  <2>2. m + i \in 1 .. m + n /\ ~(m + i <= m) /\ (m + i) - m = i BY <1>1
  <2>3. u[m + i] = x BY <1>1, <2>1, <2>2
  <2> QED BY <1>1, <2>2, <2>3 DEF ToSet
<1> QED BY <1>2, <1>3 DEF u

\* The page still knows exactly the ids it shows.
LEMMA IngestKnows ==
  ASSUME NEW l \in Lists, NEW e \in Entries, KnowsItsEntries(l)
  PROVE  KnowsItsEntries(ingest(l, e))
<1>1. CASE e.id \in l.seen BY <1>1, IngestKnown
<1>2. CASE e.id \notin l.seen
  <2> DEFINE n == Len(l.entries)
             old == l.entries
             new == ingest(l, e).entries
             seen == ingest(l, e).seen
  <2>1. /\ old \in Seq(Entries) /\ n \in Nat /\ new \in Seq(Entries) /\ DOMAIN old = 1 .. n
        /\ DOMAIN new = 1 .. Len(new) /\ Len(new) \in Nat /\ n <= MAX_ROWS
    BY <1>2, IngestShows DEF Lists
  <2>2. \A i \in 1 .. n : old[i].id \in l.seen BY <2>1 DEF KnowsItsEntries, ToSet
  <2>3. \A x \in l.seen : \E i \in 1 .. n : x = old[i].id BY <2>1 DEF KnowsItsEntries, ToSet
  <2>4. \A i, j \in 1 .. n : old[i].id = old[j].id => i = j BY <2>1 DEF KnowsItsEntries
  <2>5. CASE /\ Len(new) = n + 1 /\ \A i \in 1 .. n : new[i] = old[i]
             /\ seen = l.seen \union {e.id} /\ new[n + 1] = e
    <3>1. \A i \in 1 .. n + 1 : i = n + 1 \/ i \in 1 .. n BY <2>1
    <3>2. \A i \in 1 .. n + 1 : new[i].id \in seen BY <2>2, <2>5, <3>1
    <3>3. \A x \in seen : \E i \in 1 .. n + 1 : x = new[i].id
      <4> SUFFICES ASSUME NEW x \in seen PROVE \E i \in 1 .. n + 1 : x = new[i].id OBVIOUS
      <4>1. CASE x = e.id
        <5>1. n + 1 \in 1 .. n + 1 BY <2>1
        <5> QED BY <2>5, <4>1, <5>1
      <4>2. CASE x \in l.seen
        <5>1. PICK i \in 1 .. n : x = old[i].id BY <2>3, <4>2
        <5>2. i \in 1 .. n + 1 BY <2>1
        <5> QED BY <2>5, <5>1, <5>2
      <4> QED BY <2>5, <4>1, <4>2
    <3>4. \A i, j \in 1 .. n + 1 : new[i].id = new[j].id => i = j BY <1>2, <2>2, <2>4, <2>5, <3>1
    <3> QED BY <2>1, <2>5, <3>2, <3>3, <3>4, KnowsMeans
  <2>6. CASE /\ Len(new) = n /\ n = MAX_ROWS /\ \A i \in 1 .. n - 1 : new[i] = old[i + 1]
             /\ seen = (l.seen \union {e.id}) \ {old[1].id} /\ new[n] = e
    <3>0. n > 0 BY <2>1, <2>6, PageAssumption
    <3>1. \A i \in 1 .. n : i = n \/ (i \in 1 .. n - 1 /\ i + 1 \in 1 .. n /\ i + 1 # 1) BY <2>1
    <3>2. 1 \in 1 .. n BY <2>1, <3>0
    <3>3. \A i \in 1 .. n - 1 : new[i].id \in l.seen /\ new[i].id # old[1].id
      BY <2>1, <2>2, <2>4, <2>6, <3>1, <3>2
    <3>4. e.id # old[1].id BY <1>2, <2>2, <3>2
    <3>5. \A i \in 1 .. n : new[i].id \in seen BY <2>6, <3>1, <3>3, <3>4
    <3>6. \A x \in seen : \E i \in 1 .. n : x = new[i].id
      <4> SUFFICES ASSUME NEW x \in seen PROVE \E i \in 1 .. n : x = new[i].id OBVIOUS
      <4>1. CASE x = e.id
        <5>1. n \in 1 .. n BY <2>1, <3>0
        <5> QED BY <2>6, <4>1, <5>1
      <4>2. CASE x \in l.seen
        <5>1. PICK i \in 1 .. n : x = old[i].id BY <2>3, <4>2
        <5>2. i # 1 BY <2>6, <5>1
        <5>3. i - 1 \in 1 .. n - 1 /\ i - 1 \in 1 .. n /\ (i - 1) + 1 = i BY <2>1, <5>1, <5>2
        <5>4. new[i - 1] = old[i] BY <2>6, <5>3
        <5> QED BY <5>1, <5>3, <5>4
      <4> QED BY <2>6, <4>1, <4>2
    <3>7. \A i, j \in 1 .. n : new[i].id = new[j].id => i = j
      <4> SUFFICES ASSUME NEW i \in 1 .. n, NEW j \in 1 .. n, new[i].id = new[j].id PROVE i = j OBVIOUS
      <4>1. CASE i = n /\ j # n BY <1>2, <2>6, <3>1, <3>3, <4>1
      <4>2. CASE i # n /\ j = n BY <1>2, <2>6, <3>1, <3>3, <4>2
      <4>3. CASE i # n /\ j # n
        <5>1. old[i + 1].id = old[j + 1].id /\ i + 1 \in 1 .. n /\ j + 1 \in 1 .. n
          BY <2>6, <3>1, <4>3
        <5>2. i + 1 = j + 1 BY <2>4, <5>1
        <5> QED BY <5>2
      <4> QED BY <4>1, <4>2, <4>3
    <3> QED BY <2>1, <2>6, <3>5, <3>6, <3>7, KnowsMeans
  <2> QED BY <1>2, <2>1, <2>5, <2>6, IngestShows
<1> QED BY <1>1, <1>2

\* The entry that comes next on the stream: if it is not on the page, it is
\* newer than all that is, and then the order is kept and no gap opens, since
\* the page holds as much as the buffer.
LEMMA IngestReaches ==
  ASSUME NEW l \in Lists, NEW e \in Entries, KnowsItsEntries(l), Ordered(l),
         NEW old \in Nat, NEW k \in Nat, NEW last \in Nat,
         e.id = k + 1, k + 1 <= last, last - old <= BufferCapacity,
         GapFreeFrom(l, old), GapFreeFrom(l, k),
         k > old => \E i \in DOMAIN l.entries : l.entries[i].id >= k
  PROVE  /\ Ordered(ingest(l, e))
         /\ GapFreeFrom(ingest(l, e), old) /\ GapFreeFrom(ingest(l, e), k + 1)
         /\ k + 1 > old =>
              \E i \in DOMAIN ingest(l, e).entries : ingest(l, e).entries[i].id >= k + 1
<1> DEFINE n == Len(l.entries)
           s == l.entries
           new == ingest(l, e)
           t == new.entries
<1>1. /\ s \in Seq(Entries) /\ n \in Nat /\ DOMAIN s = 1 .. n
      /\ \A i \in 1 .. n : s[i].id \in Nat /\ s[i].id \in l.seen
  <2>1. s \in Seq(Entries) /\ n \in Nat /\ DOMAIN s = 1 .. n BY DEF Lists
  <2>2. \A i \in 1 .. n : s[i] \in Entries BY <2>1
  <2>3. \A i \in 1 .. n : s[i].id \in Nat BY <2>2, PageAssumption DEF Entries
  <2>4. \A i \in 1 .. n : s[i].id \in l.seen BY <2>1 DEF KnowsItsEntries, ToSet
  <2> QED BY <2>1, <2>3, <2>4
<1>2. CASE e.id \in l.seen
  <2>1. new = l BY <1>2, IngestKnown
  <2>2. PICK i \in 1 .. n : s[i].id = k + 1 BY <1>1, <1>2 DEF KnowsItsEntries, ToSet
  <2>3. k + 1 >= k + 1 OBVIOUS
  <2>4. GapFreeFrom(l, k + 1)
    <3>1. CASE n > 0
      <4>1. s[n].id \in Nat BY <1>1, <3>1
      <4> HIDE DEF s, n
      <4>2. \A id \in (k + 1) + 1 .. s[n].id : id \in k + 1 .. s[n].id BY <4>1
      <4> QED BY <3>1, <4>2 DEF GapFreeFrom, s, n
    <3> QED BY <3>1 DEF GapFreeFrom
  <2> QED BY <1>1, <2>1, <2>2, <2>3, <2>4
<1>3. CASE e.id \notin l.seen
  <2>1. ASSUME NEW i \in 1 .. n PROVE s[i].id <= k
    <3>1. s[i].id <= s[n].id /\ n \in 1 .. n /\ s[n].id \in Nat /\ s[i].id \in Nat
      <4>1. n \in 1 .. n /\ s[n].id \in Nat /\ s[i].id \in Nat BY <1>1
      <4>2. i = n \/ i < n BY <1>1
      <4>3. CASE i < n
        <5>1. s[i].id < s[n].id BY <1>1, <4>1, <4>3 DEF Ordered
        <5> QED BY <4>1, <5>1
      <4>4. CASE i = n BY <4>1, <4>4
      <4> QED BY <4>1, <4>2, <4>3, <4>4
    <3>2. ~(s[n].id >= k + 1)
      <4> SUFFICES ASSUME s[n].id >= k + 1 PROVE FALSE OBVIOUS
      <4>1. k + 1 \in k + 1 .. s[n].id BY <3>1
      <4>2. n > 0 BY <1>1, <3>1
      <4>3. PICK j \in 1 .. n : s[j].id = k + 1 BY <4>1, <4>2 DEF GapFreeFrom
      <4> QED BY <1>1, <1>3, <4>3
    <3> HIDE DEF s
    <3> QED BY <3>1, <3>2
  \* What there is between old and k lies right before the new entry.
  <2>2. ASSUME NEW x \in old + 1 .. k PROVE n - (k - x) \in 1 .. n /\ s[n - (k - x)].id = x
    <3>1. k > old OBVIOUS
    <3>2. PICK i \in 1 .. n : s[i].id >= k BY <1>1, <3>1
    <3>3. n > 0 /\ n \in 1 .. n BY <1>1
    <3>4. s[i].id \in Nat /\ s[n].id \in Nat BY <1>1, <3>3
    <3>5. s[i].id <= s[n].id
      <4>1. CASE i < n
        <5>1. s[i].id < s[n].id BY <1>1, <3>3, <4>1 DEF Ordered
        <5> QED BY <3>4, <5>1
      <4>2. CASE i = n BY <3>4, <4>2
      <4> QED BY <1>1, <4>1, <4>2
    <3>6. s[n].id <= k BY <2>1, <3>3
    <3>7. s[n].id = k
      <4> DEFINE a == s[i].id
                 b == s[n].id
      <4>1. a \in Nat /\ b \in Nat /\ a >= k /\ a <= b /\ b <= k BY <3>2, <3>4, <3>5, <3>6
      <4> HIDE DEF a, b
      <4>2. b = k BY <4>1
      <4> QED BY <4>2 DEF b
    <3> QED BY <3>3, <3>7 DEF GapFreeFrom
  <2>3. /\ t \in Seq(Entries) /\ Len(t) \in Nat \ {0} /\ DOMAIN t = 1 .. Len(t) /\ t[Len(t)] = e
        /\ n <= MAX_ROWS
    <3>1. MAX_ROWS \in Nat \ {0} BY PageAssumption
    <3>2. t \in Seq(Entries) /\ t[Len(t)] = e /\ n <= MAX_ROWS BY <1>3, <3>1, IngestShows
    <3>3. Len(t) = n + 1 \/ (Len(t) = n /\ n = MAX_ROWS) BY <1>3, IngestShows
    <3>4. Len(t) \in Nat \ {0} BY <1>1, <3>1, <3>3
    <3>5. DOMAIN t = 1 .. Len(t) BY <3>2
    <3> QED BY <3>2, <3>4, <3>5
  <2>4. Len(t) \in 1 .. Len(t) /\ t[Len(t)].id = k + 1 BY <2>3
  <2>5. \E i \in DOMAIN t : t[i].id >= k + 1
    <3>1. k + 1 >= k + 1 OBVIOUS
    <3> QED BY <2>3, <2>4, <3>1
  <2>6. GapFreeFrom(new, k + 1)
    <3>1. \A id \in (k + 1) + 1 .. k + 1 : FALSE OBVIOUS
    <3> QED BY <2>4, <3>1 DEF GapFreeFrom
  <2>7. CASE Len(t) = n + 1 /\ \A i \in 1 .. n : t[i] = s[i]
    <3>1. Ordered(new)
      <4> SUFFICES ASSUME NEW i \in 1 .. n + 1, NEW j \in 1 .. n + 1, i < j PROVE t[i].id < t[j].id
        BY <2>3, <2>7 DEF Ordered
      <4>1. CASE j = n + 1
        <5>0. i \in 1 .. n BY <1>1, <4>1
        <5>1. t[i].id <= k /\ t[i].id \in Nat BY <1>1, <2>1, <2>7, <5>0
        <5> DEFINE a == t[i].id
        <5>2. a \in Nat /\ a <= k BY <5>1
        <5> HIDE DEF a
        <5>3. a < k + 1 BY <5>2
        <5> QED BY <2>4, <2>7, <4>1, <5>3 DEF a
      <4>2. CASE j # n + 1
        <5>1. i \in 1 .. n /\ j \in 1 .. n BY <1>1, <4>2
        <5>2. t[i] = s[i] /\ t[j] = s[j] BY <2>7, <5>1
        <5>3. s[i].id < s[j].id BY <1>1, <5>1 DEF Ordered
        <5> QED BY <5>2, <5>3
      <4> QED BY <4>1, <4>2
    <3>2. GapFreeFrom(new, old)
      <4>1. ASSUME NEW x \in old + 1 .. k + 1
            PROVE  (n + 1) - ((k + 1) - x) \in 1 .. n + 1 /\ t[(n + 1) - ((k + 1) - x)].id = x
        <5>1. CASE x = k + 1
          <6>1. (n + 1) - ((k + 1) - x) = n + 1 BY <1>1, <5>1
          <6> QED BY <1>1, <2>4, <2>7, <5>1, <6>1
        <5>2. CASE x # k + 1
          <6>1. x \in old + 1 .. k BY <5>2
          <6>2. (n + 1) - ((k + 1) - x) = n - (k - x) BY <1>1
          <6>3. n - (k - x) \in 1 .. n /\ s[n - (k - x)].id = x BY <2>2, <6>1
          <6>4. n - (k - x) \in 1 .. n + 1 BY <1>1, <6>3
          <6> QED BY <2>7, <6>2, <6>3, <6>4
        <5> QED BY <5>1, <5>2
      <4> QED BY <2>4, <2>7, <4>1 DEF GapFreeFrom
    <3> QED BY <2>5, <2>6, <3>1, <3>2
  <2>8. CASE Len(t) = n /\ n = MAX_ROWS /\ \A i \in 1 .. n - 1 : t[i] = s[i + 1]
    <3>0. n > 0 BY <2>3, <2>8
    <3>1. Ordered(new)
      <4> SUFFICES ASSUME NEW i \in 1 .. n, NEW j \in 1 .. n, i < j PROVE t[i].id < t[j].id
        BY <2>3, <2>8 DEF Ordered
      <4>0. i \in 1 .. n - 1 /\ i + 1 \in 1 .. n /\ t[i] = s[i + 1]
        <5>1. i \in 1 .. n - 1 /\ i + 1 \in 1 .. n BY <1>1
        <5> QED BY <2>8, <5>1
      <4>1. CASE j = n
        <5> DEFINE a == s[i + 1].id
        <5>1. a \in Nat /\ a <= k BY <1>1, <2>1, <4>0
        <5> HIDE DEF a
        <5>2. a < k + 1 BY <5>1
        <5> QED BY <2>4, <2>8, <4>0, <4>1, <5>2 DEF a
      <4>2. CASE j # n
        <5>1. j \in 1 .. n - 1 /\ j + 1 \in 1 .. n /\ i + 1 < j + 1 BY <1>1, <4>2
        <5>2. t[j] = s[j + 1] BY <2>8, <5>1
        <5>3. s[i + 1].id < s[j + 1].id BY <1>1, <4>0, <5>1 DEF Ordered
        <5> QED BY <4>0, <5>2, <5>3
      <4> QED BY <4>1, <4>2
    <3>2. GapFreeFrom(new, old)
      <4>1. ASSUME NEW x \in old + 1 .. k + 1
            PROVE  n - ((k + 1) - x) \in 1 .. n /\ t[n - ((k + 1) - x)].id = x
        <5>1. CASE x = k + 1
          <6>1. n - ((k + 1) - x) = n BY <1>1, <5>1
          <6> QED BY <1>1, <2>4, <2>8, <3>0, <5>1, <6>1
        <5>2. CASE x # k + 1
          <6> DEFINE i == n - ((k + 1) - x)
          <6>1. x \in old + 1 .. k BY <5>2
          <6>2. n - (k - x) \in 1 .. n /\ s[n - (k - x)].id = x BY <2>2, <6>1
          <6>3. (k + 1) - x < n
            <7>1. BufferCapacity \in Nat /\ MAX_ROWS \in Nat /\ BufferCapacity <= MAX_ROWS
              BY PageAssumption
            <7> QED BY <1>1, <2>8, <6>1, <7>1
          <6>4. i \in 1 .. n - 1 /\ i + 1 = n - (k - x) BY <1>1, <6>1, <6>3
          <6>5. t[i] = s[i + 1] BY <2>8, <6>4
          <6>6. i \in 1 .. n BY <1>1, <6>4
          <6> QED BY <6>2, <6>4, <6>5, <6>6
        <5> QED BY <5>1, <5>2
      <4> QED BY <2>4, <2>8, <4>1 DEF GapFreeFrom
    <3> QED BY <2>5, <2>6, <3>1, <3>2
  <2> QED BY <1>3, <2>7, <2>8, IngestShows
<1> QED BY <1>2, <1>3

LEMMA GapFreeLater ==
  ASSUME NEW l \in Lists, NEW a \in Int, NEW b \in Int, a <= b, GapFreeFrom(l, a)
  PROVE  GapFreeFrom(l, b)
<1> DEFINE n == Len(l.entries)
           newest == l.entries[n].id
<1>1. CASE n > 0
  <2>1. l.entries \in Seq(Entries) /\ n \in Nat BY DEF Lists
  <2>2. l.entries[n] \in Entries BY <1>1, <2>1
  <2>3. newest \in Int BY <2>2, PageAssumption DEF Entries
  <2>4. \A id \in b + 1 .. newest : id \in a + 1 .. newest
    <3> HIDE DEF newest
    <3> QED BY <2>3
  <2> QED BY <1>1, <2>4 DEF GapFreeFrom
<1>2. CASE ~(n > 0) BY <1>2 DEF GapFreeFrom
<1> QED BY <1>1, <1>2

-----------------------------------------------------------------------------
(* Types                                                                   *)

LEMMA SnapshotTyped ==
  ASSUME TypeOK
  PROVE  Snapshot \in Seq(Entries) /\ Len(Snapshot) = lastID - oldest
<1>1. lastID \in Nat /\ oldest \in Nat /\ lastID - oldest \in Nat /\ lastID <= MaxID
  BY PageAssumption DEF TypeOK
<1>2. \A i \in 1 .. lastID - oldest : [run |-> run, id |-> oldest + i] \in Entries
  BY <1>1, PageAssumption DEF TypeOK, Entries
<1> QED BY <1>1, <1>2 DEF Snapshot

LEMMA TypeInit == Init => TypeOK
<1>1. Empty \in Lists BY PageAssumption DEF Empty, Lists
<1>2. 1 \in 1 .. MaxRuns /\ 0 \in 0 .. MaxID /\ 0 \in 0 .. 0 /\ 0 \in 0 .. MaxDrops /\ 0 \in 0 .. MaxLogins
  BY PageAssumption
<1>3. <<>> \in Seq(Entries) OBVIOUS
<1> QED BY <1>1, <1>2, <1>3 DEF Init, TypeOK

\* The actions of the server and the failures.
LEMMA ServerTypes ==
  ASSUME TypeOK,
         \/ Add \/ Expire \/ Restart \/ Drop \/ LoseStatus \/ LoginElsewhere \/ Server
  PROVE  TypeOK'
<1>1. CASE Add
  <2>1. lastID' \in 1 .. MaxID /\ [run |-> run, id |-> lastID'] \in Entries
    BY <1>1, PageAssumption DEF Add, TypeOK, Entries
  <2>2. oldest' \in 0 .. lastID' BY <1>1, PageAssumption DEF Add, TypeOK
  <2>3. wire' \in Seq(Entries) BY <1>1, <2>1 DEF Add, TypeOK
  <2> QED BY <1>1, <2>1, <2>2, <2>3 DEF Add, TypeOK
<1>2. CASE Expire BY <1>2 DEF Expire, TypeOK, page
<1>3. CASE Restart
  <2>1. run' \in 1 .. MaxRuns /\ 0 \in 0 .. MaxID /\ 0 \in 0 .. 0
    BY <1>3, PageAssumption DEF Restart, TypeOK
  <2>2. <<>> \in Seq(Entries) OBVIOUS
  <2> QED BY <1>3, <2>1, <2>2 DEF Restart, TypeOK
<1>4. CASE Drop BY <1>4, PageAssumption DEF Drop, TypeOK, server
<1>5. CASE LoseStatus BY <1>5, PageAssumption DEF LoseStatus, TypeOK, server
<1>6. CASE LoginElsewhere
  <2>1. logins' \in 0 .. MaxLogins BY <1>6, PageAssumption DEF LoginElsewhere, TypeOK
  <2> QED BY <1>6, <2>1 DEF LoginElsewhere, TypeOK, Stale
<1>7. CASE AnswerStatus BY <1>7 DEF AnswerStatus, TypeOK, server
<1>8. CASE AnswerClear
  <2>1. oldest' \in 0 .. lastID BY <1>8, PageAssumption DEF AnswerClear, TypeOK
  <2> QED BY <1>8, <2>1 DEF AnswerClear, TypeOK
<1>9. CASE AnswerStream BY <1>9, SnapshotTyped DEF AnswerStream, TypeOK, server
<1> QED BY <1>1, <1>2, <1>3, <1>4, <1>5, <1>6, <1>7, <1>8, <1>9 DEF Server

\* The actions of the page and of its user.
LEMMA PageTypes ==
  ASSUME TypeOK, HeldInv,
         Browser \/ Pause \/ Resume \/ Login \/ Logout \/ AskClear
  PROVE  TypeOK'
<1>0. <<>> \in Seq(Entries) /\ Empty \in Lists BY PageAssumption DEF Empty, Lists
<1>1. CASE Message
  <2>1. Head(wire) \in Entries /\ Tail(wire) \in Seq(Entries)
    BY <1>1, HeadIsFirst DEF Message, TypeOK
  <2> DEFINE e == Head(wire)
  <2>2. held' \in Seq(Entries) /\ list' \in Lists
    <3>1. Append(held, e) \in Seq(Entries) BY <2>1 DEF TypeOK
    <3>2. ingest(list, e) \in Lists BY <2>1, IngestTyped DEF TypeOK
    <3> HIDE DEF e
    <3>3. \/ held' = Append(held, e) /\ UNCHANGED list
          \/ list' = ingest(list, e) /\ UNCHANGED held
      BY <1>1 DEF Message, e
    <3> QED BY <3>1, <3>2, <3>3 DEF TypeOK
  <2> QED BY <1>1, <2>1, <2>2 DEF Message, TypeOK, server
<1>2. CASE refreshStatus BY <1>0, <1>2 DEF refreshStatus, showLogin, TypeOK, server
<1>3. CASE OnError BY <1>3 DEF OnError, TypeOK, server
<1>4. CASE Retry BY <1>0, <1>4 DEF Retry, showLogin, connect, TypeOK, server
<1>5. CASE Cleared
  <2>1. overtaken' \in BOOLEAN BY <1>5 DEF Cleared, TypeOK
  <2> QED BY <1>0, <1>5, <2>1 DEF Cleared, TypeOK, server
<1>6. CASE ClearRefused BY <1>0, <1>6 DEF ClearRefused, showLogin, TypeOK, server
<1>7. CASE Pause BY <1>7 DEF Pause, TypeOK, server
<1>8. CASE Resume BY <1>0, <1>8 DEF Resume, HeldInv, Unpaused, TypeOK, server
<1>9. CASE Login
  <2>1. logins' \in 0 .. MaxLogins BY <1>9, PageAssumption DEF Login, TypeOK
  <2> QED BY <1>0, <1>9, <2>1 DEF Login, connect, Stale, TypeOK
<1>10. CASE Logout BY <1>0, <1>10 DEF Logout, showLogin, TypeOK
<1>11. CASE AskClear BY <1>11 DEF AskClear, TypeOK, server
<1> QED BY <1>1, <1>2, <1>3, <1>4, <1>5, <1>6, <1>7, <1>8, <1>9, <1>10, <1>11 DEF Browser

-----------------------------------------------------------------------------
(* The steps that leave the page's list as it is                           *)

LEMMA HeldFrame ==
  ASSUME HeldInv, UNCHANGED <<list, held>>, paused => paused'
  PROVE  HeldInv' /\ Unpaused' = Unpaused /\ OnPage' = OnPage
<1>1. Unpaused' = Unpaused BY DEF Unpaused
<1>2. OnPage' = OnPage BY DEF OnPage
<1> QED BY <1>1, <1>2 DEF HeldInv

\* The buffer only moves on, and the stream stays where it is, or starts where
\* the buffer does.
LEMMA ReachFrame ==
  ASSUME PageInv, UNCHANGED <<list, held, run, overtaken>>, paused => paused',
         lastID <= lastID', oldest <= oldest', lastID' \in Nat, oldest' \in Nat,
         es' = "open" => (es = "open" /\ Delivered' = Delivered) \/ Delivered' = oldest'
  PROVE  ReachInv'
<1>0. TypeOK /\ HeldInv /\ ReachInv BY DEF PageInv
<1>1. Unpaused' = Unpaused /\ OnPage' = OnPage BY <1>0, HeldFrame
<1>2. lastID \in Nat /\ oldest \in Nat BY <1>0, PageAssumption DEF TypeOK
<1>3. ASSUME run' = 1, NEW e \in OnPage' PROVE e.run = 1 /\ e.id <= lastID'
  <2>1. e.run = 1 /\ e.id <= lastID /\ e \in Entries
    BY <1>0, <1>1, <1>3 DEF ReachInv, OnPage, ToSet, TypeOK, Lists
  <2>2. e.id \in Nat BY <2>1, PageAssumption DEF Entries
  <2> QED BY <1>2, <2>1, <2>2
<1>4. ASSUME run' = 1, ~overtaken'
      PROVE  /\ Ordered(list)' /\ Ordered(Unpaused)' /\ GapFreeFrom(Unpaused, oldest)'
             /\ es' = "open" =>
                  /\ GapFreeFrom(Unpaused, Delivered)'
                  /\ Delivered' > oldest' =>
                       \E i \in DOMAIN Unpaused'.entries : Unpaused'.entries[i].id >= Delivered'
  <2>1. run = 1 /\ ~overtaken BY <1>4
  <2>2. Ordered(list) /\ Ordered(Unpaused) /\ GapFreeFrom(Unpaused, oldest)
    BY <1>0, <2>1 DEF ReachInv
  <2>3. Ordered(list)' /\ Ordered(Unpaused)' BY <1>1, <2>2 DEF Ordered
  <2>4. Unpaused \in Lists BY <1>0 DEF HeldInv
  <2>5. GapFreeFrom(Unpaused, oldest') BY <1>2, <2>2, <2>4, GapFreeLater
  <2>6. GapFreeFrom(Unpaused, oldest)' BY <1>1, <2>5 DEF GapFreeFrom
  <2>7. CASE es' = "open" /\ es = "open" /\ Delivered' = Delivered
    <3>1. GapFreeFrom(Unpaused, Delivered) BY <1>0, <2>1, <2>7 DEF ReachInv
    <3>2. GapFreeFrom(Unpaused, Delivered)' BY <1>1, <2>7, <3>1 DEF GapFreeFrom
    <3>3. Delivered \in Int BY <1>0, <1>2 DEF Delivered, TypeOK
    <3>4. Delivered > oldest' => Delivered > oldest BY <1>2, <3>3
    <3>5. Delivered > oldest => \E i \in DOMAIN Unpaused.entries : Unpaused.entries[i].id >= Delivered
      BY <1>0, <2>1, <2>7 DEF ReachInv
    <3> QED BY <1>1, <2>3, <2>6, <2>7, <3>2, <3>4, <3>5
  <2>8. CASE Delivered' = oldest'
    <3>1. GapFreeFrom(Unpaused, Delivered)' BY <1>1, <2>5, <2>8 DEF GapFreeFrom
    <3>2. ~(Delivered' > oldest') BY <2>8
    <3> QED BY <2>3, <2>6, <3>1, <3>2
  <2>9. CASE es' # "open" BY <2>3, <2>6, <2>9
  <2> QED BY <2>7, <2>8, <2>9
<1> QED BY <1>3, <1>4 DEF ReachInv

\* A step that concerns neither the log nor the list, nor an open stream.
Quiet ==
  /\ UNCHANGED <<run, lastID, oldest, list, held, overtaken>>
  /\ paused => paused'
  /\ es' = "open" => es = "open" /\ wire' = wire

LEMMA QuietInv ==
  ASSUME PageInv, TypeOK', Quiet
  PROVE  PageInv'
<1>1. HeldInv' BY HeldFrame DEF PageInv, Quiet
<1>2. WireInv'
  <2>1. es' = "open" => Delivered' = Delivered BY DEF Quiet, Delivered
  <2> QED BY <2>1 DEF PageInv, WireInv, Quiet
<1>3. lastID \in Nat /\ oldest \in Nat BY PageAssumption DEF PageInv, TypeOK
<1>4. ReachInv'
  <2>1. es' = "open" => es = "open" /\ Delivered' = Delivered BY DEF Quiet, Delivered
  <2>2. lastID <= lastID' /\ oldest <= oldest' /\ lastID' \in Nat /\ oldest' \in Nat
    BY <1>3 DEF Quiet
  <2> QED BY <2>1, <2>2, ReachFrame DEF Quiet
<1> QED BY <1>1, <1>2, <1>4 DEF PageInv

LEMMA QuietSteps ==
  ASSUME TypeOK,
         \/ Expire \/ AnswerStatus \/ Drop \/ LoseStatus \/ LoginElsewhere \/ Pause \/ Login \/ Logout
         \/ refreshStatus \/ OnError \/ Retry \/ AskClear \/ ClearRefused \/ UNCHANGED vars
  PROVE  Quiet
<1>1. CASE Expire \/ AnswerStatus \/ Drop \/ LoseStatus
  BY <1>1 DEF Expire, AnswerStatus, Drop, LoseStatus, Quiet, server, page
<1>2. CASE LoginElsewhere BY <1>2 DEF LoginElsewhere, Quiet
<1>3. CASE Pause \/ Login \/ Logout
  BY <1>3 DEF Pause, Login, Logout, connect, showLogin, Quiet, server
<1>4. CASE refreshStatus \/ OnError \/ Retry \/ AskClear \/ ClearRefused
  BY <1>4 DEF refreshStatus, OnError, Retry, AskClear, ClearRefused, connect, showLogin, Quiet, server
<1>5. CASE UNCHANGED vars BY <1>5 DEF vars, server, page, Quiet
<1> QED BY <1>1, <1>2, <1>3, <1>4, <1>5

-----------------------------------------------------------------------------
(* The steps of the server                                                 *)

LEMMA AddInv ==
  ASSUME PageInv, Add
  PROVE  PageInv'
<1>0. TypeOK /\ WireInv /\ HeldInv /\ lastID \in Nat /\ oldest \in 0 .. lastID
  BY PageAssumption DEF PageInv, TypeOK
<1>1. TypeOK' BY <1>0, ServerTypes
<1>2. HeldInv' BY <1>0, HeldFrame DEF Add
<1>3. /\ lastID' = lastID + 1 /\ oldest' \in {oldest, oldest + 1} /\ lastID' - oldest' <= BufferCapacity
  BY <1>0, PageAssumption DEF Add, WireInv
<1>4. wire \in Seq(Entries) /\ Len(wire) \in Nat BY <1>0 DEF TypeOK
<1>5. CASE es = "open"
  <2> DEFINE e == [run |-> run, id |-> lastID']
             d == lastID - Len(wire)
  <2>1. wire' = Append(wire, e) BY <1>5 DEF Add
  <2>2. /\ Len(wire') = Len(wire) + 1 /\ wire'[Len(wire) + 1] = e /\ DOMAIN wire' = 1 .. Len(wire) + 1
        /\ \A i \in 1 .. Len(wire) : wire'[i] = wire[i]
    BY <1>4, <2>1
  <2>3. lastID' - Len(wire') = d BY <1>0, <1>3, <1>4, <2>2
  <2>4. Delivered' = Delivered BY <2>3 DEF Delivered
  <2>5. \A i \in 1 .. Len(wire) : wire[i] = [run |-> run, id |-> d + i]
    BY <1>0, <1>4, <1>5 DEF WireInv, Delivered
  <2>6. wire'[Len(wire) + 1] = [run |-> run, id |-> d + (Len(wire) + 1)]
    <3>1. d + (Len(wire) + 1) = lastID' BY <1>0, <1>3, <1>4
    <3> QED BY <2>2, <3>1
  <2>7. \A i \in DOMAIN wire' : wire'[i] = [run |-> run, id |-> d + i]
    <3>1. \A i \in 1 .. Len(wire) + 1 : i = Len(wire) + 1 \/ i \in 1 .. Len(wire) BY <1>4
    <3> HIDE DEF d
    <3> QED BY <2>2, <2>5, <2>6, <3>1
  <2>8. WireInv' BY <1>3, <2>3, <2>7 DEF WireInv, Delivered, Add
  <2>9. ReachInv'
    <3>1. lastID <= lastID' /\ oldest <= oldest' /\ lastID' \in Nat /\ oldest' \in Nat BY <1>0, <1>3
    <3> QED BY <1>5, <2>4, <3>1, ReachFrame DEF Add
  <2> QED BY <1>1, <1>2, <2>8, <2>9 DEF PageInv
<1>6. CASE es # "open"
  <2>1. WireInv' BY <1>3, <1>6 DEF WireInv, Add
  <2>2. ReachInv'
    <3>1. lastID <= lastID' /\ oldest <= oldest' /\ lastID' \in Nat /\ oldest' \in Nat BY <1>0, <1>3
    <3> QED BY <1>6, <3>1, ReachFrame DEF Add
  <2> QED BY <1>1, <1>2, <2>1, <2>2 DEF PageInv
<1> QED BY <1>5, <1>6

LEMMA AnswerClearInv ==
  ASSUME PageInv, AnswerClear
  PROVE  PageInv'
<1>0. TypeOK /\ WireInv /\ HeldInv /\ lastID \in Nat /\ oldest \in 0 .. lastID
  BY PageAssumption DEF PageInv, TypeOK
<1>1. TypeOK' BY <1>0, ServerTypes DEF Server
<1>2. HeldInv' BY <1>0, HeldFrame DEF AnswerClear
<1>3. oldest' \in {oldest, lastID} /\ lastID' = lastID /\ wire' = wire /\ es' = es /\ run' = run
  BY DEF AnswerClear
<1>4. Delivered' = Delivered BY <1>3 DEF Delivered
<1>5. WireInv'
  <2>1. lastID' - oldest' <= BufferCapacity
    <3>1. CASE oldest' = oldest BY <1>0, <1>3, <3>1 DEF WireInv
    <3>2. CASE oldest' = lastID
      <4>1. lastID' - oldest' = 0 BY <1>0, <1>3, <3>2
      <4> QED BY <4>1, PageAssumption
    <3> QED BY <1>3, <3>1, <3>2
  <2> QED BY <1>0, <1>3, <1>4, <2>1 DEF WireInv
<1>6. ReachInv'
  <2>1. lastID <= lastID' /\ oldest <= oldest' /\ lastID' \in Nat /\ oldest' \in Nat BY <1>0, <1>3
  <2> QED BY <1>3, <1>4, <2>1, ReachFrame DEF AnswerClear
<1> QED BY <1>1, <1>2, <1>5, <1>6 DEF PageInv

LEMMA AnswerStreamInv ==
  ASSUME PageInv, AnswerStream
  PROVE  PageInv'
<1>0. TypeOK /\ WireInv /\ HeldInv /\ lastID \in Nat /\ oldest \in 0 .. lastID
  BY PageAssumption DEF PageInv, TypeOK
<1>1. TypeOK' BY <1>0, ServerTypes DEF Server
<1>2. HeldInv' BY <1>0, HeldFrame DEF AnswerStream
<1>3. lastID' = lastID /\ oldest' = oldest /\ run' = run BY DEF AnswerStream, server
<1>4. es' = "open" => wire' = Snapshot BY DEF AnswerStream
<1>5. es' = "open" => Delivered' = oldest'
  <2>1. Len(Snapshot) = lastID - oldest BY <1>0, SnapshotTyped
  <2>2. lastID - (lastID - oldest) = oldest BY <1>0
  <2> QED BY <1>3, <1>4, <2>1, <2>2 DEF Delivered
<1>6. WireInv'
  <2>1. \A i \in DOMAIN Snapshot : Snapshot[i] = [run |-> run, id |-> oldest + i] BY DEF Snapshot
  <2> QED BY <1>0, <1>3, <1>4, <1>5, <2>1 DEF WireInv
<1>7. ReachInv'
  <2>1. lastID <= lastID' /\ oldest <= oldest' /\ lastID' \in Nat /\ oldest' \in Nat BY <1>0, <1>3
  <2> QED BY <1>3, <1>5, <2>1, ReachFrame DEF AnswerStream
<1> QED BY <1>1, <1>2, <1>6, <1>7 DEF PageInv

LEMMA RestartInv ==
  ASSUME PageInv, Restart
  PROVE  PageInv'
<1>0. TypeOK /\ HeldInv /\ run \in Nat \ {0} BY PageAssumption DEF PageInv, TypeOK
<1>1. TypeOK' BY <1>0, ServerTypes
<1>2. HeldInv' BY <1>0, HeldFrame DEF Restart
<1>3. es' # "open" /\ lastID' - oldest' = 0 BY DEF Restart
<1>4. WireInv' BY <1>3, PageAssumption DEF WireInv
<1>5. run' # 1 BY <1>0 DEF Restart
<1> QED BY <1>1, <1>2, <1>4, <1>5 DEF PageInv, ReachInv

-----------------------------------------------------------------------------
(* The steps of the list                                                   *)

\* What a message does to what the page would show, paused or not.
LEMMA MessageShows ==
  ASSUME PageInv, Message
  PROVE  /\ Unpaused' = ingest(Unpaused, Head(wire))
         /\ OnPage' \subseteq OnPage \union {Head(wire)}
         /\ ToSet(Unpaused'.entries) \subseteq OnPage'
         /\ list' \in {list, Unpaused'}
         /\ ~paused' => held' = <<>>
         /\ Head(wire) \in Entries
<1>0. TypeOK /\ HeldInv /\ Unpaused \in Lists /\ list \in Lists /\ held \in Seq(Entries)
  BY DEF PageInv, TypeOK, HeldInv
<1> DEFINE e == Head(wire)
<1>1. e \in Entries BY <1>0, HeadIsFirst DEF Message, TypeOK
<1>2. ToSet(ingest(Unpaused, e).entries) \subseteq ToSet(Unpaused.entries) \union {e}
  BY <1>0, <1>1, IngestFrom
<1>3. paused' = paused BY DEF Message
<1>4. CASE paused
  <2> HIDE DEF e
  <2>1. held' = Append(held, e) /\ list' = list BY <1>4 DEF Message, e
  <2>2. Unpaused' = ingestAll(list, Append(held, e)) BY <2>1 DEF Unpaused
  <2>3. Unpaused' = ingest(Unpaused, e) BY <1>0, <1>1, <2>2, IngestAllAppend DEF Unpaused
  <2>4. ToSet(Append(held, e)) = ToSet(held) \union {e} BY <1>0, <1>1, ToSetAppend
  <2>5. OnPage' = OnPage \union {e} BY <2>1, <2>4 DEF OnPage
  <2>6. ToSet(Unpaused'.entries) \subseteq OnPage' BY <1>0, <1>2, <2>3, <2>5 DEF HeldInv
  <2> QED BY <1>1, <1>3, <1>4, <2>1, <2>3, <2>5, <2>6 DEF e
<1>5. CASE ~paused
  <2>1. held = <<>> /\ held' = <<>> /\ list' = ingest(list, e)
    BY <1>0, <1>5 DEF Message, HeldInv
  <2>2. Unpaused = list /\ Unpaused' = list' BY <2>1, IngestAllEmpty DEF Unpaused
  <2>3. ToSet(<<>>) = {} BY DEF ToSet
  <2>4. OnPage = ToSet(list.entries) /\ OnPage' = ToSet(list'.entries) BY <2>1, <2>3 DEF OnPage
  <2> QED BY <1>1, <1>2, <1>3, <1>5, <2>1, <2>2, <2>4
<1> QED BY <1>4, <1>5

LEMMA MessageInv ==
  ASSUME PageInv, Message
  PROVE  PageInv'
<1>0. /\ TypeOK /\ WireInv /\ HeldInv /\ ReachInv /\ Unpaused \in Lists
      /\ lastID \in Nat /\ oldest \in Nat /\ BufferCapacity \in Nat
  BY PageAssumption DEF PageInv, TypeOK, HeldInv
<1> DEFINE e == Head(wire)
           k == lastID - Len(wire)
<1>1. TypeOK' BY <1>0, PageTypes DEF Browser
<1>2. /\ Unpaused' = ingest(Unpaused, e) /\ OnPage' \subseteq OnPage \union {e}
      /\ ToSet(Unpaused'.entries) \subseteq OnPage' /\ list' \in {list, Unpaused'}
      /\ ~paused' => held' = <<>>
      /\ e \in Entries
  BY MessageShows
<1>3. HeldInv'
  <2>1. Unpaused' \in Lists BY <1>0, <1>2, IngestTyped
  <2>2. KnowsItsEntries(Unpaused') BY <1>0, <1>2, IngestKnows DEF HeldInv
  <2>3. KnowsItsEntries(list') BY <1>0, <1>2, <2>2 DEF HeldInv
  <2> QED BY <1>2, <2>1, <2>2, <2>3 DEF HeldInv, KnowsItsEntries
<1>4. /\ es = "open" /\ es' = "open" /\ wire # <<>> /\ wire' = Tail(wire)
      /\ UNCHANGED <<lastID, oldest, run, overtaken>>
  BY DEF Message, server
<1>5. /\ Len(wire) \in Nat \ {0} /\ e = wire[1] /\ Len(wire') = Len(wire) - 1
      /\ wire' \in Seq(Entries) /\ DOMAIN wire = 1 .. Len(wire)
      /\ \A i \in 1 .. Len(wire) - 1 : wire'[i] = wire[i + 1]
  BY <1>0, <1>4, HeadIsFirst DEF TypeOK
<1>6. k \in Int /\ lastID' - Len(wire') = k + 1 BY <1>0, <1>4, <1>5
<1>7. \A i \in 1 .. Len(wire) : wire[i] = [run |-> run, id |-> k + i]
  BY <1>0, <1>4, <1>5 DEF WireInv, Delivered
<1>8. e.id = k + 1 /\ e.run = run
  <2>1. 1 \in 1 .. Len(wire) BY <1>5
  <2>2. wire[1] = [run |-> run, id |-> k + 1] BY <1>7, <2>1
  <2> HIDE DEF k, e
  <2> QED BY <1>5, <2>2
<1>9. WireInv'
  <2>1. DOMAIN wire' = 1 .. Len(wire) - 1 BY <1>5
  <2>2. ASSUME NEW i \in DOMAIN wire' PROVE wire'[i] = [run |-> run, id |-> (k + 1) + i]
    <3>1. i \in 1 .. Len(wire) - 1 /\ i + 1 \in 1 .. Len(wire) BY <1>5, <2>1
    <3>2. k + (i + 1) = (k + 1) + i BY <1>6, <3>1
    <3> HIDE DEF k
    <3> QED BY <1>5, <1>7, <3>1, <3>2
  <2> QED BY <1>0, <1>4, <1>6, <2>2 DEF WireInv, Delivered
<1>10. ReachInv'
  <2>0. k \in Nat /\ k + 1 <= lastID
    <3>1. k + 1 \in Nat \ {0} BY <1>2, <1>8, PageAssumption DEF Entries
    <3> QED BY <1>0, <1>5, <1>6, <3>1
  <2>1. ASSUME run' = 1, NEW x \in OnPage' PROVE x.run = 1 /\ x.id <= lastID'
    BY <1>0, <1>2, <1>4, <1>8, <2>0, <2>1 DEF ReachInv
  <2>2. ASSUME run' = 1, ~overtaken'
        PROVE  /\ Ordered(list)' /\ Ordered(Unpaused)' /\ GapFreeFrom(Unpaused, oldest)'
               /\ GapFreeFrom(Unpaused, Delivered)'
               /\ Delivered' > oldest' =>
                    \E i \in DOMAIN Unpaused'.entries : Unpaused'.entries[i].id >= Delivered'
    <3>1. run = 1 /\ ~overtaken BY <1>4, <2>2
    <3>2. /\ Ordered(list) /\ Ordered(Unpaused) /\ GapFreeFrom(Unpaused, oldest)
          /\ GapFreeFrom(Unpaused, k)
          /\ k > oldest => \E i \in DOMAIN Unpaused.entries : Unpaused.entries[i].id >= k
      BY <1>0, <1>4, <3>1 DEF ReachInv, Delivered
    <3>3. KnowsItsEntries(Unpaused) /\ lastID - oldest <= BufferCapacity
      BY <1>0 DEF HeldInv, WireInv
    <3> HIDE DEF k, e
    <3> DEFINE U == ingest(Unpaused, e)
    <3>4. /\ Ordered(U) /\ GapFreeFrom(U, oldest) /\ GapFreeFrom(U, k + 1)
          /\ k + 1 > oldest => \E i \in DOMAIN U.entries : U.entries[i].id >= k + 1
      BY <1>0, <1>2, <1>8, <2>0, <3>2, <3>3, IngestReaches
    <3> HIDE DEF U
    <3>5. Delivered' = k + 1 BY <1>6 DEF Delivered
    <3>6. Unpaused' = U /\ oldest' = oldest BY <1>2, <1>4 DEF U
    <3>7. Ordered(Unpaused') /\ GapFreeFrom(Unpaused', oldest') /\ GapFreeFrom(Unpaused', Delivered')
      BY <3>4, <3>5, <3>6
    <3>8. Ordered(list') BY <1>2, <3>2, <3>7
    <3>9. Ordered(list)' /\ Ordered(Unpaused)' /\ GapFreeFrom(Unpaused, oldest)' /\ GapFreeFrom(Unpaused, Delivered)'
      BY <3>7, <3>8 DEF Ordered, GapFreeFrom
    <3> QED BY <3>4, <3>5, <3>6, <3>9
  <2> QED BY <2>1, <2>2 DEF ReachInv
<1> QED BY <1>1, <1>3, <1>9, <1>10 DEF PageInv

LEMMA ResumeInv ==
  ASSUME PageInv, Resume
  PROVE  PageInv'
<1>0. TypeOK /\ WireInv /\ HeldInv /\ ReachInv BY DEF PageInv
<1>1. TypeOK' BY <1>0, PageTypes
<1>2. list' = Unpaused /\ held' = <<>> BY DEF Resume, Unpaused
<1>3. Unpaused' = Unpaused BY <1>2, IngestAllEmpty DEF Unpaused
<1>4. ToSet(<<>>) = {} BY DEF ToSet
<1>5. OnPage' = ToSet(Unpaused.entries) /\ OnPage' \subseteq OnPage
  BY <1>0, <1>2, <1>4 DEF OnPage, HeldInv
<1>6. HeldInv'
  <2>1. KnowsItsEntries(Unpaused)' /\ KnowsItsEntries(list)' BY <1>0, <1>2, <1>3 DEF HeldInv, KnowsItsEntries
  <2> QED BY <1>0, <1>2, <1>3, <1>5, <2>1 DEF HeldInv
<1>7. UNCHANGED <<run, lastID, oldest, es, wire, overtaken>> BY DEF Resume, server
<1>8. Delivered' = Delivered BY <1>7 DEF Delivered
<1>9. WireInv' BY <1>0, <1>7, <1>8 DEF WireInv
<1>10. ReachInv'
  <2>1. ASSUME run = 1, ~overtaken
        PROVE  /\ Ordered(list)' /\ Ordered(Unpaused)' /\ GapFreeFrom(Unpaused, oldest)'
               /\ es = "open" => GapFreeFrom(Unpaused, Delivered)'
    BY <1>0, <1>2, <1>3, <1>7, <1>8, <2>1 DEF ReachInv, Ordered, GapFreeFrom
  <2> QED BY <1>0, <1>3, <1>5, <1>7, <1>8, <2>1 DEF ReachInv
<1> QED BY <1>1, <1>6, <1>9, <1>10 DEF PageInv

\* A clear that overtakes nothing leaves nothing that the stream has delivered
\* and the buffer still holds.
LEMMA ClearedInv ==
  ASSUME PageInv, Cleared
  PROVE  PageInv'
<1>0. TypeOK /\ WireInv /\ HeldInv /\ ReachInv /\ lastID \in Nat /\ oldest \in Nat
  BY PageAssumption DEF PageInv, TypeOK
<1>1. TypeOK' BY <1>0, PageTypes DEF Browser
<1>2. list' = Empty /\ held' = <<>> BY DEF Cleared
<1>3. Unpaused' = Empty BY <1>2, IngestAllEmpty DEF Unpaused
<1>4. ToSet(<<>>) = {} /\ Len(<<>>) = 0 /\ DOMAIN <<>> = {} BY DEF ToSet
<1>5. OnPage' = {} BY <1>2, <1>4 DEF OnPage, Empty
<1>6. Empty \in Lists BY PageAssumption DEF Empty, Lists
<1>7. KnowsItsEntries(Empty) BY <1>4 DEF KnowsItsEntries, Empty
<1>8. HeldInv'
  <2>1. KnowsItsEntries(Unpaused)' /\ KnowsItsEntries(list)' BY <1>2, <1>3, <1>7 DEF KnowsItsEntries
  <2>2. ToSet(Unpaused'.entries) = {} BY <1>3, <1>4 DEF Empty
  <2> QED BY <1>2, <1>3, <1>6, <2>1, <2>2 DEF HeldInv
<1>9. UNCHANGED <<run, lastID, oldest, es, wire>> BY DEF Cleared, server
<1>10. Delivered' = Delivered BY <1>9 DEF Delivered
<1>11. WireInv' BY <1>0, <1>9, <1>10 DEF WireInv
<1>12. ReachInv'
  <2>1. Ordered(Empty) /\ \A x : GapFreeFrom(Empty, x) BY <1>4 DEF Ordered, GapFreeFrom, Empty
  <2>2. /\ Ordered(list)' /\ Ordered(Unpaused)'
        /\ GapFreeFrom(Unpaused, oldest)' /\ GapFreeFrom(Unpaused, Delivered)'
    BY <1>2, <1>3, <2>1 DEF Ordered, GapFreeFrom
  <2>3. ASSUME run = 1, ~overtaken', es = "open", Delivered > oldest PROVE FALSE
    <3>1. ~overtaken /\ \A e \in ToSet(list.entries \o held) : ~(e.run = run /\ e.id > oldest)
      BY <2>3 DEF Cleared
    <3>2. PICK i \in DOMAIN Unpaused.entries : Unpaused.entries[i].id >= Delivered
      BY <1>0, <2>3, <3>1 DEF ReachInv
    <3> DEFINE e == Unpaused.entries[i]
    <3>3. e \in OnPage
      <4>1. e \in ToSet(Unpaused.entries) BY DEF ToSet
      <4> QED BY <1>0, <4>1 DEF HeldInv
    <3>4. e \in ToSet(list.entries \o held)
      BY <1>0, <3>3, ToSetConcat DEF OnPage, TypeOK, Lists
    <3>5. e.run = run BY <1>0, <2>3, <3>3 DEF ReachInv
    <3>6. e \in Entries BY <1>0, <3>3 DEF OnPage, ToSet, TypeOK, Lists
    <3>7. e.id \in Nat BY <3>6, PageAssumption DEF Entries
    <3>8. Delivered \in Int BY <1>0 DEF Delivered, TypeOK
    <3> HIDE DEF e
    <3>9. e.id >= Delivered BY <3>2 DEF e
    <3>10. e.id > oldest BY <1>0, <2>3, <3>7, <3>8, <3>9
    <3> QED BY <3>1, <3>4, <3>5, <3>10
  <2> QED BY <1>5, <1>9, <1>10, <2>2, <2>3 DEF ReachInv
<1> QED BY <1>1, <1>8, <1>11, <1>12 DEF PageInv

-----------------------------------------------------------------------------
(* The theorems                                                            *)

LEMMA PageInit == Init => PageInv
<1> SUFFICES ASSUME Init PROVE PageInv OBVIOUS
<1>1. TypeOK BY TypeInit
<1>2. ToSet(<<>>) = {} /\ Len(<<>>) = 0 /\ DOMAIN <<>> = {} BY DEF ToSet
<1>3. list = Empty /\ held = <<>> /\ lastID = 0 /\ oldest = 0 /\ es = "none" BY DEF Init
<1>4. Unpaused = Empty BY <1>3, IngestAllEmpty DEF Unpaused
<1>5. Empty \in Lists BY PageAssumption DEF Empty, Lists
<1>6. HeldInv
  <2>1. KnowsItsEntries(Empty) BY <1>2 DEF KnowsItsEntries, Empty
  <2>2. ToSet(Unpaused.entries) = {} BY <1>2, <1>4 DEF Empty
  <2> QED BY <1>3, <1>4, <1>5, <2>1, <2>2 DEF HeldInv
<1>7. WireInv
  <2>1. lastID - oldest = 0 BY <1>3
  <2> QED BY <1>3, <2>1, PageAssumption DEF WireInv
<1>8. ReachInv
  <2>1. OnPage = {} BY <1>2, <1>3 DEF OnPage, Empty
  <2>2. Ordered(Empty) /\ \A x : GapFreeFrom(Empty, x) BY <1>2 DEF Ordered, GapFreeFrom, Empty
  <2> QED BY <1>3, <1>4, <2>1, <2>2 DEF ReachInv
<1> QED BY <1>1, <1>6, <1>7, <1>8 DEF PageInv

LEMMA PageNext == PageInv /\ [Next]_vars => PageInv'
<1> SUFFICES ASSUME PageInv, [Next]_vars PROVE PageInv' OBVIOUS
<1>0. TypeOK /\ HeldInv BY DEF PageInv
<1>1. CASE Add BY <1>1, AddInv
<1>2. CASE AnswerClear BY <1>2, AnswerClearInv
<1>3. CASE AnswerStream BY <1>3, AnswerStreamInv
<1>4. CASE Restart BY <1>4, RestartInv
<1>5. CASE Message BY <1>5, MessageInv
<1>6. CASE Resume BY <1>6, ResumeInv
<1>7. CASE Cleared BY <1>7, ClearedInv
<1>8. CASE Expire \/ AnswerStatus \/ Drop \/ LoseStatus \/ LoginElsewhere
  <2>1. TypeOK' BY <1>0, <1>8, ServerTypes DEF Server
  <2> QED BY <1>0, <1>8, <2>1, QuietSteps, QuietInv
<1>9. CASE Pause \/ Login \/ Logout \/ refreshStatus \/ OnError \/ Retry \/ AskClear \/ ClearRefused
  <2>1. TypeOK' BY <1>0, <1>9, PageTypes DEF Browser
  <2> QED BY <1>0, <1>9, <2>1, QuietSteps, QuietInv
<1>10. CASE UNCHANGED vars
  <2>1. TypeOK' BY <1>0, <1>10 DEF TypeOK, vars, server, page
  <2> QED BY <1>0, <1>10, <2>1, QuietSteps, QuietInv
<1> QED BY <1>1, <1>2, <1>3, <1>4, <1>5, <1>6, <1>7, <1>8, <1>9, <1>10 DEF Next, Server, Browser

\* The page, the entries it keeps back and the stream agree on what has come,
\* through reconnections, pauses, clears and restarts.
THEOREM PageInvariance == Spec => []PageInv
BY PageInit, PageNext, PTL DEF Spec

\* The variables of UiPage.tla keep their types, and the page its size.
THEOREM PageTypeCorrect == Spec => []TypeOK
<1>1. PageInv => TypeOK BY DEF PageInv
<1> QED BY <1>1, PageInvariance, PTL

\* No entry is on the page twice, and the page knows exactly what it shows,
\* however often the stream replays the buffer (app.js:143-149).
THEOREM PageKnowsWhatItShows == Spec => []SeenIsShown
<1>1. PageInv => SeenIsShown BY DEF PageInv, HeldInv, SeenIsShown
<1> QED BY <1>1, PageInvariance, PTL

\* Entries are shown in the order in which they were logged (app.js:143-149).
THEOREM PageShowsInOrder == Spec => []InOrder
<1>1. PageInv => InOrder BY DEF PageInv, ReachInv, InOrder
<1> QED BY <1>1, PageInvariance, PTL

LEMMA SuffixMeans ==
  ASSUME NEW S, NEW s \in Seq(S), NEW t \in Seq(S), Len(s) <= Len(t),
         \A i \in 1 .. Len(s) : t[Len(t) - Len(s) + i] = s[i]
  PROVE  IsSuffix(s, t)
<1> DEFINE m == Len(s)
           n == Len(t)
           a == [i \in 1 .. m |-> s[(m - i) + 1]]
           b == [i \in 1 .. n |-> t[(n - i) + 1]]
<1>1. m \in Nat /\ n \in Nat /\ m <= n OBVIOUS
<1>2. \A i \in 1 .. m : s[i] \in S OBVIOUS
<1>3. \A i \in 1 .. n : t[i] \in S OBVIOUS
<1>4. \A i \in 1 .. m : (m - i) + 1 \in 1 .. m BY <1>1
<1>5. \A i \in 1 .. n : (n - i) + 1 \in 1 .. n BY <1>1
<1>6. a \in Seq(S) /\ Len(a) = m BY <1>1, <1>2, <1>4
<1>7. b \in Seq(S) /\ Len(b) = n BY <1>1, <1>3, <1>5
<1>8. \A i \in 1 .. m : a[i] = b[i]
  <2> SUFFICES ASSUME NEW i \in 1 .. m PROVE a[i] = b[i] OBVIOUS
  <2>1. i \in 1 .. n /\ (n - i) + 1 = n - m + ((m - i) + 1) BY <1>1
  <2>2. t[n - m + ((m - i) + 1)] = s[(m - i) + 1] BY <1>4
  <2> QED BY <2>1, <2>2
<1>9. Reverse(s) = a /\ Reverse(t) = b BY DEF Reverse
<1> HIDE DEF a, b, m, n
<1>10. SubSeq(a, 1, m) = SubSeq(b, 1, m)
  <2>1. SubSeq(a, 1, m) = [i \in 1 .. m |-> a[i]] BY <1>1, <1>6
  <2>2. SubSeq(b, 1, m) = [i \in 1 .. m |-> b[i]] BY <1>1, <1>7
  <2> QED BY <1>8, <2>1, <2>2
<1> QED BY <1>1, <1>6, <1>7, <1>9, <1>10 DEF IsSuffix, IsPrefix

\* A settled page has caught up with the buffer: no entry got lost between
\* replay, pause, eviction and clear (app.js:143-166, 224-231).
THEOREM PageCatchesUp == Spec => []CaughtUp
<1>1. ASSUME PageInv, run = 1, ~overtaken, Settled PROVE ShowsTheBuffer
  <2>0. /\ TypeOK /\ HeldInv /\ ReachInv /\ es = "open" /\ wire = <<>> /\ ~paused
        /\ lastID \in Nat /\ oldest \in 0 .. lastID
    BY <1>1, PageAssumption DEF PageInv, Settled, TypeOK
  <2> DEFINE s == list.entries
             n == Len(s)
             m == lastID - oldest
  <2>1. Unpaused = list BY <2>0, IngestAllEmpty DEF HeldInv, Unpaused
  <2>2. s \in Seq(Entries) /\ n \in Nat /\ DOMAIN s = 1 .. n BY <2>0 DEF TypeOK, Lists
  <2>3. Snapshot \in Seq(Entries) /\ Len(Snapshot) = m /\ m \in Nat BY <2>0, SnapshotTyped
  <2>4. \A i \in 1 .. m : Snapshot[i] = [run |-> 1, id |-> oldest + i] BY <1>1 DEF Snapshot
  <2>5. \A i \in 1 .. n : s[i] \in Entries /\ s[i].run = 1 /\ s[i].id <= lastID /\ s[i].id \in Nat
    <3>1. \A i \in 1 .. n : s[i] \in OnPage BY <2>2 DEF OnPage, ToSet
    <3>2. \A i \in 1 .. n : s[i].run = 1 /\ s[i].id <= lastID BY <1>1, <2>0, <3>1 DEF ReachInv
    <3>3. \A i \in 1 .. n : s[i] \in Entries BY <2>2
    <3>4. \A e \in Entries : e.id \in Nat BY PageAssumption DEF Entries
    <3> HIDE DEF s, n
    <3> QED BY <3>2, <3>3, <3>4
  <2>6. CASE m = 0
    <3>1. \A i \in 1 .. m : s[n - m + i] = Snapshot[i] BY <2>6
    <3>2. m <= n BY <2>2, <2>6
    <3> HIDE DEF s, n, m
    <3> QED BY <2>2, <2>3, <3>1, <3>2, SuffixMeans DEF ShowsTheBuffer, s, n
  <2>7. CASE m # 0
    <3>1. lastID > oldest BY <2>0, <2>7
    <3>2. Delivered = lastID
      <4>1. Len(wire) = 0 BY <2>0
      <4> QED BY <2>0, <4>1 DEF Delivered
    <3>3. PICK i \in 1 .. n : s[i].id >= lastID BY <1>1, <2>0, <2>1, <2>2, <3>1, <3>2 DEF ReachInv
    <3>4. n \in 1 .. n /\ n > 0 BY <2>2
    <3>5. s[n].id = lastID
      <4>1. CASE i = n
        <5> DEFINE x == s[n].id
        <5>1. x \in Nat /\ x >= lastID /\ x <= lastID BY <2>5, <3>3, <3>4, <4>1
        <5> HIDE DEF x
        <5>2. x = lastID BY <2>0, <5>1
        <5> QED BY <5>2 DEF x
      <4>2. CASE i < n
        <5>1. s[i].id < s[n].id BY <1>1, <2>0, <2>2, <3>4, <4>2 DEF ReachInv, Ordered
        <5> DEFINE x == s[n].id
                   y == s[i].id
        <5>2. x \in Nat /\ y \in Nat /\ y >= lastID /\ x <= lastID /\ y < x BY <2>5, <3>3, <3>4, <5>1
        <5> HIDE DEF x, y
        <5> QED BY <2>0, <5>2
      <4> QED BY <2>2, <4>1, <4>2
    <3>6. \A id \in oldest + 1 .. lastID : n - (lastID - id) \in 1 .. n /\ s[n - (lastID - id)].id = id
      BY <1>1, <2>0, <2>1, <3>4, <3>5 DEF ReachInv, GapFreeFrom
    <3>7. ASSUME NEW j \in 1 .. m PROVE s[n - m + j] = Snapshot[j]
      <4>1. oldest + j \in oldest + 1 .. lastID /\ n - (lastID - (oldest + j)) = n - m + j BY <2>0, <2>2
      <4>2. n - m + j \in 1 .. n /\ s[n - m + j].id = oldest + j BY <3>6, <4>1
      <4> DEFINE e == s[n - m + j]
      <4>3. e \in Entries /\ e.run = 1 /\ e.id = oldest + j BY <2>5, <4>2
      <4> HIDE DEF e
      <4>4. e = [run |-> 1, id |-> oldest + j] BY <4>3 DEF Entries
      <4> QED BY <2>4, <4>4 DEF e
    <3>8. m <= n
      <4>1. oldest + 1 \in oldest + 1 .. lastID BY <2>0, <3>1
      <4>2. n - (lastID - (oldest + 1)) \in 1 .. n BY <3>6, <4>1
      <4> QED BY <2>0, <2>2, <4>2
    <3> HIDE DEF s, n, m
    <3> QED BY <2>2, <2>3, <3>7, <3>8, SuffixMeans DEF ShowsTheBuffer, s, n
  <2> QED BY <2>6, <2>7
<1>2. PageInv => CaughtUp BY <1>1 DEF CaughtUp
<1> QED BY <1>2, PageInvariance, PTL
=============================================================================
