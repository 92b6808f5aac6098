------------------------- MODULE UsagePipeline_proofs -------------------------
(***************************************************************************)
(* Proofs about module UsagePipeline, for any number of records and any       *)
(* subscribers, buffer, retention and compaction limit: no record is lost or  *)
(* handed out twice, consumers see them in order, and Stop drains the queue. *)
(***************************************************************************)
EXTENDS UsagePipeline, SequenceTheorems, NaturalsInduction, WellFoundedInduction, TLAPS

Item    == [rec : Nat, age : Nat]
Busy    == {"handle", "publish", "enqueue"}
Workers == [at : {"check", "waiting", "ended"} \cup Busy, rec : Nat]

\* A buffer of kept records, whose first head ones are consumed, and what is left.
Good(q) == q.items \in Seq(Item) /\ q.head \in 0..Len(q.items)
Rest(q) == SubSeq(q.items, q.head + 1, Len(q.items))

\* A sequence without its first k elements, and what they were.
After(s, k) == SubSeq(s, k + 1, Len(s))
First(s, k) == {s[i].rec : i \in 1..k}

-----------------------------------------------------------------------------
(* Sequences of kept records.                                                *)

LEMMA AfterFacts ==
  ASSUME NEW s \in Seq(Item), NEW k \in 0..Len(s)
  PROVE  /\ After(s, k) \in Seq(Item)
         /\ Len(After(s, k)) = Len(s) - k
         /\ \A i \in 1..(Len(s) - k) : After(s, k)[i] = s[k + i]
         /\ RecordsOf(s) = First(s, k) \cup RecordsOf(After(s, k))
<1>1. \A i \in (k + 1)..Len(s) : s[i] \in Item  OBVIOUS
<1>2. k + 1 \in Int /\ Len(s) \in Int /\ Len(s) - (k + 1) + 1 = Len(s) - k  OBVIOUS
<1>3. /\ After(s, k) \in Seq(Item)
      /\ Len(After(s, k)) = IF k + 1 <= Len(s) THEN Len(s) - (k + 1) + 1 ELSE 0
      /\ \A i \in 1..(Len(s) - (k + 1) + 1) : After(s, k)[i] = s[(k + 1) + i - 1]
  BY <1>1, <1>2, SubSeqProperties DEF After
<1>4. Len(After(s, k)) = Len(s) - k /\ \A i \in 1..(Len(s) - k) : After(s, k)[i] = s[k + i]
  BY <1>3
<1>5. ASSUME NEW i \in 1..Len(s) PROVE s[i].rec \in First(s, k) \cup RecordsOf(After(s, k))
  <2>1. CASE i <= k  BY <2>1 DEF First
  <2>2. CASE i > k
    <3>1. i - k \in 1..(Len(s) - k) /\ k + (i - k) = i  BY <2>2
    <3>2. After(s, k)[i - k] = s[i] /\ i - k \in DOMAIN After(s, k)  BY <1>3, <1>4, <3>1
    <3>. QED  BY <3>2 DEF RecordsOf
  <2>. QED  BY <2>1, <2>2
<1>6. ASSUME NEW i \in 1..k PROVE s[i].rec \in RecordsOf(s)
  BY DEF RecordsOf
<1>7. ASSUME NEW i \in DOMAIN After(s, k) PROVE After(s, k)[i].rec \in RecordsOf(s)
  <2>1. i \in 1..(Len(s) - k)  BY <1>3, <1>4
  <2>2. After(s, k)[i] = s[k + i] /\ k + i \in DOMAIN s  BY <1>4, <2>1
  <2>. QED  BY <2>2 DEF RecordsOf
<1>8. RecordsOf(s) \subseteq First(s, k) \cup RecordsOf(After(s, k))
  <2>1. DOMAIN s = 1..Len(s)  OBVIOUS
  <2>2. ASSUME NEW x \in RecordsOf(s) PROVE \E i \in 1..Len(s) : x = s[i].rec
    BY <2>1 DEF RecordsOf
  <2>. QED  BY <1>5, <2>2
<1>9. First(s, k) \subseteq RecordsOf(s)  BY <1>6 DEF First
<1>10. RecordsOf(After(s, k)) \subseteq RecordsOf(s)
  <2>1. ASSUME NEW x \in RecordsOf(After(s, k))
        PROVE  \E i \in DOMAIN After(s, k) : x = After(s, k)[i].rec
    BY DEF RecordsOf
  <2>. QED  BY <1>7, <2>1
<1>. QED  BY <1>3, <1>4, <1>8, <1>9, <1>10

LEMMA RestIsAfter ==
  ASSUME NEW q, Good(q)
  PROVE  /\ Rest(q) = After(q.items, q.head)
         /\ Rest(q) \in Seq(Item)
         /\ Len(Rest(q)) = Len(q.items) - q.head
         /\ \A i \in 1..(Len(q.items) - q.head) : Rest(q)[i] = q.items[q.head + i]
<1>. DEFINE s == q.items
            k == q.head
<1>1. Rest(q) = After(s, k)  BY DEF Rest, After
<1>2. s \in Seq(Item) /\ k \in 0..Len(s)  BY DEF Good
<1>. HIDE DEF s, k
<1>3. After(s, k) \in Seq(Item) /\ Len(After(s, k)) = Len(s) - k
      /\ \A i \in 1..(Len(s) - k) : After(s, k)[i] = s[k + i]
  BY <1>2, AfterFacts
<1>. QED  BY <1>1, <1>3 DEF s, k

\* Two sequences of kept records with the same elements.
LEMMA SameItems ==
  ASSUME NEW s \in Seq(Item), NEW t \in Seq(Item), Len(s) = Len(t),
         \A i \in 1..Len(s) : s[i] = t[i]
  PROVE  s = t
OBVIOUS

LEMMA AfterAfter ==
  ASSUME NEW s \in Seq(Item), NEW k \in 0..Len(s), NEW n \in 0..(Len(s) - k)
  PROVE  After(After(s, k), n) = After(s, k + n)
<1>1. k + n \in 0..Len(s)  OBVIOUS
<1>2. /\ After(s, k + n) \in Seq(Item) /\ Len(After(s, k + n)) = Len(s) - (k + n)
      /\ \A i \in 1..(Len(s) - (k + n)) : After(s, k + n)[i] = s[(k + n) + i]
  BY <1>1, AfterFacts
<1>3. /\ After(s, k) \in Seq(Item) /\ Len(After(s, k)) = Len(s) - k
      /\ \A i \in 1..(Len(s) - k) : After(s, k)[i] = s[k + i]
  BY AfterFacts
<1>. DEFINE t == After(s, k)
<1>4. t \in Seq(Item) /\ n \in 0..Len(t)  BY <1>3
<1>5. /\ After(t, n) \in Seq(Item) /\ Len(After(t, n)) = Len(t) - n
      /\ \A i \in 1..(Len(t) - n) : After(t, n)[i] = t[n + i]
  BY <1>4, AfterFacts
<1>6. \A i \in 1..(Len(s) - (k + n)) : After(t, n)[i] = After(s, k + n)[i]
  <2>1. TAKE i \in 1..(Len(s) - (k + n))
  <2>2. i \in 1..(Len(t) - n) /\ n + i \in 1..(Len(s) - k)  BY <1>3
  <2>3. After(t, n)[i] = t[n + i]  BY <1>5, <2>2
  <2>4. t[n + i] = s[k + (n + i)]  BY <1>3, <2>2
  <2>5. After(s, k + n)[i] = s[(k + n) + i]  BY <1>2, <2>1
  <2>6. k + (n + i) = (k + n) + i  OBVIOUS
  <2>. QED  BY <2>3, <2>4, <2>5, <2>6
<1>7. Len(After(t, n)) = Len(After(s, k + n))  BY <1>2, <1>3, <1>5
<1>. HIDE DEF t
<1>8. After(t, n) = After(s, k + n)  BY <1>2, <1>5, <1>6, <1>7, SameItems
<1>. QED  BY <1>8 DEF t

-----------------------------------------------------------------------------
(* Compaction, pruning, appending and consuming.                             *)

LEMMA CompactedFacts ==
  ASSUME NEW q, Good(q)
  PROVE  Good(Compacted(q)) /\ Rest(Compacted(q)) = Rest(q)
<1>0. /\ Rest(q) \in Seq(Item) /\ Len(Rest(q)) = Len(q.items) - q.head
      /\ Len(q.items) \in Nat /\ q.head \in Nat /\ q.head <= Len(q.items)
  BY RestIsAfter DEF Good
<1>1. CASE Compacted(q) = q  BY <1>1
<1>2. CASE q.head # 0 /\ q.head >= Len(q.items)
  <2>. DEFINE e == [items |-> <<>>, head |-> 0]
  <2>1. Compacted(q) = e  BY <1>2 DEF Compacted
  <2>2. Good(e) /\ Len(e.items) - e.head = 0  BY DEF Good
  <2>. HIDE DEF e
  <2>3. Rest(e) \in Seq(Item) /\ Len(Rest(e)) = 0  BY <2>2, RestIsAfter
  <2>4. Len(Rest(q)) = 0  BY <1>0, <1>2
  <2>. QED  BY <1>0, <2>1, <2>2, <2>3, <2>4, SameItems
<1>3. CASE q.head # 0 /\ ~(q.head >= Len(q.items)) /\ Compacted(q) # q
  <2>. DEFINE e == [items |-> Rest(q), head |-> 0]
  <2>1. Compacted(q) = e  BY <1>3 DEF Compacted, Rest
  <2>2. Good(e) /\ e.items = Rest(q) /\ e.head = 0  BY <1>0 DEF Good
  <2>. HIDE DEF e
  <2>3. /\ Rest(e) \in Seq(Item) /\ Len(Rest(e)) = Len(e.items) - e.head
        /\ \A i \in 1..(Len(e.items) - e.head) : Rest(e)[i] = e.items[e.head + i]
    BY <2>2, RestIsAfter
  <2>4. Len(Rest(e)) = Len(Rest(q)) /\ \A i \in 1..Len(Rest(q)) : Rest(e)[i] = Rest(q)[i]
    BY <1>0, <2>2, <2>3
  <2>5. Rest(e) = Rest(q)  BY <1>0, <2>3, <2>4, SameItems
  <2>. QED  BY <2>1, <2>2, <2>5
<1>4. CASE q.head = 0
  BY <1>1, <1>4 DEF Compacted
<1>. QED  BY <1>1, <1>2, <1>3, <1>4

\* Of records that were kept one after the other the first k have expired.
Stored == Good([items |-> items, head |-> head])
          /\ \A i, j \in 1..Len(Kept) : i < j => Kept[j].age <= Kept[i].age

LEMMA KeptFacts ==
  ASSUME Stored
  PROVE  /\ items \in Seq(Item) /\ head \in 0..Len(items)
         /\ Kept \in Seq(Item) /\ Len(Kept) = Len(items) - head /\ Kept = After(items, head)
         /\ \A i \in 1..(Len(items) - head) : Kept[i] = items[head + i]
<1>. DEFINE q == [items |-> items, head |-> head]
<1>1. Good(q) /\ q.items = items /\ q.head = head /\ Kept = Rest(q)
  BY DEF Stored, Kept, Rest
<1>. HIDE DEF q
<1>2. /\ Rest(q) = After(items, head) /\ Rest(q) \in Seq(Item) /\ Len(Rest(q)) = Len(items) - head
      /\ \A i \in 1..(Len(items) - head) : Rest(q)[i] = items[head + i]
  BY <1>1, RestIsAfter
<1>. QED  BY <1>1, <1>2 DEF Good

LEMMA MinOfNaturals ==
  ASSUME NEW S \in SUBSET Nat, S # {}
  PROVE  \E x \in S : \A y \in S : x <= y
<1>1. PICK x \in S : \A y \in S : ~ <<y, x>> \in OpToRel(<, Nat)
  BY NatLessThanWellFounded, WFMin, Zenon
<1>2. ASSUME NEW y \in S  PROVE x <= y
  <2>1. ~ (y < x)  BY <1>1 DEF OpToRel
  <2>. QED  BY <2>1
<1>. QED  BY <1>2

LEMMA PrunedFacts ==
  ASSUME UsageAssumption, Stored
  PROVE  /\ Good(Pruned)
         /\ \E k \in 0..Len(Kept) :
              Rest(Pruned) = After(Kept, k) /\ Expired = First(Kept, k)
<1>0. /\ items \in Seq(Item) /\ head \in Nat /\ head <= Len(items) /\ Len(items) \in Nat
      /\ Kept \in Seq(Item) /\ Len(Kept) = Len(items) - head /\ Kept = After(items, head)
      /\ \A i \in 1..(Len(items) - head) : Kept[i] = items[head + i]
  BY KeptFacts
<1>1. CASE head >= Len(items)
  <2>. DEFINE e == [items |-> <<>>, head |-> 0]
  <2>1. Pruned = e  BY <1>1 DEF Pruned
  <2>2. Good(e) /\ Len(e.items) - e.head = 0  BY DEF Good
  <2>. HIDE DEF e
  <2>3. Rest(e) \in Seq(Item) /\ Len(Rest(e)) = 0  BY <2>2, RestIsAfter
  <2>4. Len(Kept) = 0  BY <1>0, <1>1
  <2>5. After(Kept, 0) \in Seq(Item) /\ Len(After(Kept, 0)) = 0  
    <3>1. 0 \in 0..Len(Kept) /\ Len(Kept) - 0 = 0  BY <2>4
    <3>. QED  BY <1>0, <3>1, AfterFacts
  <2>6. Rest(e) = After(Kept, 0)  BY <2>3, <2>5, SameItems
  <2>7. Expired = {} /\ First(Kept, 0) = {}
    <3>1. DOMAIN Kept = {}  BY <1>0, <2>4
    <3>. QED  BY <3>1 DEF Expired, First
  <2>8. 0 \in 0..Len(Kept)  BY <2>4
  <2>. QED  BY <2>1, <2>2, <2>6, <2>7, <2>8
<1>2. CASE ~(head >= Len(items))
  <2>. DEFINE fresh == {i \in (head + 1)..Len(items) : items[i].age <= Retention}
              new   == IF fresh = {} THEN Len(items)
                       ELSE (CHOOSE i \in fresh : \A j \in fresh : i <= j) - 1
              e     == [items |-> items, head |-> new]
  <2>1. Pruned = e  BY <1>2 DEF Pruned
  <2>2. new \in head..Len(items) /\ \A i \in (head + 1)..Len(items) :
                                      i \in fresh <=> i > new
    <3>1. CASE fresh = {}
      <4>1. new = Len(items)  BY <3>1
      <4>. QED  BY <1>0, <3>1, <4>1
    <3>2. CASE fresh # {}
      <4>1. fresh \in SUBSET Nat  BY <1>0
      <4>2. \E x \in fresh : \A y \in fresh : x <= y  BY <3>2, <4>1, MinOfNaturals
      <4>. DEFINE x == CHOOSE i \in fresh : \A j \in fresh : i <= j
      <4>3. x \in fresh /\ \A y \in fresh : x <= y  BY <4>2
      <4>4. new = x - 1  BY <3>2
      <4>. HIDE DEF x, new
      <4>5. x \in (head + 1)..Len(items) /\ items[x].age <= Retention  BY <4>3
      <4>6. new \in head..Len(items)  BY <1>0, <4>4, <4>5
      <4>7. ASSUME NEW i \in (head + 1)..Len(items), i > x PROVE i \in fresh
        <5>1. /\ i - head \in 1..(Len(items) - head) /\ x - head \in 1..(Len(items) - head)
              /\ x - head < i - head /\ head + (i - head) = i /\ head + (x - head) = x
          BY <1>0, <4>5, <4>7
        <5>2. Kept[i - head] = items[i] /\ Kept[x - head] = items[x]  BY <1>0, <5>1
        <5>3. items[i].age <= items[x].age  BY <1>0, <5>1, <5>2 DEF Stored
        <5>4. items[i] \in Item /\ items[x] \in Item  BY <1>0, <4>5
        <5>5. items[i].age \in Nat /\ items[x].age \in Nat  BY <5>4 DEF Item
        <5>6. items[i].age <= Retention  BY <4>5, <5>3, <5>5 DEF UsageAssumption
        <5>. QED  BY <5>6
      <4>. HIDE DEF fresh
      <4>8. \A i \in (head + 1)..Len(items) : i \in fresh <=> i > new
        <5>1. TAKE i \in (head + 1)..Len(items)
        <5>2. CASE i > x  BY <1>0, <4>4, <4>5, <4>7, <5>2
        <5>3. CASE i = x  BY <1>0, <4>3, <4>4, <4>5, <5>3
        <5>4. CASE i < x  BY <1>0, <4>3, <4>4, <4>5, <5>4
        <5>. QED  BY <1>0, <4>5, <5>2, <5>3, <5>4
      <4>. QED  BY <4>6, <4>8
    <3>. QED  BY <3>1, <3>2
  <2>. HIDE DEF new
  <2>3. Good(e) /\ e.items = items /\ e.head = new  BY <1>0, <2>2 DEF Good
  <2>. HIDE DEF e
  <2>4. Rest(e) = After(items, new)  BY <2>3, RestIsAfter
  <2>. DEFINE k == new - head
  <2>5. k \in 0..(Len(items) - head) /\ head + k = new  BY <1>0, <2>2
  <2>. HIDE DEF k
  <2>6. After(After(items, head), k) = After(items, head + k)
    <3>1. head \in 0..Len(items)  BY <1>0
    <3>. QED  BY <1>0, <2>5, <3>1, AfterAfter
  <2>7. Rest(e) = After(Kept, k)  BY <1>0, <2>4, <2>5, <2>6
  <2>8. \A j \in 1..Len(Kept) : Kept[j].age > Retention <=> j <= k
    <3>1. TAKE j \in 1..Len(Kept)
    <3>2. Kept[j] = items[head + j] /\ head + j \in (head + 1)..Len(items)  BY <1>0, <3>1
    <3>3. items[head + j].age <= Retention <=> head + j > new  BY <2>2, <3>2
    <3>4. items[head + j] \in Item  BY <1>0, <3>2
    <3>5. items[head + j].age \in Nat  BY <3>4 DEF Item
    <3>. QED  BY <1>0, <2>5, <3>1, <3>2, <3>3, <3>5 DEF UsageAssumption
  <2>9. {j \in DOMAIN Kept : Kept[j].age > Retention} = 1..k
    <3>1. DOMAIN Kept = 1..Len(Kept)  BY <1>0
    <3>. QED  BY <1>0, <2>5, <2>8, <3>1
  <2>10. Expired = First(Kept, k)  BY <2>9 DEF Expired, First
  <2>11. k \in 0..Len(Kept)  BY <1>0, <2>5
  <2>. QED  BY <2>1, <2>3, <2>7, <2>10, <2>11
<1>. QED  BY <1>1, <1>2

LEMMA PrunedFields ==
  /\ \A x : /\ [Pruned EXCEPT !.items = Append(@, x)].items = Append(Pruned.items, x)
            /\ [Pruned EXCEPT !.items = Append(@, x)].head = Pruned.head
  /\ \A n : /\ [Pruned EXCEPT !.head = @ + n].items = Pruned.items
            /\ [Pruned EXCEPT !.head = @ + n].head = Pruned.head + n
<1>1. PICK a, b : Pruned = [items |-> a, head |-> b]  BY DEF Pruned
<1>2. ASSUME NEW q, q = [items |-> a, head |-> b]
      PROVE  /\ \A x : /\ [q EXCEPT !.items = Append(@, x)].items = Append(q.items, x)
                       /\ [q EXCEPT !.items = Append(@, x)].head = q.head
             /\ \A n : /\ [q EXCEPT !.head = @ + n].items = q.items
                       /\ [q EXCEPT !.head = @ + n].head = q.head + n
  BY <1>2
<1>. QED  BY <1>1, <1>2

LEMMA BecomeFacts ==
  ASSUME NEW q, Good(q), Become(q)
  PROVE  /\ items' \in Seq(Item) /\ head' \in 0..Len(items')
         /\ Kept' = Rest(q)
BY DEF Good, Become, Kept, Rest

\* Two sequences that go on with the same record.
LEMMA GrownFacts ==
  ASSUME NEW q, Good(q), NEW g, NEW x \in Item, g.items = Append(q.items, x), g.head = q.head
  PROVE  Good(g) /\ Rest(g) = Append(Rest(q), x)
<1>1. /\ Rest(q) \in Seq(Item) /\ Len(Rest(q)) = Len(q.items) - q.head
      /\ \A i \in 1..(Len(q.items) - q.head) : Rest(q)[i] = q.items[q.head + i]
  BY RestIsAfter
<1>. DEFINE s == q.items
            h == q.head
            t == Append(s, x)
<1>2. s \in Seq(Item) /\ h \in 0..Len(s) /\ Len(s) \in Nat  BY DEF Good
<1>. HIDE DEF s, h
<1>3. /\ t \in Seq(Item) /\ Len(t) = Len(s) + 1 /\ t[Len(s) + 1] = x
      /\ \A i \in 1..Len(s) : t[i] = s[i]
  BY <1>2
<1>4. g.items = t /\ g.head = h  BY DEF s, h
<1>. HIDE DEF t
<1>5. Good(g)  BY <1>2, <1>3, <1>4 DEF Good
<1>6. /\ Rest(g) \in Seq(Item) /\ Len(Rest(g)) = Len(t) - h
      /\ \A i \in 1..(Len(t) - h) : Rest(g)[i] = t[h + i]
  BY <1>4, <1>5, RestIsAfter
<1>. DEFINE r == Rest(q)
            u == Append(r, x)
<1>7. r \in Seq(Item) /\ Len(r) = Len(s) - h /\ \A i \in 1..(Len(s) - h) : r[i] = s[h + i]
  BY <1>1 DEF s, h
<1>. HIDE DEF r
<1>8. /\ u \in Seq(Item) /\ Len(u) = Len(r) + 1 /\ u[Len(r) + 1] = x
      /\ \A i \in 1..Len(r) : u[i] = r[i]
  BY <1>7
<1>9. \A i \in 1..Len(u) : Rest(g)[i] = u[i]
  <2>1. TAKE i \in 1..Len(u)
  <2>2. Rest(g)[i] = t[h + i]  BY <1>2, <1>3, <1>6, <1>7, <1>8, <2>1
  <2>3. CASE i <= Len(r)
    <3>1. i \in 1..Len(r) /\ h + i \in 1..Len(s)  BY <1>2, <1>7, <2>1, <2>3
    <3>. QED  BY <1>3, <1>7, <1>8, <2>2, <3>1
  <2>4. CASE ~(i <= Len(r))
    <3>1. i = Len(r) + 1 /\ h + i = Len(s) + 1  BY <1>2, <1>7, <1>8, <2>1, <2>4
    <3>. QED  BY <1>3, <1>8, <2>2, <3>1
  <2>. QED  BY <2>3, <2>4
<1>10. Len(Rest(g)) = Len(u)  BY <1>2, <1>3, <1>6, <1>7, <1>8
<1>. HIDE DEF u
<1>11. Rest(g) = u  BY <1>6, <1>8, <1>9, <1>10, SameItems
<1>. QED  BY <1>5, <1>11 DEF r, u

LEMMA EnqueueFacts ==
  ASSUME UsageAssumption, Stored, worker.rec \in Nat, Enqueue
  PROVE  /\ items' \in Seq(Item) /\ head' \in 0..Len(items')
         /\ \E k \in 0..Len(Kept) :
              /\ Kept' = Append(After(Kept, k), [rec |-> worker.rec, age |-> 0])
              /\ done' = done \cup First(Kept, k)
<1>. DEFINE new == [rec |-> worker.rec, age |-> 0]
            g   == [Pruned EXCEPT !.items = Append(@, new)]
<1>1. Become(Compacted(g)) /\ done' = done \cup Expired  BY DEF Enqueue
<1>2. new \in Item  BY DEF Item
<1>. HIDE DEF new
<1>3. g.items = Append(Pruned.items, new) /\ g.head = Pruned.head  BY PrunedFields
<1>. HIDE DEF g
<1>4. Good(Pruned)  BY PrunedFacts
<1>5. Good(g) /\ Rest(g) = Append(Rest(Pruned), new)  BY <1>2, <1>3, <1>4, GrownFacts
<1>6. Good(Compacted(g)) /\ Rest(Compacted(g)) = Rest(g)  BY <1>5, CompactedFacts
<1>7. /\ items' \in Seq(Item) /\ head' \in 0..Len(items')
      /\ Kept' = Append(Rest(Pruned), new)
  BY <1>1, <1>5, <1>6, BecomeFacts
<1>8. PICK k \in 0..Len(Kept) : Rest(Pruned) = After(Kept, k) /\ Expired = First(Kept, k)
  BY PrunedFacts
<1>. QED  BY <1>1, <1>7, <1>8 DEF new

LEMMA PopFacts ==
  ASSUME UsageAssumption, Stored, NEW n \in Nat, PopOldest(n)
  PROVE  /\ items' \in Seq(Item) /\ head' \in 0..Len(items')
         /\ \E k \in 0..Len(Kept) :
              /\ Kept' = After(Kept, k)
              /\ done' = done \cup First(Kept, k)
              /\ last' = last \/ (k > 0 /\ last' = Kept[k].rec)
<1>. DEFINE q         == Pruned
            available == Len(q.items) - q.head
            count     == IF n < available THEN n ELSE available
            given     == SubSeq(q.items, q.head + 1, q.head + count)
            next      == [q EXCEPT !.head = @ + count]
<1>1. /\ last' = IF given = <<>> THEN last ELSE Last(given).rec
      /\ done' = done \cup Expired \cup RecordsOf(given)
      /\ Become(IF available = 0 THEN [items |-> <<>>, head |-> 0] ELSE Compacted(next))
  BY DEF PopOldest
<1>2. next.items = q.items /\ next.head = q.head + count  BY PrunedFields
<1>. HIDE DEF next
<1>3. Good(q)  BY PrunedFacts
<1>4. PICK e \in 0..Len(Kept) : Rest(q) = After(Kept, e) /\ Expired = First(Kept, e)
  BY PrunedFacts
<1>. HIDE DEF q
<1>5. q.items \in Seq(Item) /\ q.head \in 0..Len(q.items) /\ Len(q.items) \in Nat  BY <1>3 DEF Good
<1>6. available \in Nat /\ count \in Nat /\ count <= available /\ (available = 0 => count = 0)
  BY <1>5
<1>. DEFINE r == Rest(q)
<1>7. /\ r \in Seq(Item) /\ Len(r) = available
      /\ \A i \in 1..available : r[i] = q.items[q.head + i]
  BY <1>3, RestIsAfter
<1>8. Kept \in Seq(Item) /\ Len(Kept) \in Nat  BY KeptFacts
<1>9. /\ Len(r) = Len(Kept) - e
      /\ \A i \in 1..(Len(Kept) - e) : r[i] = Kept[e + i]
  BY <1>4, <1>8, AfterFacts
<1>. HIDE DEF available
<1>10. /\ given \in Seq(Item) /\ Len(given) = count
       /\ \A i \in 1..count : given[i] = Kept[e + i]
  <2>1. \A i \in (q.head + 1)..(q.head + count) : q.items[i] \in Item
    BY <1>5, <1>6 DEF available
  <2>2. /\ given \in Seq(Item)
        /\ Len(given) = IF q.head + 1 <= q.head + count
                        THEN (q.head + count) - (q.head + 1) + 1 ELSE 0
        /\ \A i \in 1..((q.head + count) - (q.head + 1) + 1) :
             given[i] = q.items[(q.head + 1) + i - 1]
    <3>1. q.head + 1 \in Int /\ q.head + count \in Int  BY <1>5, <1>6
    <3>. HIDE DEF count
    <3>. QED  BY <2>1, <3>1, SubSeqProperties
  <2>. HIDE DEF given, count
  <2>3. Len(given) = count /\ \A i \in 1..count : given[i] = q.items[q.head + i]
    <3>1. (q.head + count) - (q.head + 1) + 1 = count  BY <1>5, <1>6
    <3>2. Len(given) = count  BY <1>5, <1>6, <2>2, <3>1
    <3>3. ASSUME NEW i \in 1..count PROVE given[i] = q.items[q.head + i]
      <4>1. (q.head + 1) + i - 1 = q.head + i  BY <1>5, <3>3
      <4>2. given[i] = q.items[(q.head + 1) + i - 1]  BY <2>2, <3>1, <3>3
      <4>. QED  BY <4>1, <4>2
    <3>. QED  BY <3>2, <3>3
  <2>4. \A i \in 1..count : r[i] = q.items[q.head + i] /\ r[i] = Kept[e + i]
    BY <1>6, <1>7, <1>9
  <2>. QED  BY <2>2, <2>3, <2>4
<1>. HIDE DEF given, count
<1>. DEFINE k == e + count
<1>11. k \in 0..Len(Kept) /\ count \in 0..(Len(Kept) - e)  BY <1>6, <1>7, <1>8, <1>9
<1>12. After(r, count) = After(Kept, k)  BY <1>4, <1>8, <1>11, AfterAfter
<1>13. /\ items' \in Seq(Item) /\ head' \in 0..Len(items')
       /\ Kept' = After(Kept, k)
  <2>1. CASE available = 0
    <3>. DEFINE z == [items |-> <<>>, head |-> 0]
    <3>1. Become(z)  BY <1>1, <2>1
    <3>2. Good(z) /\ Len(z.items) - z.head = 0  BY DEF Good
    <3>. HIDE DEF z
    <3>3. Rest(z) \in Seq(Item) /\ Len(Rest(z)) = 0  BY <3>2, RestIsAfter
    <3>4. items' \in Seq(Item) /\ head' \in 0..Len(items') /\ Kept' = Rest(z)
      BY <3>1, <3>2, BecomeFacts
    <3>5. count = 0 /\ Len(r) = 0  BY <1>6, <1>7, <2>1
    <3>6. After(Kept, k) \in Seq(Item) /\ Len(After(Kept, k)) = 0
      <4>1. After(Kept, k) \in Seq(Item) /\ Len(After(Kept, k)) = Len(Kept) - k
        BY <1>8, <1>11, AfterFacts
      <4>. QED  BY <1>8, <1>9, <3>5, <4>1
    <3>7. Rest(z) = After(Kept, k)  BY <3>3, <3>6, SameItems
    <3>. QED  BY <3>4, <3>7
  <2>2. CASE available # 0
    <3>1. Become(Compacted(next))  BY <1>1, <2>2
    <3>2. Good(next)  BY <1>2, <1>5, <1>6 DEF Good, available
    <3>3. Rest(next) = After(r, count)
      <4>1. Rest(next) = After(next.items, next.head)  BY <3>2, RestIsAfter
      <4>2. r = After(q.items, q.head)  BY <1>3, RestIsAfter
      <4>3. count \in 0..(Len(q.items) - q.head)  BY <1>6 DEF available
      <4>. QED  BY <1>2, <1>5, <4>1, <4>2, <4>3, AfterAfter
    <3>4. Good(Compacted(next)) /\ Rest(Compacted(next)) = Rest(next)  BY <3>2, CompactedFacts
    <3>5. items' \in Seq(Item) /\ head' \in 0..Len(items') /\ Kept' = Rest(Compacted(next))
      BY <3>1, <3>4, BecomeFacts
    <3>. QED  BY <1>12, <3>3, <3>4, <3>5
  <2>. QED  BY <2>1, <2>2
<1>14. done' = done \cup First(Kept, k)
  <2>1. ASSUME NEW i \in 1..k PROVE Kept[i].rec \in First(Kept, e) \cup RecordsOf(given)
    <3>1. CASE i <= e  BY <1>8, <3>1 DEF First
    <3>2. CASE i > e
      <4>1. i - e \in 1..count /\ e + (i - e) = i  BY <1>6, <1>8, <1>11, <3>2
      <4>2. given[i - e] = Kept[i] /\ i - e \in DOMAIN given  BY <1>10, <4>1
      <4>. QED  BY <4>2 DEF RecordsOf
    <3>. QED  BY <1>6, <1>8, <3>1, <3>2
  <2>2. First(Kept, k) \subseteq First(Kept, e) \cup RecordsOf(given)  BY <2>1 DEF First
  <2>3. First(Kept, e) \subseteq First(Kept, k)  BY <1>6, <1>8 DEF First
  <2>4. RecordsOf(given) \subseteq First(Kept, k)
    <3>1. ASSUME NEW i \in DOMAIN given PROVE given[i].rec \in First(Kept, k)
      <4>1. i \in 1..count  BY <1>10
      <4>2. given[i] = Kept[e + i] /\ e + i \in 1..k  BY <1>6, <1>8, <1>10, <4>1
      <4>. QED  BY <4>2 DEF First
    <3>2. ASSUME NEW x \in RecordsOf(given) PROVE \E i \in DOMAIN given : x = given[i].rec
      BY DEF RecordsOf
    <3>. QED  BY <3>1, <3>2
  <2>5. done' = done \cup First(Kept, e) \cup RecordsOf(given)  BY <1>1, <1>4
  <2>. HIDE DEF k
  <2>. QED  BY <2>2, <2>3, <2>4, <2>5
<1>15. last' = last \/ (k > 0 /\ last' = Kept[k].rec)
  <2>1. CASE count = 0
    <3>1. given = <<>>  BY <1>10, <2>1
    <3>. QED  BY <1>1, <3>1
  <2>2. CASE count # 0
    <3>1. given # <<>> /\ Last(given) = Kept[k] /\ k > 0  BY <1>6, <1>10, <2>2 DEF Last
    <3>. QED  BY <1>1, <3>1
  <2>. QED  BY <2>1, <2>2
<1>. HIDE DEF k
<1>. QED  BY <1>11, <1>13, <1>14, <1>15

-----------------------------------------------------------------------------
(* The inductive invariant.                                                  *)

UsageTypeOK ==
  /\ queue \in Seq(Nat) /\ closed \in BOOLEAN /\ published \in Nat
  /\ calls \subseteq {"Signal", "Broadcast"}
  /\ worker \in Workers
  /\ enabled \in BOOLEAN /\ clearing \in BOOLEAN
  /\ subs \in [DOMAIN subs -> Seq(Nat)] /\ seen \in [DOMAIN seen -> Nat]
  /\ last \in Nat /\ done \subseteq Nat

\* A number is behind all that is still to come: what the worker holds and the queue.
IsBehind(x, latest, held, waiting) ==
  /\ x <= latest
  /\ held # 0 => x < held
  /\ \A j \in 1..Len(waiting) : x < waiting[j]

Behind(x) == IsBehind(x, published, worker.rec, queue)

QueueInTurn ==
  /\ worker.rec # 0 <=> worker.at \in Busy
  /\ worker.rec <= published
  /\ \A j \in 1..Len(queue) : worker.rec < queue[j] /\ queue[j] <= published
  /\ \A i, j \in 1..Len(queue) : i < j => queue[i] < queue[j]

KeptInTurn ==
  /\ Behind(last)
  /\ \A i \in 1..Len(Kept) : last < Kept[i].rec /\ Behind(Kept[i].rec)
  /\ \A i, j \in 1..Len(Kept) : i < j => Kept[i].rec < Kept[j].rec

\* What a subscriber whose last record is x will read.
Follows(x, told) ==
  /\ \A i \in 1..Len(told) : told[i] # 0 => x < told[i]
  /\ \A i, j \in 1..Len(told) : i < j /\ told[j] # 0 => told[i] < told[j]

SubsInTurn ==
  /\ DOMAIN subs \subseteq DOMAIN seen
  /\ \A s \in DOMAIN subs :
       /\ Behind(seen[s]) /\ Follows(seen[s], subs[s])
       /\ \A i \in 1..Len(subs[s]) : Behind(subs[s][i])

\* Every record accepted is somewhere, and what is done with is nowhere else.
Held    == IF worker.rec = 0 THEN {} ELSE {worker.rec}
Present == ToSet(queue) \cup Held \cup RecordsOf(Kept)
Accounted == Present \cup done = 1..published /\ Present \cap done = {}

\* A worker that waits although it should not is about to be woken.
Awake ==
  /\ worker.at = "waiting" /\ (closed \/ queue # <<>>) => calls # {}
  /\ worker.at = "ended" => closed /\ queue = <<>>

IInv == /\ UsageTypeOK /\ Stored
        /\ QueueInTurn /\ KeptInTurn /\ SubsInTurn /\ Accounted /\ Awake

-----------------------------------------------------------------------------
(* Initially.                                                                *)

LEMMA NothingKept ==
  ASSUME items = <<>>, head = 0
  PROVE  Stored /\ Kept = <<>> /\ Len(Kept) = 0 /\ RecordsOf(Kept) = {}
<1>1. Good([items |-> items, head |-> head])  BY DEF Good
<1>2. Kept = <<>> /\ Len(Kept) = 0  BY SubSeqEmpty DEF Kept
<1>. QED  BY <1>1, <1>2 DEF Stored, RecordsOf

LEMMA Initially == UsageInit => IInv
<1>. SUFFICES ASSUME UsageInit PROVE IInv  OBVIOUS
<1>1. UsageTypeOK
  <2>1. /\ Nobody \in [DOMAIN Nobody -> Seq(Nat)] /\ Nobody \in [DOMAIN Nobody -> Nat]
        /\ DOMAIN Nobody = {}
    BY DEF Nobody
  <2>2. queue \in Seq(Nat)  BY DEF UsageInit
  <2>. QED  BY <2>1, <2>2 DEF UsageInit, UsageTypeOK, Workers
<1>2. Stored /\ Len(Kept) = 0 /\ RecordsOf(Kept) = {}  BY NothingKept DEF UsageInit
<1>3. queue = <<>> /\ Len(queue) = 0 /\ ToSet(queue) = {} /\ published = 0 /\ worker.rec = 0
      /\ worker.at = "check" /\ last = 0 /\ done = {} /\ DOMAIN subs = {}
  BY DEF UsageInit, ToSet, Nobody
<1>4. QueueInTurn /\ KeptInTurn  BY <1>2, <1>3 DEF QueueInTurn, KeptInTurn, Behind, IsBehind, Busy
<1>5. SubsInTurn /\ Awake  BY <1>3 DEF SubsInTurn, Awake
<1>6. Accounted  BY <1>2, <1>3 DEF Accounted, Present, Held
<1>. QED  BY <1>1, <1>2, <1>4, <1>5, <1>6 DEF IInv

-----------------------------------------------------------------------------
(* The queue and the worker.                                                 *)

\* What the actions do to the manager's part.
Takes  == Check /\ queue # <<>>
Rests  == Check /\ queue = <<>>
Lets(w) == /\ worker.at \in Busy /\ w = worker.rec /\ worker' = [at |-> "check", rec |-> 0]
           /\ ManagerRest
Holds  == /\ worker.at \in Busy /\ worker'.at \in Busy /\ worker'.rec = worker.rec
          /\ ManagerRest
Leaves == UNCHANGED managerVars

LEMMA ManagerTypes ==
  ASSUME IInv, Publish \/ Signal \/ Stop \/ Broadcast \/ Check \/ Holds \/ (\E w : Lets(w)) \/ Leaves,
         Holds => worker' \in Workers
  PROVE  /\ queue' \in Seq(Nat) /\ closed' \in BOOLEAN /\ published' \in Nat
         /\ calls' \subseteq {"Signal", "Broadcast"}
         /\ worker' \in Workers
<1>. USE DEF IInv, UsageTypeOK
<1>1. CASE Publish
  <2>1. published' = published + 1 /\ queue' = Append(queue, published')  BY <1>1 DEF Publish
  <2>2. published' \in Nat  BY <2>1
  <2>. QED  BY <1>1, <2>1, <2>2 DEF Publish
<1>2. CASE Signal \/ Broadcast
  BY <1>2 DEF Signal, Broadcast, WakeUp, At, Workers
<1>3. CASE Stop  BY <1>3 DEF Stop
<1>4. CASE Takes
  <2>1. /\ Head(queue) \in Nat /\ queue' = Tail(queue) /\ Tail(queue) \in Seq(Nat)
        /\ worker' = [at |-> "handle", rec |-> Head(queue)]
    BY <1>4 DEF Takes, Check, At
  <2>2. worker' \in Workers  BY <2>1 DEF Workers, Busy
  <2>. QED  BY <1>4, <2>1, <2>2 DEF Takes, Check
<1>5. CASE Rests
  BY <1>5 DEF Rests, Check, At, Workers
<1>6. CASE Holds  BY <1>6 DEF Holds, ManagerRest
<1>7. CASE \E w : Lets(w)
  BY <1>7 DEF Lets, ManagerRest, Workers
<1>8. CASE Leaves  BY <1>8 DEF Leaves, managerVars
<1>. QED  BY <1>1, <1>2, <1>3, <1>4, <1>5, <1>6, <1>7, <1>8 DEF Takes, Rests

\* What is behind stays behind.
KeepsBehind ==
  \A x \in Nat : IsBehind(x, published, worker.rec, queue)
               => IsBehind(x, published', worker'.rec, queue')

LEMMA QueueSteps ==
  ASSUME IInv, Publish \/ Signal \/ Stop \/ Broadcast \/ Check \/ Holds \/ (\E w : Lets(w)) \/ Leaves
  PROVE  /\ QueueInTurn'
         /\ KeepsBehind
         /\ Awake'
<1>0. /\ queue \in Seq(Nat) /\ published \in Nat /\ worker.rec \in Nat
      /\ Len(queue) \in Nat /\ \A j \in 1..Len(queue) : queue[j] \in Nat
      /\ worker \in Workers
  BY DEF IInv, UsageTypeOK, Workers
<1>00. QueueInTurn /\ Awake  BY DEF IInv
<1>. USE <1>0, <1>00
<1>1. CASE Publish
  <2>1. /\ published' = published + 1 /\ queue' = Append(queue, published + 1) /\ worker' = worker
        /\ calls' # {} /\ ~closed /\ closed' = closed
    BY <1>1 DEF Publish
  <2>2. /\ Len(queue') = Len(queue) + 1 /\ queue'[Len(queue) + 1] = published + 1
        /\ \A j \in 1..Len(queue) : queue'[j] = queue[j]
    BY <2>1
  <2>3. QueueInTurn'  BY <2>1, <2>2 DEF QueueInTurn
  <2>4. KeepsBehind  BY <2>1, <2>2 DEF KeepsBehind, Behind, IsBehind
  <2>5. Awake'  BY <2>1 DEF Awake
  <2>. QED  BY <2>3, <2>4, <2>5
<1>2. CASE Signal \/ Broadcast
  <2>1. /\ queue' = queue /\ published' = published /\ closed' = closed
        /\ worker' = IF worker.at = "waiting" THEN [at |-> "check", rec |-> 0] ELSE worker
    BY <1>2 DEF Signal, Broadcast, WakeUp, At
  <2>2. worker'.rec = worker.rec /\ worker'.at # "waiting"
    BY <2>1 DEF QueueInTurn, Busy
  <2>3. /\ worker'.at \in Busy <=> worker.at \in Busy
        /\ worker'.at = "ended" <=> worker.at = "ended"
    BY <2>1 DEF Busy
  <2>4. QueueInTurn'  BY <2>1, <2>2, <2>3 DEF QueueInTurn
  <2>5. KeepsBehind  BY <2>1, <2>2 DEF KeepsBehind, Behind, IsBehind
  <2>6. Awake'  BY <2>1, <2>2, <2>3 DEF Awake
  <2>. QED  BY <2>4, <2>5, <2>6
<1>3. CASE Stop
  <2>1. queue' = queue /\ published' = published /\ worker' = worker /\ closed' /\ calls' # {}
        /\ ~closed
    BY <1>3 DEF Stop
  <2>. QED  BY <2>1 DEF QueueInTurn, KeepsBehind, Behind, IsBehind, Awake
<1>4. CASE Takes
  <2>1. /\ queue' = Tail(queue) /\ worker' = [at |-> "handle", rec |-> Head(queue)]
        /\ published' = published /\ queue # <<>>
    BY <1>4 DEF Takes, Check, At
  <2>2. /\ Len(queue) > 0 /\ worker'.rec = queue[1] /\ worker'.at \in Busy /\ worker'.at = "handle"
        /\ Len(queue') = Len(queue) - 1
        /\ \A j \in 1..Len(queue') : queue'[j] = queue[j + 1]
    BY <2>1 DEF Busy
  <2>3. QueueInTurn'  BY <2>1, <2>2 DEF QueueInTurn
  <2>4. KeepsBehind  BY <2>1, <2>2 DEF KeepsBehind, Behind, IsBehind
  <2>5. Awake'  BY <2>2 DEF Awake
  <2>. QED  BY <2>3, <2>4, <2>5
<1>5. CASE Rests
  <2>1. /\ queue' = queue /\ published' = published /\ worker'.rec = 0 /\ worker.rec = 0
        /\ worker'.at \notin Busy /\ queue = <<>> /\ closed' = closed
        /\ worker'.at = IF closed THEN "ended" ELSE "waiting"
    BY <1>5 DEF Rests, Check, At, QueueInTurn, Busy
  <2>2. QueueInTurn' /\ KeepsBehind
    BY <2>1 DEF QueueInTurn, KeepsBehind, Behind, IsBehind
  <2>3. Awake'  BY <2>1 DEF Awake
  <2>. QED  BY <2>2, <2>3
<1>6. CASE Holds
  <2>1. queue' = queue /\ published' = published /\ worker'.rec = worker.rec /\ worker'.at \in Busy
        /\ worker.at \in Busy
    BY <1>6 DEF Holds, ManagerRest
  <2>2. Awake'  BY <2>1 DEF Awake, Busy
  <2>. QED  BY <2>1, <2>2 DEF QueueInTurn, KeepsBehind, Behind, IsBehind
<1>7. CASE \E w : Lets(w)
  <2>1. queue' = queue /\ published' = published /\ worker'.rec = 0 /\ worker'.at = "check"
    BY <1>7 DEF Lets, ManagerRest
  <2>2. \A j \in 1..Len(queue) : 0 < queue[j]  BY DEF QueueInTurn
  <2>. QED  BY <2>1, <2>2 DEF QueueInTurn, KeepsBehind, Behind,
    IsBehind, Awake, Busy
<1>8. CASE Leaves
  BY <1>8 DEF Leaves, managerVars, QueueInTurn, KeepsBehind, Behind, IsBehind, Awake
<1>. QED  BY <1>1, <1>2, <1>3, <1>4, <1>5, <1>6, <1>7, <1>8 DEF Takes, Rests

-----------------------------------------------------------------------------
(* The kept records.                                                         *)

LEMMA KeptTypes ==
  ASSUME Stored
  PROVE  /\ Kept \in Seq(Item) /\ Len(Kept) \in Nat
         /\ \A i \in 1..Len(Kept) : Kept[i].rec \in Nat /\ Kept[i].age \in Nat
<1>1. Kept \in Seq(Item)  BY KeptFacts
<1>2. \A i \in 1..Len(Kept) : Kept[i] \in Item  BY <1>1
<1>. QED  BY <1>1, <1>2 DEF Item

LEMMA KeptUnchanged ==
  ASSUME IInv, KeepsBehind, UNCHANGED <<items, head, last>>
  PROVE  Kept' = Kept /\ Stored' /\ KeptInTurn'
<1>0. Stored /\ KeptInTurn /\ last \in Nat  BY DEF IInv, UsageTypeOK
<1>1. Kept' = Kept  BY DEF Kept
<1>2. Stored'  BY <1>0, <1>1 DEF Stored
<1>3. KeptInTurn'
  <2>1. last' = last  OBVIOUS
  <2>2. \A i \in 1..Len(Kept) : Kept[i].rec \in Nat  BY <1>0, KeptTypes
  <2>. QED  BY <1>0, <1>1, <2>1, <2>2 DEF KeptInTurn, KeepsBehind, Behind
<1>. QED  BY <1>1, <1>2, <1>3

LEMMA KeptShortened ==
  ASSUME IInv, KeepsBehind, items' \in Seq(Item), head' \in 0..Len(items'),
         NEW k \in 0..Len(Kept), Kept' = After(Kept, k),
         last' = last \/ (k > 0 /\ last' = Kept[k].rec)
  PROVE  Stored' /\ KeptInTurn' /\ last' \in Nat
<1>0. Stored /\ KeptInTurn /\ last \in Nat  BY DEF IInv, UsageTypeOK
<1>1. /\ Kept \in Seq(Item) /\ Len(Kept) \in Nat
      /\ \A i \in 1..Len(Kept) : Kept[i].rec \in Nat /\ Kept[i].age \in Nat
  BY <1>0, KeptTypes
<1>2. /\ Len(Kept') = Len(Kept) - k
      /\ \A i \in 1..(Len(Kept) - k) : Kept'[i] = Kept[k + i]
  BY <1>1, AfterFacts
<1>3. \A i \in 1..Len(Kept') : k + i \in 1..Len(Kept) /\ Kept'[i] = Kept[k + i]  BY <1>1, <1>2
<1>4. Stored'
  <2>1. Good([items |-> items', head |-> head'])  BY DEF Good
  <2>2. ASSUME NEW i \in 1..Len(Kept'), NEW j \in 1..Len(Kept'), i < j
        PROVE  Kept'[j].age <= Kept'[i].age
    <3>1. k + i < k + j  BY <1>1, <1>2, <2>2
    <3>2. Kept[k + j].age <= Kept[k + i].age  BY <1>0, <1>3, <2>2, <3>1 DEF Stored
    <3>. QED  BY <1>3, <2>2, <3>2
  <2>. QED  BY <2>1, <2>2 DEF Stored
<1>. DEFINE Next(x) == IsBehind(x, published', worker'.rec, queue')
<1>5. \A i \in 1..Len(Kept) : Next(Kept[i].rec) /\ last < Kept[i].rec
  BY <1>0, <1>1 DEF KeptInTurn, KeepsBehind, Behind
<1>6. last' \in Nat /\ Next(last') /\ \A i \in 1..Len(Kept') : last' < Kept'[i].rec
  <2>1. CASE last' = last
    <3>1. Next(last)  BY <1>0 DEF KeptInTurn, KeepsBehind, Behind
    <3>. HIDE DEF Next
    <3>. QED  BY <1>0, <1>3, <1>5, <2>1, <3>1
  <2>2. CASE k > 0 /\ last' = Kept[k].rec
    <3>1. k \in 1..Len(Kept)  BY <1>1, <2>2
    <3>2. Next(Kept[k].rec) /\ Kept[k].rec \in Nat  BY <1>1, <1>5, <3>1
    <3>3. ASSUME NEW i \in 1..Len(Kept') PROVE Kept[k].rec < Kept'[i].rec
      <4>1. k < k + i /\ k + i \in 1..Len(Kept)  BY <1>1, <1>2, <1>3, <3>3
      <4>. QED  BY <1>0, <1>3, <3>1, <3>3, <4>1 DEF KeptInTurn
    <3>. HIDE DEF Next
    <3>. QED  BY <2>2, <3>2, <3>3
  <2>. QED  BY <2>1, <2>2
<1>7. KeptInTurn'
  <2>1. \A i \in 1..Len(Kept') : Next(Kept'[i].rec)
    <3>. HIDE DEF Next
    <3>. QED  BY <1>3, <1>5
  <2>2. ASSUME NEW i \in 1..Len(Kept'), NEW j \in 1..Len(Kept'), i < j
        PROVE  Kept'[i].rec < Kept'[j].rec
    <3>1. k + i < k + j  BY <1>1, <1>2, <2>2
    <3>2. Kept[k + i].rec < Kept[k + j].rec  BY <1>0, <1>3, <2>2, <3>1 DEF KeptInTurn
    <3>. QED  BY <1>3, <2>2, <3>2
  <2>. QED  BY <1>6, <2>1, <2>2 DEF KeptInTurn, Behind
<1>. QED  BY <1>4, <1>6, <1>7

\* A record is enqueued behind those that are left.
LEMMA KeptGrown ==
  ASSUME IInv, KeepsBehind, items' \in Seq(Item), head' \in 0..Len(items'), last' = last,
         NEW k \in 0..Len(Kept), worker.rec # 0, worker'.rec = 0, UNCHANGED <<queue, published>>,
         Kept' = Append(After(Kept, k), [rec |-> worker.rec, age |-> 0])
  PROVE  Stored' /\ KeptInTurn'
<1>0. Stored /\ KeptInTurn /\ QueueInTurn /\ last \in Nat /\ worker.rec \in Nat
  BY DEF IInv, UsageTypeOK, Workers
<1>1. /\ Kept \in Seq(Item) /\ Len(Kept) \in Nat
      /\ \A i \in 1..Len(Kept) : Kept[i].rec \in Nat /\ Kept[i].age \in Nat
  BY <1>0, KeptTypes
<1>2. /\ After(Kept, k) \in Seq(Item) /\ Len(After(Kept, k)) = Len(Kept) - k
      /\ \A i \in 1..(Len(Kept) - k) : After(Kept, k)[i] = Kept[k + i]
  BY <1>1, AfterFacts
<1>. DEFINE rest == After(Kept, k)
            new  == [rec |-> worker.rec, age |-> 0]
            n    == Len(Kept) - k
<1>3. new \in Item /\ new.rec = worker.rec /\ new.age = 0  BY <1>0 DEF Item
<1>4. n \in Nat /\ rest \in Seq(Item) /\ Len(rest) = n  BY <1>1, <1>2
<1>. HIDE DEF rest, new
<1>5. /\ Len(Kept') = n + 1 /\ Kept'[n + 1] = new
      /\ \A i \in 1..n : Kept'[i] = rest[i]
  <2>1. Kept' = Append(rest, new)  BY DEF rest, new
  <2>. HIDE DEF n
  <2>2. /\ Len(Append(rest, new)) = Len(rest) + 1 /\ Append(rest, new)[Len(rest) + 1] = new
        /\ \A i \in 1..Len(rest) : Append(rest, new)[i] = rest[i]
    BY <1>3, <1>4
  <2>. QED  BY <1>4, <2>1, <2>2
<1>6. \A i \in 1..n : k + i \in 1..Len(Kept) /\ Kept'[i] = Kept[k + i]
  BY <1>1, <1>2, <1>5 DEF rest
<1>7. n + 1 \in 1..Len(Kept') /\ \A i \in 1..Len(Kept') : i \in 1..n \/ i = n + 1
  BY <1>4, <1>5
<1>8. Stored'
  <2>1. Good([items |-> items', head |-> head'])  BY DEF Good
  <2>2. ASSUME NEW i \in 1..Len(Kept'), NEW j \in 1..Len(Kept'), i < j
        PROVE  Kept'[j].age <= Kept'[i].age
    <3>1. i \in 1..n  BY <1>4, <1>5, <2>2
    <3>2. CASE j = n + 1
      <4>1. Kept'[i].age \in Nat  BY <1>1, <1>6, <3>1
      <4>. QED  BY <1>3, <1>5, <3>2, <4>1
    <3>3. CASE j \in 1..n
      <4>1. k + i < k + j  BY <1>1, <1>4, <2>2, <3>1, <3>3
      <4>2. Kept[k + j].age <= Kept[k + i].age  BY <1>0, <1>6, <3>1, <3>3, <4>1 DEF Stored
      <4>. QED  BY <1>6, <3>1, <3>3, <4>2
    <3>. QED  BY <1>7, <3>2, <3>3
  <2>. QED  BY <2>1, <2>2 DEF Stored
<1>. DEFINE Next(x) == IsBehind(x, published', worker'.rec, queue')
<1>9. Next(last) /\ last < worker.rec
      /\ \A i \in 1..Len(Kept) : Next(Kept[i].rec) /\ last < Kept[i].rec /\ Kept[i].rec < worker.rec
  <2>1. last < worker.rec /\ \A i \in 1..Len(Kept) : Kept[i].rec < worker.rec
    BY <1>0 DEF KeptInTurn, Behind, IsBehind
  <2>. QED  BY <1>0, <1>1, <2>1 DEF KeptInTurn, KeepsBehind, Behind
<1>10. Next(worker.rec)
  BY <1>0 DEF QueueInTurn, IsBehind
<1>11. KeptInTurn'
  <2>1. ASSUME NEW i \in 1..Len(Kept') PROVE last' < Kept'[i].rec /\ Next(Kept'[i].rec)
    <3>. HIDE DEF Next
    <3>1. CASE i = n + 1  BY <1>3, <1>5, <1>9, <1>10, <3>1
    <3>2. CASE i \in 1..n  BY <1>6, <1>9, <3>2
    <3>. QED  BY <1>7, <3>1, <3>2
  <2>2. ASSUME NEW i \in 1..Len(Kept'), NEW j \in 1..Len(Kept'), i < j
        PROVE  Kept'[i].rec < Kept'[j].rec
    <3>1. i \in 1..n  BY <1>4, <1>5, <2>2
    <3>2. CASE j = n + 1  BY <1>3, <1>5, <1>6, <1>9, <3>1, <3>2
    <3>3. CASE j \in 1..n
      <4>1. k + i < k + j  BY <1>1, <1>4, <2>2, <3>1, <3>3
      <4>2. Kept[k + i].rec < Kept[k + j].rec  BY <1>0, <1>6, <3>1, <3>3, <4>1 DEF KeptInTurn
      <4>. QED  BY <1>6, <3>1, <3>3, <4>2
    <3>. QED  BY <1>7, <3>2, <3>3
  <2>3. Next(last')  BY <1>9
  <2>. QED  BY <2>1, <2>2, <2>3 DEF KeptInTurn, Behind
<1>. QED  BY <1>8, <1>11

LEMMA TickFacts ==
  ASSUME UsageAssumption, IInv, RecordsAge
  PROVE  Stored' /\ KeptInTurn' /\ RecordsOf(Kept)' = RecordsOf(Kept)
<1>. DEFINE Grown(a) == IF a <= Retention THEN a + 1 ELSE a
<1>0. Stored /\ KeptInTurn  BY DEF IInv
<1>1. /\ items \in Seq(Item) /\ Len(items) \in Nat /\ head \in 0..Len(items)
      /\ Kept \in Seq(Item) /\ Len(Kept) = Len(items) - head
      /\ \A i \in 1..(Len(items) - head) : Kept[i] = items[head + i]
  BY <1>0, KeptFacts
<1>2. /\ items' = [i \in DOMAIN items |->
                     [items[i] EXCEPT !.age = IF @ <= Retention THEN @ + 1 ELSE @]]
      /\ head' = head /\ last' = last /\ queue' = queue /\ worker' = worker /\ published' = published
  BY DEF RecordsAge, managerVars
<1>3. \A i \in 1..Len(items) : items[i] \in Item  BY <1>1
<1>4. ASSUME NEW i \in 1..Len(items)
      PROVE  /\ items'[i] \in Item /\ items'[i].rec = items[i].rec
             /\ items'[i].age = Grown(items[i].age)
  <2>1. items'[i] = [items[i] EXCEPT !.age = Grown(items[i].age)]
    <3>1. i \in DOMAIN items  BY <1>1
    <3>2. items'[i] = [items[i] EXCEPT !.age = IF @ <= Retention THEN @ + 1 ELSE @]
      BY <1>2, <3>1, Zenon
    <3>. QED  BY <3>2
  <2>2. items[i] \in Item  BY <1>3
  <2>3. items[i].age \in Nat  BY <2>2 DEF Item
  <2>4. Grown(items[i].age) \in Nat  BY <2>3 DEF UsageAssumption
  <2>. HIDE DEF Grown
  <2>. QED  BY <2>1, <2>2, <2>4 DEF Item
<1>5. items' \in Seq(Item) /\ Len(items') = Len(items)
  <2>1. DOMAIN items' = 1..Len(items)  BY <1>1, <1>2
  <2>. QED  BY <1>1, <1>2, <1>4, <2>1
<1>. DEFINE q == [items |-> items', head |-> head']
<1>6. Good(q) /\ q.items = items' /\ q.head = head /\ Kept' = Rest(q)
  BY <1>1, <1>2, <1>5 DEF Good, Rest, Kept
<1>. HIDE DEF q
<1>7. /\ Kept' \in Seq(Item) /\ Len(Kept') = Len(Kept)
      /\ \A i \in 1..Len(Kept) : Kept'[i] = items'[head + i]
  <2>1. /\ Rest(q) \in Seq(Item) /\ Len(Rest(q)) = Len(q.items) - q.head
        /\ \A i \in 1..(Len(q.items) - q.head) : Rest(q)[i] = q.items[q.head + i]
    BY <1>6, RestIsAfter
  <2>2. Len(q.items) - q.head = Len(Kept)  BY <1>1, <1>5, <1>6
  <2>. QED  BY <1>6, <2>1, <2>2
<1>8. ASSUME NEW i \in 1..Len(Kept)
      PROVE  Kept'[i].rec = Kept[i].rec /\ Kept'[i].age = Grown(Kept[i].age)
  <2>1. head + i \in 1..Len(items) /\ Kept[i] = items[head + i] /\ Kept'[i] = items'[head + i]
    BY <1>1, <1>7
  <2>. HIDE DEF Grown
  <2>. QED  BY <1>4, <2>1
<1>9. Stored'
  <2>1. ASSUME NEW i \in 1..Len(Kept'), NEW j \in 1..Len(Kept'), i < j
        PROVE  Kept'[j].age <= Kept'[i].age
    <3>1. Kept[j].age <= Kept[i].age /\ Kept[i].age \in Nat /\ Kept[j].age \in Nat
      BY <1>0, <1>7, <2>1, KeptTypes DEF Stored
    <3>2. Kept'[i].age = Grown(Kept[i].age) /\ Kept'[j].age = Grown(Kept[j].age)
      BY <1>7, <1>8, <2>1
    <3>. QED  BY <3>1, <3>2 DEF UsageAssumption
  <2>2. Good([items |-> items', head |-> head'])  BY <1>6 DEF q
  <2>. QED  BY <2>1, <2>2 DEF Stored
<1>10. KeptInTurn'
  <2>1. \A x : IsBehind(x, published', worker'.rec, queue')
                 <=> IsBehind(x, published, worker.rec, queue)
    BY <1>2
  <2>. HIDE DEF Grown
  <2>. QED  BY <1>0, <1>2, <1>7, <1>8, <2>1 DEF KeptInTurn, Behind
<1>11. RecordsOf(Kept)' = RecordsOf(Kept)
  <2>1. DOMAIN Kept = 1..Len(Kept) /\ DOMAIN Kept' = 1..Len(Kept)  BY <1>1, <1>7
  <2>. HIDE DEF Grown
  <2>. QED  BY <1>8, <2>1 DEF RecordsOf
<1>. QED  BY <1>9, <1>10, <1>11

-----------------------------------------------------------------------------
(* The subscribers.                                                          *)

LEMMA SubsUnchanged ==
  ASSUME IInv, KeepsBehind, UNCHANGED <<subs, seen>>
  PROVE  SubsInTurn'
<1>1. \A s \in DOMAIN subs : seen[s] \in Nat /\ \A i \in 1..Len(subs[s]) : subs[s][i] \in Nat
  BY DEF IInv, UsageTypeOK, SubsInTurn
<1>. QED  BY <1>1 DEF IInv, SubsInTurn, KeepsBehind, Behind

LEMMA FollowsAppend ==
  ASSUME NEW x \in Nat, NEW told \in Seq(Nat), NEW r \in Nat, Follows(x, told),
         r # 0 => x < r /\ \A i \in 1..Len(told) : told[i] < r
  PROVE  Follows(x, Append(told, r))
<1>. DEFINE new == Append(told, r)
<1>1. /\ Len(new) = Len(told) + 1 /\ new[Len(told) + 1] = r
      /\ \A i \in 1..Len(told) : new[i] = told[i]
      /\ Len(told) \in Nat
  OBVIOUS
<1>. HIDE DEF new
<1>2. ASSUME NEW i \in 1..Len(new), NEW j \in 1..Len(new), i < j, new[j] # 0
      PROVE  new[i] < new[j]
  <2>1. i \in 1..Len(told)  BY <1>1, <1>2
  <2>2. CASE j \in 1..Len(told)  BY <1>1, <1>2, <2>1, <2>2 DEF Follows
  <2>3. CASE j = Len(told) + 1  BY <1>1, <1>2, <2>1, <2>3
  <2>. QED  BY <1>1, <2>2, <2>3
<1>3. ASSUME NEW i \in 1..Len(new), new[i] # 0 PROVE x < new[i]
  <2>1. CASE i \in 1..Len(told)  BY <1>1, <1>3, <2>1 DEF Follows
  <2>2. CASE i = Len(told) + 1  BY <1>1, <1>3, <2>2
  <2>. QED  BY <1>1, <2>1, <2>2
<1>4. Follows(x, new)  BY <1>2, <1>3 DEF Follows
<1>. QED  BY <1>4 DEF new

\* A record, or 0, is offered to everyone.
LEMMA OfferedFacts ==
  ASSUME IInv, KeepsBehind, NEW r \in Nat, subs' = Offered(r), UNCHANGED seen,
         IsBehind(r, published', worker'.rec, queue'),
         r = 0 \/ r = worker.rec
  PROVE  SubsInTurn' /\ subs' \in [DOMAIN subs' -> Seq(Nat)]
<1>0. SubsInTurn /\ seen \in [DOMAIN seen -> Nat] /\ subs \in [DOMAIN subs -> Seq(Nat)]
  BY DEF IInv, UsageTypeOK
<1>. DEFINE D == DOMAIN subs \ TooSlow
            Next(x) == IsBehind(x, published', worker'.rec, queue')
<1>1. DOMAIN subs' = D /\ \A s \in D : subs'[s] = Append(subs[s], r)  BY DEF Offered
<1>. HIDE DEF D
<1>2. ASSUME NEW s \in D
      PROVE  /\ subs'[s] \in Seq(Nat) /\ Next(seen'[s]) /\ Follows(seen'[s], subs'[s])
             /\ \A i \in 1..Len(subs'[s]) : Next(subs'[s][i])
  <2>1. s \in DOMAIN subs /\ subs[s] \in Seq(Nat) /\ seen[s] \in Nat /\ Len(subs[s]) \in Nat
    BY <1>0 DEF D, SubsInTurn
  <2>2. \A i \in 1..Len(subs[s]) : subs[s][i] \in Nat  BY <2>1
  <2>3. Next(seen[s]) /\ \A i \in 1..Len(subs[s]) : Next(subs[s][i])
    BY <1>0, <2>1, <2>2 DEF SubsInTurn, KeepsBehind, Behind
  <2>4. r # 0 => seen[s] < r /\ \A i \in 1..Len(subs[s]) : subs[s][i] < r
    BY <1>0, <2>1 DEF SubsInTurn, Behind, IsBehind
  <2>. DEFINE told == subs[s]
  <2>5. told \in Seq(Nat) /\ Follows(seen[s], told)  BY <1>0, <2>1 DEF SubsInTurn
  <2>6. subs'[s] = Append(told, r) /\ \A i \in 1..Len(told) : Next(told[i])  BY <1>1, <2>3
  <2>7. r # 0 => seen[s] < r /\ \A i \in 1..Len(told) : told[i] < r  BY <2>4
  <2>. HIDE DEF told, Next
  <2>8. Follows(seen[s], Append(told, r))  BY <2>1, <2>5, <2>7, FollowsAppend
  <2>9. Next(r)  BY DEF Next
  <2>10. \A i \in 1..Len(Append(told, r)) : Next(Append(told, r)[i])  BY <2>5, <2>6, <2>9
  <2>. QED  BY <2>3, <2>5, <2>6, <2>8, <2>10
<1>3. D \subseteq DOMAIN seen'  BY <1>0 DEF D, SubsInTurn
<1>4. subs' \in [DOMAIN subs' -> Seq(Nat)]
  <2>1. subs' = [s \in D |-> Append(subs[s], r)]  BY DEF D, Offered
  <2>2. \A s \in D : Append(subs[s], r) \in Seq(Nat)  BY <1>1, <1>2
  <2>. QED  BY <1>1, <2>1, <2>2
<1>. QED  BY <1>1, <1>2, <1>3, <1>4 DEF SubsInTurn, Behind

\* Some subscriptions end.
LEMMA FewerSubs ==
  ASSUME IInv, KeepsBehind, UNCHANGED seen, DOMAIN subs' \subseteq DOMAIN subs,
         \A s \in DOMAIN subs' : subs'[s] = subs[s]
  PROVE  SubsInTurn'
<1>1. \A s \in DOMAIN subs : seen[s] \in Nat /\ \A i \in 1..Len(subs[s]) : subs[s][i] \in Nat
  BY DEF IInv, UsageTypeOK, SubsInTurn
<1>. QED  BY <1>1 DEF IInv, SubsInTurn, KeepsBehind, Behind

LEMMA SubscribeFacts ==
  ASSUME IInv, KeepsBehind, NEW s, Subscribe(s)
  PROVE  /\ SubsInTurn'
         /\ subs' \in [DOMAIN subs' -> Seq(Nat)] /\ seen' \in [DOMAIN seen' -> Nat]
<1>0. /\ SubsInTurn /\ QueueInTurn /\ seen \in [DOMAIN seen -> Nat]
      /\ subs \in [DOMAIN subs -> Seq(Nat)] /\ worker.rec \in Nat /\ published \in Nat
      /\ queue \in Seq(Nat)
  BY DEF IInv, UsageTypeOK, Workers
<1>. DEFINE Next(x) == IsBehind(x, published', worker'.rec, queue')
<1>1. /\ s \notin DOMAIN seen
      /\ subs' = [x \in DOMAIN subs \cup {s} |-> IF x = s THEN <<0>> ELSE subs[x]]
      /\ seen' = [x \in DOMAIN seen \cup {s} |-> IF x = s THEN 0 ELSE seen[x]]
      /\ queue' = queue /\ worker' = worker /\ published' = published
  BY DEF Subscribe, managerVars
<1>2. Next(0)
  BY <1>0, <1>1 DEF QueueInTurn, IsBehind
<1>3. <<0>> \in Seq(Nat) /\ Len(<<0>>) = 1 /\ <<0>>[1] = 0  OBVIOUS
<1>4. Follows(0, <<0>>)  BY <1>3 DEF Follows
<1>5. subs' \in [DOMAIN subs' -> Seq(Nat)] /\ seen' \in [DOMAIN seen' -> Nat]
  BY <1>0, <1>1, <1>3
<1>6. DOMAIN subs' = DOMAIN subs \cup {s} /\ DOMAIN seen' = DOMAIN seen \cup {s}  BY <1>1
<1>7. ASSUME NEW x \in DOMAIN subs'
      PROVE  /\ Next(seen'[x]) /\ Follows(seen'[x], subs'[x])
             /\ \A i \in 1..Len(subs'[x]) : Next(subs'[x][i])
  <2>1. CASE x = s
    <3>1. seen'[x] = 0 /\ subs'[x] = <<0>>  BY <1>1, <1>6, <2>1
    <3>2. \A i \in 1..1 : <<0>>[i] = 0  OBVIOUS
    <3>. HIDE DEF Next
    <3>. QED  BY <1>2, <1>3, <1>4, <3>1, <3>2
  <2>2. CASE x # s
    <3>1. x \in DOMAIN subs /\ x \in DOMAIN seen  BY <1>0, <1>6, <2>2 DEF SubsInTurn
    <3>2. seen'[x] = seen[x] /\ subs'[x] = subs[x]  BY <1>1, <2>2, <3>1
    <3>. QED  BY <1>0, <1>1, <3>1, <3>2 DEF SubsInTurn, Behind
  <2>. QED  BY <2>1, <2>2
<1>8. DOMAIN subs' \subseteq DOMAIN seen'  BY <1>0, <1>6 DEF SubsInTurn
<1>. QED  BY <1>5, <1>7, <1>8 DEF SubsInTurn, Behind

LEMMA ReceiveFacts ==
  ASSUME IInv, KeepsBehind, NEW s, TakeUsage(s)
  PROVE  /\ SubsInTurn'
         /\ subs' \in [DOMAIN subs' -> Seq(Nat)] /\ seen' \in [DOMAIN seen' -> Nat]
<1>0. /\ SubsInTurn /\ seen \in [DOMAIN seen -> Nat] /\ subs \in [DOMAIN subs -> Seq(Nat)]
  BY DEF IInv, UsageTypeOK
<1>. DEFINE Next(x) == IsBehind(x, published', worker'.rec, queue')
            told == subs[s]
            rest == Tail(told)
            h    == Head(told)
            now  == IF h = 0 THEN seen[s] ELSE h
<1>1. /\ s \in DOMAIN subs /\ s \in DOMAIN seen /\ told # <<>> /\ told \in Seq(Nat)
      /\ subs' = [subs EXCEPT ![s] = rest]
      /\ seen' = [seen EXCEPT ![s] = now]
      /\ queue' = queue /\ worker' = worker /\ published' = published
  BY <1>0 DEF TakeUsage, managerVars, SubsInTurn
<1>2. /\ Next(seen[s]) /\ Follows(seen[s], told) /\ \A i \in 1..Len(told) : Next(told[i])
      /\ seen[s] \in Nat
  BY <1>0, <1>1 DEF SubsInTurn, Behind
<1>. HIDE DEF told, Next
<1>3. /\ rest \in Seq(Nat) /\ Len(told) = Len(rest) + 1 /\ Len(rest) \in Nat
      /\ h = told[1] /\ h \in Nat
      /\ \A i \in 1..Len(rest) : rest[i] = told[i + 1] /\ i + 1 \in 1..Len(told)
  BY <1>1
<1>. HIDE DEF rest, h
<1>4. now \in Nat /\ Next(now)
  <2>1. 1 \in 1..Len(told)  BY <1>3
  <2>. QED  BY <1>2, <1>3, <2>1
<1>5. Follows(now, rest)
  <2>1. ASSUME NEW i \in 1..Len(rest), rest[i] # 0 PROVE now < rest[i]
    <3>1. told[i + 1] = rest[i] /\ i + 1 \in 1..Len(told) /\ 1 \in 1..Len(told) /\ 1 < i + 1
      BY <1>3, <2>1
    <3>. QED  BY <1>2, <1>3, <2>1, <3>1 DEF Follows
  <2>2. ASSUME NEW i \in 1..Len(rest), NEW j \in 1..Len(rest), i < j, rest[j] # 0
        PROVE  rest[i] < rest[j]
    <3>1. i + 1 < j + 1  BY <1>3, <2>2
    <3>. QED  BY <1>2, <1>3, <2>2, <3>1 DEF Follows
  <2>. QED  BY <2>1, <2>2 DEF Follows
<1>6. \A i \in 1..Len(rest) : Next(rest[i])  BY <1>2, <1>3
<1>. HIDE DEF now
<1>7. subs' \in [DOMAIN subs' -> Seq(Nat)] /\ seen' \in [DOMAIN seen' -> Nat]
  BY <1>0, <1>1, <1>3, <1>4
<1>8. DOMAIN subs' = DOMAIN subs /\ DOMAIN seen' = DOMAIN seen  BY <1>1
<1>9. ASSUME NEW x \in DOMAIN subs
      PROVE  /\ Next(seen'[x]) /\ Follows(seen'[x], subs'[x])
             /\ \A i \in 1..Len(subs'[x]) : Next(subs'[x][i])
  <2>1. CASE x = s
    <3>1. seen'[x] = now /\ subs'[x] = rest  BY <1>1, <2>1
    <3>. QED  BY <1>4, <1>5, <1>6, <3>1
  <2>2. CASE x # s
    <3>1. x \in DOMAIN seen  BY <1>0 DEF SubsInTurn
    <3>2. seen'[x] = seen[x] /\ subs'[x] = subs[x]  BY <1>1, <2>2, <3>1
    <3>. QED  BY <1>0, <1>1, <3>1, <3>2 DEF SubsInTurn, Behind, Next
  <2>. QED  BY <2>1, <2>2
<1>. QED  BY <1>0, <1>7, <1>8, <1>9 DEF SubsInTurn, Behind, Next

-----------------------------------------------------------------------------
(* Where the records are.                                                    *)

LEMMA Apart ==
  ASSUME IInv
  PROVE  /\ ToSet(queue) \cap Held = {} /\ ToSet(queue) \cap RecordsOf(Kept) = {}
         /\ Held \cap RecordsOf(Kept) = {}
         /\ \A x \in ToSet(queue) : x # 0
<1>1. /\ queue \in Seq(Nat) /\ worker.rec \in Nat /\ QueueInTurn /\ KeptInTurn /\ Stored
  BY DEF IInv, UsageTypeOK, Workers
<1>2. \A x \in ToSet(queue) : \E j \in 1..Len(queue) : x = queue[j] /\ x \in Nat
  BY <1>1 DEF ToSet
<1>3. \A x \in RecordsOf(Kept) : \E i \in 1..Len(Kept) : x = Kept[i].rec /\ x \in Nat
  <2>1. Kept \in Seq(Item) /\ \A i \in 1..Len(Kept) : Kept[i].rec \in Nat  BY <1>1, KeptTypes
  <2>2. DOMAIN Kept = 1..Len(Kept)  BY <2>1
  <2>. QED  BY <2>1, <2>2 DEF RecordsOf
<1>4. \A j \in 1..Len(queue) : worker.rec < queue[j]  BY <1>1 DEF QueueInTurn
<1>5. \A i \in 1..Len(Kept) : Behind(Kept[i].rec)  BY <1>1 DEF KeptInTurn
<1>6. ToSet(queue) \cap Held = {} /\ \A x \in ToSet(queue) : x # 0
  BY <1>1, <1>2, <1>4 DEF Held
<1>7. ASSUME NEW x \in ToSet(queue), x \in RecordsOf(Kept) PROVE FALSE
  <2>1. PICK j \in 1..Len(queue) : x = queue[j] /\ x \in Nat  BY <1>2, <1>7
  <2>2. PICK i \in 1..Len(Kept) : x = Kept[i].rec  BY <1>3, <1>7
  <2>3. Behind(x)  BY <1>5, <2>2
  <2>. QED  BY <2>1, <2>3 DEF Behind, IsBehind
<1>8. ASSUME NEW x \in Held, x \in RecordsOf(Kept) PROVE FALSE
  <2>1. x = worker.rec /\ worker.rec # 0  BY <1>8 DEF Held
  <2>2. PICK i \in 1..Len(Kept) : x = Kept[i].rec  BY <1>3, <1>8
  <2>3. Behind(x)  BY <1>5, <2>2
  <2>. QED  BY <1>1, <2>1, <2>3 DEF Behind, IsBehind
<1>. QED  BY <1>6, <1>7, <1>8

LEMMA FirstApart ==
  ASSUME IInv, NEW k \in 0..Len(Kept)
  PROVE  /\ RecordsOf(Kept) = First(Kept, k) \cup RecordsOf(After(Kept, k))
         /\ First(Kept, k) \cap RecordsOf(After(Kept, k)) = {}
<1>1. Stored /\ KeptInTurn  BY DEF IInv
<1>2. Kept \in Seq(Item) /\ Len(Kept) \in Nat /\ \A i \in 1..Len(Kept) : Kept[i].rec \in Nat
  BY <1>1, KeptTypes
<1>3. /\ After(Kept, k) \in Seq(Item) /\ Len(After(Kept, k)) = Len(Kept) - k
      /\ \A i \in 1..(Len(Kept) - k) : After(Kept, k)[i] = Kept[k + i]
      /\ RecordsOf(Kept) = First(Kept, k) \cup RecordsOf(After(Kept, k))
  BY <1>2, AfterFacts
<1>4. ASSUME NEW x \in First(Kept, k), x \in RecordsOf(After(Kept, k)) PROVE FALSE
  <2>1. PICK i \in 1..k : x = Kept[i].rec  BY <1>4 DEF First
  <2>2. PICK j \in DOMAIN After(Kept, k) : x = After(Kept, k)[j].rec  BY <1>4 DEF RecordsOf
  <2>3. j \in 1..(Len(Kept) - k)  BY <1>3, <2>2
  <2>4. x = Kept[k + j].rec /\ i < k + j /\ i \in 1..Len(Kept) /\ k + j \in 1..Len(Kept)
    BY <1>2, <1>3, <2>1, <2>2, <2>3
  <2>5. Kept[i].rec < Kept[k + j].rec  BY <1>1, <2>4 DEF KeptInTurn
  <2>. QED  BY <1>2, <2>1, <2>4, <2>5
<1>. QED  BY <1>3, <1>4

\* Some records are done with; the others stay somewhere.
LEMMA AccountedMoved ==
  ASSUME IInv, NEW G, Present = Present' \cup G, G \cap Present' = {}, done' = done \cup G,
         published' = published
  PROVE  Accounted' /\ done' \subseteq Nat
<1>1. Present \cup done = 1..published /\ Present \cap done = {} /\ published \in Nat
  BY DEF IInv, Accounted, UsageTypeOK
<1>2. Present' \cup done' = 1..published' /\ Present' \cap done' = {}  BY <1>1
<1>3. done' \subseteq 1..published  BY <1>2
<1>. QED  BY <1>1, <1>2, <1>3 DEF Accounted

LEMMA AccountedSame ==
  ASSUME IInv, UNCHANGED <<queue, done, published>>, worker'.rec = worker.rec,
         RecordsOf(Kept)' = RecordsOf(Kept)
  PROVE  Accounted' /\ done' \subseteq Nat
<1>1. Present' = Present  BY DEF Present, Held
<1>2. Present = Present' \cup {} /\ done' = done \cup {} /\ {} \cap Present' = {}  BY <1>1
<1>. QED  BY <1>2, AccountedMoved

LEMMA AccountedPublish ==
  ASSUME IInv, Publish
  PROVE  Accounted' /\ done' \subseteq Nat
<1>1. Present \cup done = 1..published /\ Present \cap done = {} /\ published \in Nat
      /\ queue \in Seq(Nat)
  BY DEF IInv, Accounted, UsageTypeOK
<1>2. published' = published + 1 /\ queue' = Append(queue, published + 1) /\ worker' = worker
      /\ items' = items /\ head' = head /\ done' = done
  BY DEF Publish, storeVars
<1>3. ToSet(queue)' = ToSet(queue) \cup {published + 1}
  <2>. DEFINE n == Len(queue)
  <2>1. /\ DOMAIN queue' = 1..(n + 1) /\ queue'[n + 1] = published + 1 /\ n \in Nat
        /\ DOMAIN queue = 1..n /\ \A i \in 1..n : queue'[i] = queue[i]
    BY <1>1, <1>2
  <2>2. 1..(n + 1) = 1..n \cup {n + 1}  BY <2>1
  <2>. HIDE DEF n
  <2>. QED  BY <2>1, <2>2 DEF ToSet
<1>4. Present' = Present \cup {published + 1}
  BY <1>2, <1>3 DEF Present, Held, Kept
<1>5. 1..published' = 1..published \cup {published + 1} /\ published + 1 \notin 1..published
  BY <1>1, <1>2
<1>6. Present' \cup done' = 1..published' /\ Present' \cap done' = {}
  BY <1>1, <1>2, <1>4, <1>5
<1>. QED  BY <1>1, <1>2, <1>6 DEF Accounted

LEMMA AccountedTakes ==
  ASSUME IInv, Takes
  PROVE  Accounted' /\ done' \subseteq Nat
<1>0. queue \in Seq(Nat) /\ QueueInTurn  BY DEF IInv, UsageTypeOK
<1>1. /\ queue' = Tail(queue) /\ worker' = [at |-> "handle", rec |-> Head(queue)]
      /\ published' = published /\ queue # <<>> /\ worker.at = "check"
      /\ items' = items /\ head' = head /\ done' = done
  BY DEF Takes, Check, At, storeVars
<1>2. worker.rec = 0  BY <1>0, <1>1 DEF QueueInTurn, Busy
<1>3. /\ worker'.rec = queue[1] /\ queue[1] \in ToSet(queue) /\ queue[1] # 0
  <2>1. 1 \in DOMAIN queue  BY <1>0, <1>1
  <2>2. queue[1] \in ToSet(queue)  BY <2>1 DEF ToSet
  <2>. QED  BY <1>0, <1>1, <2>2, Apart
<1>4. ToSet(queue) = ToSet(queue)' \cup {queue[1]}
  <2>. DEFINE n == Len(queue')
  <2>1. /\ n \in Nat /\ DOMAIN queue = 1..(n + 1) /\ DOMAIN queue' = 1..n
        /\ \A i \in 1..n : queue'[i] = queue[i + 1]
    BY <1>0, <1>1
  <2>. HIDE DEF n
  <2>2. ASSUME NEW i \in 1..(n + 1) PROVE queue[i] \in ToSet(queue)' \cup {queue[1]}
    <3>1. CASE i = 1  BY <3>1
    <3>2. CASE i # 1
      <4>1. i - 1 \in 1..n /\ (i - 1) + 1 = i  BY <2>1, <3>2
      <4>2. queue'[i - 1] = queue[i]  BY <2>1, <4>1
      <4>. QED  BY <2>1, <4>1, <4>2 DEF ToSet
    <3>. QED  BY <3>1, <3>2
  <2>3. ASSUME NEW i \in 1..n PROVE queue'[i] \in ToSet(queue)
    <3>1. queue'[i] = queue[i + 1] /\ i + 1 \in DOMAIN queue  BY <2>1, <2>3
    <3>. QED  BY <3>1 DEF ToSet
  <2>4. ToSet(queue) \subseteq ToSet(queue)' \cup {queue[1]}
    <3>1. ToSet(queue) = {queue[i] : i \in 1..(n + 1)}  BY <2>1 DEF ToSet
    <3>. QED  BY <2>2, <3>1
  <2>5. ToSet(queue)' \subseteq ToSet(queue)
    <3>1. ToSet(queue)' = {queue'[i] : i \in 1..n}  BY <2>1 DEF ToSet
    <3>. QED  BY <2>3, <3>1
  <2>. QED  BY <1>3, <2>4, <2>5
<1>5. Held = {} /\ Held' = {queue[1]}  BY <1>2, <1>3 DEF Held
<1>6. RecordsOf(Kept)' = RecordsOf(Kept)  BY <1>1 DEF Kept
<1>7. Present' = Present  BY <1>4, <1>5, <1>6 DEF Present
<1>8. Present = Present' \cup {} /\ done' = done \cup {} /\ {} \cap Present' = {}
  BY <1>1, <1>7
<1>. QED  BY <1>1, <1>8, AccountedMoved

\* What the worker holds is done with.
LEMMA AccountedLets ==
  ASSUME IInv, Lets(worker.rec), UNCHANGED <<items, head>>, done' = done \cup {worker.rec}
  PROVE  Accounted' /\ done' \subseteq Nat
<1>1. worker.rec # 0 /\ worker'.rec = 0 /\ UNCHANGED <<queue, published>>
  BY DEF IInv, QueueInTurn, Lets, ManagerRest
<1>2. Held = {worker.rec} /\ Held' = {}  BY <1>1 DEF Held
<1>3. RecordsOf(Kept)' = RecordsOf(Kept)  BY DEF Kept
<1>4. Present = Present' \cup Held /\ Held \cap Present' = {}
  BY <1>1, <1>2, <1>3, Apart DEF Present
<1>. QED  BY <1>1, <1>2, <1>4, AccountedMoved

LEMMA AccountedEnqueue ==
  ASSUME IInv, Lets(worker.rec), NEW k \in 0..Len(Kept), done' = done \cup First(Kept, k),
         Kept' = Append(After(Kept, k), [rec |-> worker.rec, age |-> 0])
  PROVE  Accounted' /\ done' \subseteq Nat
<1>1. worker.rec # 0 /\ worker'.rec = 0 /\ UNCHANGED <<queue, published>> /\ worker.rec \in Nat
  BY DEF IInv, QueueInTurn, Lets, ManagerRest, UsageTypeOK, Workers
<1>2. Held = {worker.rec} /\ Held' = {}  BY <1>1 DEF Held
<1>. DEFINE rest == After(Kept, k)
            new  == [rec |-> worker.rec, age |-> 0]
            n    == Len(rest)
<1>3. rest \in Seq(Item) /\ new \in Item /\ new.rec = worker.rec
  <2>1. Kept \in Seq(Item)  BY KeptTypes DEF IInv
  <2>. QED  BY <1>1, <2>1, AfterFacts DEF Item
<1>4. Kept' = Append(rest, new)  OBVIOUS
<1>. HIDE DEF rest, new
<1>5. /\ DOMAIN Kept' = 1..(n + 1) /\ Kept'[n + 1] = new /\ n \in Nat
      /\ DOMAIN rest = 1..n /\ \A i \in 1..n : Kept'[i] = rest[i]
      /\ 1..(n + 1) = 1..n \cup {n + 1}
  BY <1>3, <1>4
<1>. HIDE DEF n
<1>6. RecordsOf(Kept') = RecordsOf(rest) \cup {worker.rec}
  BY <1>3, <1>5 DEF RecordsOf
<1>7. /\ RecordsOf(Kept) = First(Kept, k) \cup RecordsOf(rest)
      /\ First(Kept, k) \cap RecordsOf(rest) = {}
  BY FirstApart DEF rest
<1>8. RecordsOf(Kept)' = RecordsOf(Kept')  OBVIOUS
<1>9. Present = Present' \cup First(Kept, k) /\ First(Kept, k) \cap Present' = {}
  BY <1>1, <1>2, <1>6, <1>7, <1>8, Apart DEF Present
<1>. QED  BY <1>1, <1>9, AccountedMoved

LEMMA AccountedPop ==
  ASSUME IInv, UNCHANGED managerVars, NEW k \in 0..Len(Kept),
         done' = done \cup First(Kept, k), Kept' = After(Kept, k)
  PROVE  Accounted' /\ done' \subseteq Nat
<1>1. UNCHANGED <<queue, published, worker>>  BY DEF managerVars
<1>2. /\ RecordsOf(Kept) = First(Kept, k) \cup RecordsOf(Kept)'
      /\ First(Kept, k) \cap RecordsOf(Kept)' = {}
  BY FirstApart
<1>3. Present = Present' \cup First(Kept, k) /\ First(Kept, k) \cap Present' = {}
  BY <1>1, <1>2, Apart DEF Present, Held
<1>. QED  BY <1>1, <1>3, AccountedMoved

LEMMA AccountedClear ==
  ASSUME IInv, UNCHANGED managerVars, items' = <<>>, head' = 0,
         done' = done \cup RecordsOf(Kept)
  PROVE  Accounted' /\ done' \subseteq Nat
<1>1. UNCHANGED <<queue, published, worker>>  BY DEF managerVars
<1>2. RecordsOf(Kept)' = {}
  <2>1. Kept' = <<>>  BY SubSeqEmpty DEF Kept
  <2>. QED  BY <2>1 DEF RecordsOf
<1>3. Present = Present' \cup RecordsOf(Kept) /\ RecordsOf(Kept) \cap Present' = {}
  BY <1>1, <1>2, Apart DEF Present, Held
<1>. QED  BY <1>1, <1>3, AccountedMoved

-----------------------------------------------------------------------------
(* Every step keeps the invariant.                                           *)

\* A step that touches neither the kept records nor the subscriptions.
LEMMA ManagerOnly ==
  ASSUME IInv, Publish \/ Signal \/ Stop \/ Broadcast \/ Check
  PROVE  IInv'
<1>1. UNCHANGED storeVars /\ UNCHANGED <<items, head, last, subs, seen, done>>
  BY DEF Publish, Signal, Stop, Broadcast, WakeUp, Check, storeVars
<1>2. /\ queue' \in Seq(Nat) /\ closed' \in BOOLEAN /\ published' \in Nat
      /\ calls' \subseteq {"Signal", "Broadcast"} /\ worker' \in Workers
  <2>1. CASE Holds
    <3>1. worker.at = "waiting" \/ worker.at \in Busy \/ worker.at = "check" \/ worker.at = "ended"
      BY DEF IInv, UsageTypeOK, Workers
    <3>2. worker' \in Workers
      BY <2>1 DEF IInv, UsageTypeOK, Publish, Signal, Stop, Broadcast, WakeUp, Check, At, Holds,
        Busy, Workers
    <3>. QED  BY <3>2, ManagerTypes
  <2>. QED  BY <2>1, ManagerTypes
<1>3. QueueInTurn' /\ KeepsBehind /\ Awake'  BY QueueSteps
<1>4. Stored' /\ KeptInTurn' /\ Kept' = Kept  BY <1>1, <1>3, KeptUnchanged
<1>5. SubsInTurn'  BY <1>1, <1>3, SubsUnchanged
<1>6. Accounted'
  <2>1. CASE Publish  BY <2>1, AccountedPublish
  <2>2. CASE Takes  BY <2>2, AccountedTakes
  <2>3. CASE ~Publish /\ ~Takes
    <3>1. UNCHANGED <<queue, published>> /\ worker'.rec = worker.rec
      <4>1. CASE Signal \/ Broadcast \/ Stop
        BY <4>1 DEF Signal, Broadcast, Stop, WakeUp, At, IInv, QueueInTurn, Busy
      <4>2. CASE Rests  BY <4>2 DEF Rests, Check, At, IInv, QueueInTurn, Busy
      <4>. QED  BY <2>3, <4>1, <4>2 DEF Takes, Rests
    <3>2. RecordsOf(Kept)' = RecordsOf(Kept)  BY <1>4
    <3>. QED  BY <1>1, <3>1, <3>2, AccountedSame
  <2>. QED  BY <2>1, <2>2, <2>3
<1>7. UsageTypeOK'  BY <1>1, <1>2 DEF IInv, UsageTypeOK, storeVars
<1>. QED  BY <1>3, <1>4, <1>5, <1>6, <1>7 DEF IInv

\* A step of the worker in the plugin.
LEMMA PluginSteps ==
  ASSUME UsageAssumption, IInv, Handle \/ PublishToSubscribers \/ Enqueue
  PROVE  IInv'
<1>0. worker \in Workers /\ worker.rec \in Nat /\ worker.at \in Busy /\ worker.rec # 0
  BY DEF IInv, UsageTypeOK, Workers, Handle, PublishToSubscribers, Enqueue, Busy, QueueInTurn
<1>00. Stored /\ QueueInTurn /\ UsageTypeOK  BY DEF IInv
<1>1. ManagerRest /\ UNCHANGED <<enabled, clearing, seen, last>>
  BY DEF Handle, PublishToSubscribers, Enqueue
<1>2. Holds \/ Lets(worker.rec)
  BY <1>0 DEF Handle, PublishToSubscribers, Enqueue, At, Holds, Lets, ManagerRest, Busy
<1>3. /\ queue' \in Seq(Nat) /\ closed' \in BOOLEAN /\ published' \in Nat
      /\ calls' \subseteq {"Signal", "Broadcast"} /\ worker' \in Workers
  <2>1. worker' \in Workers
    BY <1>0 DEF Handle, PublishToSubscribers, Enqueue, At, Workers, Busy
  <2>. QED  BY <1>2, <2>1, ManagerTypes
<1>4. QueueInTurn' /\ KeepsBehind /\ Awake'  BY <1>2, QueueSteps
<1>5. CASE Handle /\ Holds
  <2>1. UNCHANGED <<items, head, subs>> /\ done' = done
    BY <1>0, <1>5 DEF Handle, Holds, At, Busy
  <2>2. Stored' /\ KeptInTurn' /\ Kept' = Kept  BY <1>1, <1>4, <2>1, KeptUnchanged
  <2>3. SubsInTurn'  BY <1>1, <1>4, <2>1, SubsUnchanged
  <2>4. RecordsOf(Kept)' = RecordsOf(Kept) /\ UNCHANGED <<queue, done, published>>
        /\ worker'.rec = worker.rec
    BY <1>1, <1>5, <2>1, <2>2 DEF ManagerRest, Holds
  <2>5. Accounted'  BY <2>4, AccountedSame
  <2>6. UsageTypeOK'  BY <1>00, <1>1, <1>3, <2>1 DEF UsageTypeOK
  <2>. QED  BY <1>4, <2>2, <2>3, <2>5, <2>6 DEF IInv
<1>6. CASE Handle /\ Lets(worker.rec)
  <2>1. UNCHANGED <<items, head, subs>> /\ done' = done \cup {worker.rec}
    BY <1>0, <1>6 DEF Handle, Lets, At
  <2>2. Stored' /\ KeptInTurn'  BY <1>1, <1>4, <2>1, KeptUnchanged
  <2>3. SubsInTurn'  BY <1>1, <1>4, <2>1, SubsUnchanged
  <2>4. Accounted' /\ done' \subseteq Nat  BY <1>6, <2>1, AccountedLets
  <2>5. UsageTypeOK'  BY <1>00, <1>1, <1>3, <2>1, <2>4 DEF UsageTypeOK
  <2>. QED  BY <1>4, <2>2, <2>3, <2>4, <2>5 DEF IInv
<1>7. CASE PublishToSubscribers /\ DOMAIN subs = {}
  <2>1. UNCHANGED <<items, head, subs>> /\ done' = done /\ worker'.rec = worker.rec
    BY <1>7 DEF PublishToSubscribers, At
  <2>2. Stored' /\ KeptInTurn' /\ Kept' = Kept  BY <1>1, <1>4, <2>1, KeptUnchanged
  <2>3. SubsInTurn'  BY <1>1, <1>4, <2>1, SubsUnchanged
  <2>4. RecordsOf(Kept)' = RecordsOf(Kept) /\ UNCHANGED <<queue, done, published>>
    BY <1>1, <2>1, <2>2 DEF ManagerRest
  <2>5. Accounted'  BY <2>1, <2>4, AccountedSame
  <2>6. UsageTypeOK'  BY <1>00, <1>1, <1>3, <2>1 DEF UsageTypeOK
  <2>. QED  BY <1>4, <2>2, <2>3, <2>5, <2>6 DEF IInv
<1>8. CASE PublishToSubscribers /\ DOMAIN subs # {}
  <2>1. /\ UNCHANGED <<items, head>> /\ done' = done \cup {worker.rec}
        /\ subs' = Offered(worker.rec) /\ worker' = [at |-> "check", rec |-> 0]
    BY <1>8 DEF PublishToSubscribers, At
  <2>2. Lets(worker.rec)  BY <1>0, <1>1, <2>1 DEF Lets
  <2>3. Stored' /\ KeptInTurn'  BY <1>1, <1>4, <2>1, KeptUnchanged
  <2>4. Accounted' /\ done' \subseteq Nat  BY <2>1, <2>2, AccountedLets
  <2>5. IsBehind(worker.rec, published', worker'.rec, queue')
    BY <1>00, <1>1, <2>1 DEF QueueInTurn, IsBehind, ManagerRest
  <2>6. SubsInTurn' /\ subs' \in [DOMAIN subs' -> Seq(Nat)]
    BY <1>0, <1>1, <1>4, <2>1, <2>5, OfferedFacts
  <2>7. UsageTypeOK'  BY <1>00, <1>1, <1>3, <2>4, <2>6 DEF UsageTypeOK
  <2>. QED  BY <1>4, <2>3, <2>4, <2>6, <2>7 DEF IInv
<1>9. CASE Enqueue
  <2>1. UNCHANGED subs /\ worker' = [at |-> "check", rec |-> 0]  BY <1>9 DEF Enqueue, At
  <2>2. Lets(worker.rec)  BY <1>0, <1>1, <2>1 DEF Lets
  <2>3. items' \in Seq(Item) /\ head' \in 0..Len(items')  BY <1>0, <1>00, <1>9, EnqueueFacts
  <2>4. PICK k \in 0..Len(Kept) :
          /\ Kept' = Append(After(Kept, k), [rec |-> worker.rec, age |-> 0])
          /\ done' = done \cup First(Kept, k)
    BY <1>0, <1>00, <1>9, EnqueueFacts
  <2>5. last' = last /\ worker'.rec = 0 /\ UNCHANGED <<queue, published>>
    BY <1>1, <2>1 DEF ManagerRest
  <2>6. Stored' /\ KeptInTurn'  BY <1>0, <1>4, <2>3, <2>4, <2>5, KeptGrown
  <2>7. SubsInTurn'  BY <1>1, <1>4, <2>1, SubsUnchanged
  <2>8. Accounted' /\ done' \subseteq Nat  BY <2>2, <2>4, AccountedEnqueue
  <2>9. UsageTypeOK'  BY <1>00, <1>1, <1>3, <2>1, <2>8 DEF UsageTypeOK
  <2>. QED  BY <1>4, <2>6, <2>7, <2>8, <2>9 DEF IInv
<1>10. Enqueue \/ (Handle /\ Holds) \/ (Handle /\ Lets(worker.rec)) \/ PublishToSubscribers
  BY <1>2
<1>. QED  BY <1>5, <1>6, <1>7, <1>8, <1>9, <1>10

\* A step outside the worker that leaves the manager alone.
LEMMA OtherSteps ==
  ASSUME UsageAssumption, IInv,
         \/ \E n \in 1..2 : PopOldest(n)
         \/ \E s \in Subscribers : Subscribe(s) \/ Unsubscribe(s) \/ TakeUsage(s)
         \/ NotifyUsageRefresh
         \/ \E value \in BOOLEAN : SetEnabled(value)
         \/ Clear
         \/ RecordsAge
  PROVE  IInv'
<1>0. UNCHANGED managerVars /\ UNCHANGED <<queue, closed, calls, worker, published>>
  BY DEF PopOldest, Subscribe, Unsubscribe, TakeUsage, NotifyUsageRefresh, SetEnabled, Clear, RecordsAge,
    managerVars
<1>00. Stored /\ QueueInTurn /\ UsageTypeOK  BY DEF IInv
<1>1. QueueInTurn' /\ KeepsBehind /\ Awake'  BY <1>0, QueueSteps DEF Leaves
<1>2. ASSUME NEW n \in 1..2, PopOldest(n) PROVE IInv'
  <2>0. n \in Nat  OBVIOUS
  <2>1. UNCHANGED <<enabled, clearing, subs, seen>>  BY <1>2 DEF PopOldest
  <2>2. items' \in Seq(Item) /\ head' \in 0..Len(items')  BY <1>00, <1>2, <2>0, PopFacts
  <2>3. PICK k \in 0..Len(Kept) :
          /\ Kept' = After(Kept, k)
          /\ done' = done \cup First(Kept, k)
          /\ last' = last \/ (k > 0 /\ last' = Kept[k].rec)
    BY <1>00, <1>2, <2>0, PopFacts
  <2>4. Stored' /\ KeptInTurn' /\ last' \in Nat  BY <1>1, <2>2, <2>3, KeptShortened
  <2>5. SubsInTurn'  BY <1>1, <2>1, SubsUnchanged
  <2>6. Accounted' /\ done' \subseteq Nat  BY <1>0, <2>3, AccountedPop
  <2>7. UsageTypeOK'  BY <1>0, <1>00, <2>1, <2>4, <2>6 DEF UsageTypeOK
  <2>. QED  BY <1>1, <2>4, <2>5, <2>6, <2>7 DEF IInv
<1>3. ASSUME UNCHANGED <<items, head, last, done>>, SubsInTurn',
             subs' \in [DOMAIN subs' -> Seq(Nat)], seen' \in [DOMAIN seen' -> Nat],
             enabled' \in BOOLEAN, clearing' \in BOOLEAN
      PROVE  IInv'
  <2>1. Stored' /\ KeptInTurn' /\ Kept' = Kept  BY <1>1, <1>3, KeptUnchanged
  <2>2. RecordsOf(Kept)' = RecordsOf(Kept) /\ worker'.rec = worker.rec  BY <1>0, <2>1
  <2>3. Accounted'  BY <1>0, <1>3, <2>2, AccountedSame
  <2>4. UsageTypeOK'  BY <1>0, <1>00, <1>3 DEF UsageTypeOK
  <2>. QED  BY <1>1, <1>3, <2>1, <2>3, <2>4 DEF IInv
<1>4. ASSUME NEW s \in Subscribers, Subscribe(s) PROVE IInv'
  <2>1. UNCHANGED <<items, head, last, done, enabled, clearing>>  BY <1>4 DEF Subscribe
  <2>2. /\ SubsInTurn' /\ subs' \in [DOMAIN subs' -> Seq(Nat)]
        /\ seen' \in [DOMAIN seen' -> Nat]
    BY <1>1, <1>4, SubscribeFacts
  <2>. QED  BY <1>00, <1>3, <2>1, <2>2 DEF UsageTypeOK
<1>5. ASSUME NEW s \in Subscribers, Unsubscribe(s) PROVE IInv'
  <2>1. UNCHANGED <<items, head, last, done, enabled, clearing, seen>>  BY <1>5 DEF Unsubscribe
  <2>2. subs' = [x \in DOMAIN subs \ {s} |-> subs[x]]  BY <1>5 DEF Unsubscribe, LeftOut
  <2>3. DOMAIN subs' \subseteq DOMAIN subs /\ \A x \in DOMAIN subs' : subs'[x] = subs[x]
    BY <2>2
  <2>4. subs' \in [DOMAIN subs' -> Seq(Nat)]  BY <1>00, <2>2 DEF UsageTypeOK
  <2>5. SubsInTurn'  BY <1>1, <2>1, <2>3, FewerSubs
  <2>. QED  BY <1>00, <1>3, <2>1, <2>4, <2>5 DEF UsageTypeOK
<1>6. ASSUME NEW s \in Subscribers, TakeUsage(s) PROVE IInv'
  <2>1. UNCHANGED <<items, head, last, done, enabled, clearing>>  BY <1>6 DEF TakeUsage
  <2>2. /\ SubsInTurn' /\ subs' \in [DOMAIN subs' -> Seq(Nat)]
        /\ seen' \in [DOMAIN seen' -> Nat]
    BY <1>1, <1>6, ReceiveFacts
  <2>. QED  BY <1>00, <1>3, <2>1, <2>2 DEF UsageTypeOK
<1>7. CASE NotifyUsageRefresh
  <2>1. UNCHANGED <<items, head, last, done, enabled, clearing, seen>> /\ subs' = Offered(0)
    BY <1>7 DEF NotifyUsageRefresh
  <2>2. IsBehind(0, published', worker'.rec, queue')
    BY <1>0, <1>00 DEF UsageTypeOK, Workers, QueueInTurn, IsBehind
  <2>3. SubsInTurn' /\ subs' \in [DOMAIN subs' -> Seq(Nat)]  BY <1>1, <2>1, <2>2, OfferedFacts
  <2>. QED  BY <1>00, <1>3, <2>1, <2>3 DEF UsageTypeOK
<1>8. ASSUME NEW value \in BOOLEAN, SetEnabled(value) PROVE IInv'
  <2>1. /\ UNCHANGED <<items, head, last, done, subs, seen>>
        /\ enabled' \in BOOLEAN /\ clearing' \in BOOLEAN
    BY <1>8 DEF SetEnabled
  <2>2. SubsInTurn'  BY <1>1, <2>1, SubsUnchanged
  <2>. QED  BY <1>00, <1>3, <2>1, <2>2 DEF UsageTypeOK
<1>9. CASE Clear
  <2>1. /\ clearing' \in BOOLEAN /\ done' = done \cup RecordsOf(Kept)
        /\ items' = <<>> /\ head' = 0 /\ subs' = Nobody /\ UNCHANGED <<enabled, seen, last>>
    BY <1>9 DEF Clear
  <2>2. Stored' /\ Len(Kept') = 0
    <3>1. Good([items |-> items', head |-> head'])  BY <2>1 DEF Good
    <3>2. Kept' = <<>>  BY <2>1, SubSeqEmpty DEF Kept
    <3>. QED  BY <3>1, <3>2 DEF Stored
  <2>3. KeptInTurn'
    BY <1>00, <1>1, <2>1, <2>2 DEF IInv, UsageTypeOK, KeptInTurn, KeepsBehind, Behind
  <2>4. DOMAIN subs' = {} /\ subs' \in [DOMAIN subs' -> Seq(Nat)]  BY <2>1 DEF Nobody
  <2>5. SubsInTurn'  BY <1>1, <2>1, <2>4, FewerSubs
  <2>6. Accounted' /\ done' \subseteq Nat  BY <1>0, <2>1, AccountedClear
  <2>7. UsageTypeOK'  BY <1>0, <1>00, <2>1, <2>4, <2>6 DEF UsageTypeOK
  <2>. QED  BY <1>1, <2>2, <2>3, <2>5, <2>6, <2>7 DEF IInv
<1>10. CASE RecordsAge
  <2>1. UNCHANGED <<enabled, clearing, subs, seen, last, done>>  BY <1>10 DEF RecordsAge
  <2>2. Stored' /\ KeptInTurn' /\ RecordsOf(Kept)' = RecordsOf(Kept)  BY <1>10, TickFacts
  <2>3. SubsInTurn'  BY <1>1, <2>1, SubsUnchanged
  <2>4. worker'.rec = worker.rec  BY <1>0
  <2>5. Accounted'  BY <1>0, <2>1, <2>2, <2>4, AccountedSame
  <2>6. UsageTypeOK'  BY <1>0, <1>00, <2>1 DEF UsageTypeOK
  <2>. QED  BY <1>1, <2>2, <2>3, <2>5, <2>6 DEF IInv
<1>. QED  BY <1>2, <1>4, <1>5, <1>6, <1>7, <1>8, <1>9, <1>10

LEMMA Stutters == IInv /\ UNCHANGED usageVars => IInv'
<1>. SUFFICES ASSUME IInv, UNCHANGED usageVars PROVE IInv'  OBVIOUS
<1>1. /\ queue' = queue /\ closed' = closed /\ calls' = calls /\ worker' = worker
      /\ published' = published /\ enabled' = enabled /\ clearing' = clearing /\ items' = items
      /\ head' = head /\ subs' = subs /\ seen' = seen /\ last' = last /\ done' = done
  BY DEF usageVars, managerVars, storeVars
<1>2. Kept' = Kept  BY <1>1 DEF Kept
<1>3. UsageTypeOK' /\ Stored'  BY <1>1, <1>2 DEF IInv, UsageTypeOK, Stored
<1>4. QueueInTurn' /\ Awake'  BY <1>1 DEF IInv, QueueInTurn, Awake
<1>5. KeptInTurn' /\ SubsInTurn'  BY <1>1, <1>2 DEF IInv, KeptInTurn, SubsInTurn, Behind
<1>6. Accounted'  BY <1>1, <1>2 DEF IInv, Accounted, Present, Held
<1>. QED  BY <1>3, <1>4, <1>5, <1>6 DEF IInv

THEOREM InvariantHolds == ASSUME UsageAssumption PROVE UsageSpec => []IInv
<1>1. IInv /\ [UsageNext]_usageVars => IInv'
  <2>. SUFFICES ASSUME IInv, [UsageNext]_usageVars PROVE IInv'  OBVIOUS
  <2>1. CASE UNCHANGED usageVars  BY <2>1, Stutters
  <2>2. CASE UsageNext
    BY <2>2, ManagerOnly, PluginSteps, OtherSteps DEF UsageNext, Worker
  <2>. QED  BY <2>1, <2>2
<1>. QED  BY <1>1, Initially, PTL DEF UsageSpec

-----------------------------------------------------------------------------
\* Every accepted record is in exactly one place, however pops, pruning, compaction,
\* subscriptions and the switch interleave: what leaves one place arrives in the next
\* within the same critical section, and nothing is left behind twice.
THEOREM NothingLostOrDoubled == ASSUME UsageAssumption PROVE UsageSpec => []AccountedFor
<1>1. IInv => AccountedFor
  <2>. SUFFICES ASSUME IInv PROVE AccountedFor  OBVIOUS
  <2>. DEFINE places == << ToSet(queue), IF worker.rec = 0 THEN {} ELSE {worker.rec},
                           RecordsOf(Kept), done >>
  <2>1. /\ ToSet(queue) \cup Held \cup RecordsOf(Kept) \cup done = 1..published
        /\ (ToSet(queue) \cup Held \cup RecordsOf(Kept)) \cap done = {}
    BY DEF IInv, Accounted, Present
  <2>2. /\ DOMAIN places = 1..4 /\ places[1] = ToSet(queue) /\ places[2] = Held
        /\ places[3] = RecordsOf(Kept) /\ places[4] = done
    BY DEF Held
  <2>. HIDE DEF places
  <2>3. ToSet(places) = {ToSet(queue), Held, RecordsOf(Kept), done}
    <3>1. ToSet(places) = {places[i] : i \in 1..4}  BY <2>2 DEF ToSet
    <3>2. 1..4 = {1, 2, 3, 4}  OBVIOUS
    <3>. QED  BY <2>2, <3>1, <3>2
  <2>4. UNION ToSet(places) = 1..published  BY <2>1, <2>3
  <2>5. ASSUME NEW i \in DOMAIN places, NEW j \in DOMAIN places, i # j
        PROVE  places[i] \cap places[j] = {}
    <3>1. i \in {1, 2, 3, 4} /\ j \in {1, 2, 3, 4}  BY <2>2
    <3>2. /\ places[1] \cap places[2] = {} /\ places[1] \cap places[3] = {}
          /\ places[1] \cap places[4] = {} /\ places[2] \cap places[3] = {}
          /\ places[2] \cap places[4] = {} /\ places[3] \cap places[4] = {}
      BY <2>1, <2>2, Apart
    <3>. QED  BY <2>5, <3>1, <3>2
  <2>. QED  BY <2>4, <2>5 DEF AccountedFor, places
<1>. QED  BY <1>1, InvariantHolds, PTL

-----------------------------------------------------------------------------
(* Order.                                                                    *)

\* No record of the one is after one of the other.
Before(a, b) == \A i \in 1..Len(a), j \in 1..Len(b) : b[j] # 0 => a[i] < b[j]

LEMMA Joined ==
  ASSUME NEW a \in Seq(Nat), NEW b \in Seq(Nat)
  PROVE  /\ a \o b \in Seq(Nat) /\ Len(a \o b) = Len(a) + Len(b)
         /\ Len(a) \in Nat /\ Len(b) \in Nat
         /\ \A i \in 1..Len(a) : (a \o b)[i] = a[i]
         /\ \A i \in 1..Len(b) : (a \o b)[Len(a) + i] = b[i]
         /\ \A i \in 1..Len(a \o b) : i \in 1..Len(a) \/ i - Len(a) \in 1..Len(b)
  OBVIOUS

LEMMA JoinedIncreasing ==
  ASSUME NEW a \in Seq(Nat), NEW b \in Seq(Nat), Increasing(a), Increasing(b), Before(a, b)
  PROVE  Increasing(a \o b)
<1>. DEFINE c == a \o b
<1>1. /\ c \in Seq(Nat) /\ Len(c) = Len(a) + Len(b) /\ Len(a) \in Nat /\ Len(b) \in Nat
      /\ \A i \in 1..Len(a) : c[i] = a[i]
      /\ \A i \in 1..Len(b) : c[Len(a) + i] = b[i]
  BY Joined
<1>. HIDE DEF c
<1>2. DOMAIN c = 1..Len(c) /\ DOMAIN a = 1..Len(a) /\ DOMAIN b = 1..Len(b)  BY <1>1
<1>3. ASSUME NEW i \in 1..Len(c), NEW j \in 1..Len(c), i < j, c[j] # 0
      PROVE  c[i] < c[j]
  <2>1. CASE j \in 1..Len(a)
    <3>1. i \in 1..Len(a)  BY <1>1, <1>3, <2>1
    <3>. QED  BY <1>1, <1>2, <1>3, <2>1, <3>1 DEF Increasing
  <2>2. CASE j \notin 1..Len(a)
    <3>. DEFINE k == j - Len(a)
    <3>1. k \in 1..Len(b) /\ j = Len(a) + k  BY <1>1, <1>3, <2>2
    <3>2. c[j] = b[k]  BY <1>1, <3>1
    <3>. HIDE DEF k
    <3>3. CASE i \in 1..Len(a)
      BY <1>1, <1>3, <3>1, <3>2, <3>3 DEF Before
    <3>4. CASE i \notin 1..Len(a)
      <4>. DEFINE h == i - Len(a)
      <4>1. h \in 1..Len(b) /\ i = Len(a) + h  BY <1>1, <1>3, <3>4
      <4>2. c[i] = b[h]  BY <1>1, <4>1
      <4>. HIDE DEF h
      <4>3. h < k  BY <1>1, <1>3, <3>1, <4>1
      <4>. QED  BY <1>2, <1>3, <3>1, <3>2, <4>1, <4>2, <4>3 DEF Increasing
    <3>. QED  BY <3>3, <3>4
  <2>. QED  BY <2>1, <2>2
<1>4. Increasing(c)  BY <1>2, <1>3 DEF Increasing
<1>. QED  BY <1>4 DEF c

LEMMA JoinedBefore ==
  ASSUME NEW a \in Seq(Nat), NEW b \in Seq(Nat), NEW c \in Seq(Nat), Before(a, c), Before(b, c)
  PROVE  Before(a \o b, c)
<1>. DEFINE d == a \o b
<1>1. /\ Len(a) \in Nat /\ Len(b) \in Nat
      /\ \A i \in 1..Len(a) : d[i] = a[i]
      /\ \A i \in 1..Len(b) : d[Len(a) + i] = b[i]
      /\ \A i \in 1..Len(d) : i \in 1..Len(a) \/ i - Len(a) \in 1..Len(b)
      /\ Len(d) \in Nat
  BY Joined
<1>. HIDE DEF d
<1>2. ASSUME NEW i \in 1..Len(d), NEW j \in 1..Len(c), c[j] # 0
      PROVE  d[i] < c[j]
  <2>1. CASE i \in 1..Len(a)  BY <1>1, <1>2, <2>1 DEF Before
  <2>2. CASE i - Len(a) \in 1..Len(b)
    <3>1. d[i] = b[i - Len(a)]
      <4>1. d[Len(a) + (i - Len(a))] = b[i - Len(a)]  BY <1>1, <2>2
      <4>2. Len(a) + (i - Len(a)) = i  BY <1>1
      <4>. QED  BY <4>1, <4>2
    <3>. QED  BY <1>2, <2>2, <3>1 DEF Before
  <2>. QED  BY <1>1, <2>1, <2>2
<1>3. Before(d, c)  BY <1>2 DEF Before
<1>. QED  BY <1>3 DEF d

LEMMA OneIncreasing ==
  ASSUME NEW x \in Nat
  PROVE  <<x>> \in Seq(Nat) /\ Len(<<x>>) = 1 /\ <<x>>[1] = x /\ Increasing(<<x>>)
<1>1. <<x>> \in Seq(Nat) /\ Len(<<x>>) = 1 /\ <<x>>[1] = x /\ DOMAIN <<x>> = 1..1  OBVIOUS
<1>. QED  BY <1>1 DEF Increasing

LEMMA BeforeOne ==
  ASSUME NEW a \in Seq(Nat), NEW x \in Nat, x # 0 => \A i \in 1..Len(a) : a[i] < x
  PROVE  Before(a, <<x>>)
<1>1. Len(<<x>>) = 1 /\ <<x>>[1] = x  OBVIOUS
<1>. HIDE DEF Before
<1>2. ASSUME NEW i \in 1..Len(a), NEW j \in 1..1, x # 0 PROVE a[i] < x  BY <1>2
<1>3. \A j \in 1..1 : <<x>>[j] = x  BY <1>1
<1>. QED  BY <1>1, <1>2, <1>3 DEF Before

LEMMA OneBefore ==
  ASSUME NEW x \in Nat, NEW b \in Seq(Nat), \A j \in 1..Len(b) : b[j] # 0 => x < b[j]
  PROVE  Before(<<x>>, b)
<1>1. Len(<<x>>) = 1 /\ \A j \in 1..1 : <<x>>[j] = x  OBVIOUS
<1>. QED  BY <1>1 DEF Before

\* Whoever consumes sees records in the order they were published: what was popped and
\* what is kept, what the worker holds and what is queued follow each other, and so do
\* the records each subscriber took and will take.
THEOREM ConsumersSeeOrder == ASSUME UsageAssumption PROVE UsageSpec => []OrderKept
<1>1. IInv => OrderKept
  <2>. SUFFICES ASSUME IInv PROVE OrderKept  OBVIOUS
  <2>. DEFINE old == <<last>>
              rs  == [i \in DOMAIN Kept |-> Kept[i].rec]
              now == <<worker.rec>>
  <2>1. /\ last \in Nat /\ worker.rec \in Nat /\ queue \in Seq(Nat) /\ Stored
        /\ QueueInTurn /\ KeptInTurn /\ SubsInTurn
        /\ subs \in [DOMAIN subs -> Seq(Nat)] /\ seen \in [DOMAIN seen -> Nat]
    BY DEF IInv, UsageTypeOK, Workers
  <2>2. /\ Kept \in Seq(Item) /\ Len(Kept) \in Nat /\ DOMAIN Kept = 1..Len(Kept)
        /\ \A i \in 1..Len(Kept) : Kept[i].rec \in Nat
    <3>1. Kept \in Seq(Item) /\ Len(Kept) \in Nat /\ \A i \in 1..Len(Kept) : Kept[i].rec \in Nat
      BY <2>1, KeptTypes
    <3>. QED  BY <3>1
  <2>3. /\ rs \in Seq(Nat) /\ Len(rs) = Len(Kept) /\ DOMAIN rs = 1..Len(rs)
        /\ \A i \in 1..Len(rs) : rs[i] = Kept[i].rec
    BY <2>2
  <2>4. /\ old \in Seq(Nat) /\ Len(old) = 1 /\ old[1] = last /\ Increasing(old)
        /\ now \in Seq(Nat) /\ Len(now) = 1 /\ now[1] = worker.rec /\ Increasing(now)
    BY <2>1, OneIncreasing
  <2>. HIDE DEF rs
  <2>5. Increasing(rs) /\ Increasing(queue)
    <3>1. DOMAIN queue = 1..Len(queue)  BY <2>1
    <3>. QED  BY <2>1, <2>3, <3>1 DEF Increasing, KeptInTurn, QueueInTurn
  <2>6. Before(old, rs)
    <3>1. \A j \in 1..Len(rs) : rs[j] # 0 => last < rs[j]  BY <2>1, <2>3 DEF KeptInTurn
    <3>. QED  BY <2>1, <2>3, <3>1, OneBefore
  <2>7. Before(old, now) /\ Before(rs, now)
    <3>1. worker.rec # 0 => last < worker.rec  BY <2>1 DEF KeptInTurn, Behind, IsBehind
    <3>2. worker.rec # 0 => \A i \in 1..Len(rs) : rs[i] < worker.rec
      BY <2>1, <2>3 DEF KeptInTurn, Behind, IsBehind
    <3>3. worker.rec # 0 => \A i \in 1..Len(old) : old[i] < worker.rec
      <4>1. \A i \in 1..Len(old) : old[i] = last  BY <2>4
      <4>. QED  BY <3>1, <4>1
    <3>. QED  BY <2>1, <2>3, <2>4, <3>2, <3>3, BeforeOne
  <2>8. Before(old, queue) /\ Before(rs, queue) /\ Before(now, queue)
    <3>1. \A j \in 1..Len(queue) : last < queue[j] /\ worker.rec < queue[j]
      BY <2>1 DEF KeptInTurn, QueueInTurn, Behind, IsBehind
    <3>2. \A i \in 1..Len(rs), j \in 1..Len(queue) : rs[i] < queue[j]
      BY <2>1, <2>3 DEF KeptInTurn, Behind, IsBehind
    <3>3. Before(rs, queue)  BY <3>2 DEF Before
    <3>. HIDE DEF old, now
    <3>4. Before(<<last>>, queue) /\ Before(<<worker.rec>>, queue)  BY <2>1, <3>1, OneBefore
    <3>. QED  BY <3>3, <3>4 DEF old, now
  <2>. HIDE DEF old, now
  <2>9. old \o rs \in Seq(Nat) /\ Increasing(old \o rs)
    BY <2>3, <2>4, <2>5, <2>6, Joined, JoinedIncreasing
  <2>10. Before(old \o rs, now) /\ Before(old \o rs, queue)
    BY <2>1, <2>3, <2>4, <2>7, <2>8, JoinedBefore
  <2>11. old \o rs \o now \in Seq(Nat) /\ Increasing(old \o rs \o now)
    BY <2>4, <2>9, <2>10, Joined, JoinedIncreasing
  <2>12. Before(old \o rs \o now, queue)  BY <2>1, <2>4, <2>8, <2>9, <2>10, JoinedBefore
  <2>13. Increasing(old \o rs \o now \o queue)
    BY <2>1, <2>5, <2>11, <2>12, JoinedIncreasing
  <2>14. ASSUME NEW s \in DOMAIN subs PROVE Increasing(<<seen[s]>> \o subs[s])
    <3>. DEFINE x    == seen[s]
                told == subs[s]
    <3>1. x \in Nat /\ told \in Seq(Nat) /\ Follows(x, told)  BY <2>1 DEF SubsInTurn
    <3>. HIDE DEF x, told
    <3>2. <<x>> \in Seq(Nat) /\ Increasing(<<x>>)  BY <3>1, OneIncreasing
    <3>3. Before(<<x>>, told)  BY <3>1, OneBefore DEF Follows
    <3>4. DOMAIN told = 1..Len(told)  BY <3>1
    <3>5. Increasing(told)  BY <3>1, <3>4 DEF Follows, Increasing
    <3>6. Increasing(<<x>> \o told)  BY <3>1, <3>2, <3>3, <3>5, JoinedIncreasing
    <3>. QED  BY <3>6 DEF x, told
  <2>. QED  BY <2>13, <2>14 DEF OrderKept, old, rs, now
<1>. QED  BY <1>1, InvariantHolds, PTL

-----------------------------------------------------------------------------
\* "Stop stops the dispatcher and drains the queue": a dispatcher at rest after Stop,
\* with no wake-up still due, has ended with nothing left. It never waits on what it
\* should handle unless a wake-up is due, whatever the order of Publish, Stop and
\* their calls after the unlock.
THEOREM StopIsHeard == ASSUME UsageAssumption PROVE UsageSpec => []StopDrains
<1>1. IInv => StopDrains
  BY DEF IInv, Awake, StopDrains
<1>. QED  BY <1>1, InvariantHolds, PTL
=============================================================================
