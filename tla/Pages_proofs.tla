----------------------------- MODULE Pages_proofs -----------------------------
(***************************************************************************)
(* The inspector's page (InspectorPage), for any number of records, picks, *)
(* questions and panels; the logbook (Logbook) and what the model fetches  *)
(* from it (LogFetch); and the lemmas on places, greatest elements and     *)
(* kept records that the proofs about the stores need as well.  What the   *)
(* page holds of a journal is a stretch of what was captured: a snapshot,  *)
(* the records its stream has brought since, and those still on their way. *)
(* Each answer that is yet to come knows what it was asked about.          *)
(***************************************************************************)
EXTENDS MCStores, SequenceTheorems, FiniteSetTheorems, WellFoundedInduction, TLAPS

----------------------------------------------------------------------------
(***************************************************************************)
(* The greatest of a set, the places of a sequence that are kept, and the  *)
(* newest of its elements.                                                 *)

(* The greatest of a bounded set is one of it. *)
LEMMA GreatestOf ==
  ASSUME NEW n \in Nat, NEW S \in SUBSET (0..n), S # {}
  PROVE  Max(S) \in S /\ \A y \in S : y <= Max(S)
<1> DEFINE R == OpToRel(<, Nat)
           T == {n - i : i \in S}
<1>1. IsWellFoundedOn(R, Nat)
  BY NatLessThanWellFounded
<1>2. R = {ss \in Nat \X Nat : ss[1] < ss[2]}
  BY DEF OpToRel
<1>3. T \subseteq Nat /\ T # {}
  <2>1. \A i \in S : i \in 0..n /\ n - i \in Nat
    OBVIOUS
  <2>2. PICK i \in S : TRUE
    OBVIOUS
  <2>3. n - i \in T
    OBVIOUS
  <2> QED
    BY <2>1, <2>3
<1> HIDE DEF R, T
<1>4. PICK t \in T : \A y \in T : ~(<<y, t>> \in R)
  BY <1>1, <1>3, WFMin
<1>5. \A y \in T : ~(y < t)
  BY <1>2, <1>3, <1>4
<1>6. PICK i \in S : t = n - i
  BY <1>4 DEF T
<1>7. \A j \in S : i >= j
  <2> TAKE j \in S
  <2>1. n - j \in T
    BY DEF T
  <2>2. ~(n - j < n - i)
    BY <1>5, <1>6, <2>1
  <2> QED
    BY <2>2
<1>8. Max(S) \in S /\ \A y \in S : Max(S) >= y
  BY <1>7 DEF Max
<1> QED
  BY <1>8

(* The n-th of a set of places. *)
Below(P, i) == Cardinality({j \in P : j < i})
Nth(P) == [n \in 1..Cardinality(P) |-> CHOOSE i \in P : Below(P, i) = n - 1]

(* The number of places below a place orders them, without a gap above. *)
LEMMA BelowIs ==
  ASSUME NEW m \in Nat, NEW P \in SUBSET (1..m)
  PROVE  /\ IsFiniteSet(P) /\ Cardinality(P) \in 0..m
         /\ \A i \in P : Below(P, i) \in 0..(Cardinality(P) - 1)
         /\ \A i, k \in P : i < k => Below(P, i) < Below(P, k)
<1>0. \A x \in P : x \in Int
  <2> TAKE x \in P
  <2>1. x \in 1..m
    OBVIOUS
  <2> QED
    BY <2>1
<1>1. IsFiniteSet(1..m) /\ Cardinality(1..m) = m
  BY FS_Interval
<1>2. IsFiniteSet(P) /\ Cardinality(P) <= m
  BY <1>1, FS_Subset
<1>3. Cardinality(P) \in Nat
  BY <1>2, FS_CardinalityType
<1>4. ASSUME NEW S \in SUBSET P, NEW T \in SUBSET P, NEW i \in T, S \subseteq T, i \notin S
      PROVE  Cardinality(S) \in Nat /\ Cardinality(T) \in Nat /\ Cardinality(S) < Cardinality(T)
  <2>1. IsFiniteSet(T) /\ IsFiniteSet(S)
    BY <1>2, FS_Subset
  <2>2. Cardinality(S) \in Nat /\ Cardinality(T) \in Nat
    BY <2>1, FS_CardinalityType
  <2>3. Cardinality(S) <= Cardinality(T) /\ (Cardinality(T) = Cardinality(S) => T = S)
    BY <1>4, <2>1, FS_Subset
  <2> QED
    BY <1>4, <2>2, <2>3
<1>5. ASSUME NEW i \in P PROVE Below(P, i) \in 0..(Cardinality(P) - 1)
  <2> DEFINE S == {j \in P : j < i}
  <2>1. S \in SUBSET P /\ i \notin S
    OBVIOUS
  <2>2. Cardinality(S) \in Nat /\ Cardinality(S) < Cardinality(P)
    BY <1>4, <2>1
  <2> QED
    BY <1>3, <2>2 DEF Below
<1>6. ASSUME NEW i \in P, NEW k \in P, i < k PROVE Below(P, i) < Below(P, k)
  <2> DEFINE S == {j \in P : j < i}
             T == {j \in P : j < k}
  <2>1. S \in SUBSET P /\ T \in SUBSET P /\ i \in T /\ i \notin S
    BY <1>6
  <2>2. S \subseteq T
    <3>1. \A j \in P : j < i => j < k
      BY <1>0, <1>6
    <3> QED
      BY <3>1
  <2>3. Cardinality(S) < Cardinality(T)
    BY <1>4, <2>1, <2>2
  <2> QED
    BY <2>3 DEF Below
<1> QED
  BY <1>2, <1>3, <1>5, <1>6

Ascending(h, m) == \A i, k \in 1..m : i < k => h[i] < h[k]

(* They come in order, each of them once. *)
LEMMA NthIs ==
  ASSUME NEW m \in Nat, NEW P \in SUBSET (1..m)
  PROVE  /\ Cardinality(P) \in 0..m
         /\ Nth(P) \in [1..Cardinality(P) -> P]
         /\ Ascending(Nth(P), Cardinality(P))
         /\ \A i \in P : \E n \in 1..Cardinality(P) : Nth(P)[n] = i
<1> DEFINE c == Cardinality(P)
           f == [i \in P |-> Below(P, i)]
<1>1. /\ IsFiniteSet(P) /\ c \in 0..m
      /\ \A i \in P : Below(P, i) \in 0..(c - 1)
      /\ \A i, k \in P : i < k => Below(P, i) < Below(P, k)
  BY BelowIs
<1>2. f \in [P -> 0..(c - 1)] /\ \A i \in P : f[i] = Below(P, i)
  BY <1>1
<1>3. ASSUME NEW i \in P, NEW k \in P, Below(P, i) = Below(P, k) PROVE i = k
  <2>1. i \in Int /\ k \in Int
    OBVIOUS
  <2>2. Below(P, i) \in Int /\ Below(P, k) \in Int
    BY <1>1
  <2>3. ~(i < k) /\ ~(k < i)
    BY <1>1, <1>3, <2>2
  <2> QED
    BY <2>1, <2>3
<1>4. f \in Injection(P, 0..(c - 1))
  BY <1>2, <1>3 DEF Injection, IsInjective
<1>5. IsFiniteSet(0..(c - 1)) /\ Cardinality(0..(c - 1)) = c
  <2>1. 0 \in Int /\ c - 1 \in Int
    BY <1>1
  <2>2. IsFiniteSet(0..(c - 1)) /\ Cardinality(0..(c - 1)) = IF 0 > c - 1 THEN 0 ELSE (c - 1) - 0 + 1
    BY <2>1, FS_Interval
  <2> QED
    BY <1>1, <2>2
<1>6. f \in Surjection(P, 0..(c - 1))
  BY <1>4, <1>5, FS_Injection
<1>7. \A x \in 0..(c - 1) : \E i \in P : f[i] = x
  BY <1>6 DEF Surjection
<1>8. ASSUME NEW n \in 1..c PROVE Nth(P)[n] \in P /\ Below(P, Nth(P)[n]) = n - 1
  <2>1. n - 1 \in 0..(c - 1)
    BY <1>1
  <2>2. PICK i \in P : f[i] = n - 1
    BY <1>7, <2>1
  <2>3. Below(P, i) = n - 1
    BY <1>2, <2>2
  <2> QED
    BY <2>3 DEF Nth
<1>9. Nth(P) \in [1..c -> P]
  BY <1>8 DEF Nth
<1>10. ASSUME NEW i \in 1..c, NEW k \in 1..c, i < k PROVE Nth(P)[i] < Nth(P)[k]
  <2> DEFINE a == Nth(P)[i]
             b == Nth(P)[k]
  <2>1. a \in P /\ b \in P /\ Below(P, a) = i - 1 /\ Below(P, b) = k - 1
    BY <1>8
  <2>2. a \in Int /\ b \in Int
    <3>1. a \in 1..m /\ b \in 1..m
      BY <2>1
    <3> HIDE DEF a, b
    <3> QED
      BY <3>1
  <2> HIDE DEF a, b
  <2>3. a # b
    BY <1>10, <2>1
  <2>4. ~(b < a)
    <3> SUFFICES ASSUME b < a PROVE FALSE
      OBVIOUS
    <3>1. k - 1 < i - 1
      BY <1>1, <2>1
    <3> QED
      BY <1>10, <3>1
  <2>5. a < b
    BY <2>2, <2>3, <2>4
  <2> QED
    BY <2>5 DEF a, b
<1>11. ASSUME NEW i \in P PROVE \E n \in 1..c : Nth(P)[n] = i
  <2> DEFINE n == Below(P, i) + 1
  <2>1. Below(P, i) \in 0..(c - 1)
    BY <1>1
  <2>2. n \in 1..c /\ n - 1 = Below(P, i)
    BY <1>1, <2>1
  <2>3. Nth(P)[n] \in P /\ Below(P, Nth(P)[n]) = Below(P, i)
    BY <1>8, <2>2
  <2>4. Nth(P)[n] = i
    BY <1>3, <2>3
  <2> QED
    BY <2>2, <2>4
<1> QED
  BY <1>1, <1>9, <1>10, <1>11 DEF Ascending

(* What lists a set of places in order is this. *)
LEMMA NthOnly ==
  ASSUME NEW m \in Nat, NEW P \in SUBSET (1..m), NEW c \in Nat, NEW h \in [1..c -> P],
         Ascending(h, c), \A i \in P : \E n \in 1..c : h[n] = i
  PROVE  Cardinality(P) = c /\ Nth(P) = h
<1>0. \A x \in P : x \in Int
  <2> TAKE x \in P
  <2>1. x \in 1..m
    OBVIOUS
  <2> QED
    BY <2>1
<1>a. \A x \in 1..c : h[x] \in P /\ h[x] \in Int /\ x \in Int
  <2> TAKE x \in 1..c
  <2>1. h[x] \in P
    OBVIOUS
  <2>2. x \in Int
    OBVIOUS
  <2> QED
    BY <1>0, <2>1, <2>2
<1>1. ASSUME NEW n \in 1..c, NEW k \in 1..c, h[n] = h[k] PROVE n = k
  <2>1. h[n] \in Int /\ n \in Int /\ k \in Int
    BY <1>a
  <2>2. ~(h[n] < h[k]) /\ ~(h[k] < h[n])
    BY <1>1, <2>1
  <2> QED
    BY <2>1, <2>2 DEF Ascending
<1>2. Cardinality(P) = c
  <2>1. h \in Bijection(1..c, P)
    BY <1>1 DEF Bijection, Injection, Surjection, IsInjective
  <2> QED
    BY <2>1, FS_CountingElements DEF ExistsBijection
<1>3. ASSUME NEW n \in 1..c PROVE Below(P, h[n]) = n - 1
  <2> DEFINE S == {j \in P : j < h[n]}
             g == [k \in 1..(n - 1) |-> h[k]]
  <2>1. n - 1 \in Nat /\ \A k \in 1..(n - 1) : k \in 1..c /\ k < n
    OBVIOUS
  <2>2. \A k \in 1..(n - 1) : h[k] \in S
    BY <2>1 DEF Ascending
  <2>3. ASSUME NEW j \in S PROVE \E k \in 1..(n - 1) : h[k] = j
    <3>1. PICK k \in 1..c : h[k] = j
      OBVIOUS
    <3>2. h[k] < h[n] /\ h[k] \in Int /\ h[n] \in Int /\ k \in Int /\ n \in Int
      BY <1>a, <3>1
    <3>3. ~(n < k) /\ n # k
      <4>1. ~(h[n] < h[k])
        BY <3>2
      <4>2. n # k
        BY <3>2
      <4> QED
        BY <4>1, <4>2 DEF Ascending
    <3> QED
      BY <3>1, <3>2, <3>3
  <2>4. g \in [1..(n - 1) -> S] /\ \A k \in 1..(n - 1) : g[k] = h[k]
    BY <2>2
  <2>5. g \in Bijection(1..(n - 1), S)
    <3> HIDE DEF S, g
    <3>1. \A k, l \in 1..(n - 1) : g[k] = g[l] => k = l
      BY <1>1, <2>1, <2>4
    <3>2. \A j \in S : \E k \in 1..(n - 1) : g[k] = j
      BY <2>3, <2>4
    <3> QED
      BY <2>4, <3>1, <3>2 DEF Bijection, Injection, Surjection, IsInjective
  <2>6. Cardinality(S) = n - 1
    <3> HIDE DEF S, g
    <3> QED
      BY <2>1, <2>5, FS_CountingElements DEF ExistsBijection
  <2> QED
    BY <2>6 DEF Below
<1>4. ASSUME NEW n \in 1..c PROVE Nth(P)[n] = h[n]
  <2>0. n \in 1..Cardinality(P)
    BY <1>2
  <2>1. Nth(P)[n] = CHOOSE i \in P : Below(P, i) = n - 1
    BY <2>0 DEF Nth
  <2>2. Nth(P)[n] \in P /\ Below(P, Nth(P)[n]) = n - 1
    BY <1>3, <2>1
  <2>3. PICK k \in 1..c : h[k] = Nth(P)[n]
    BY <2>2
  <2>4. k - 1 = n - 1
    BY <1>3, <2>2, <2>3
  <2> QED
    BY <2>3, <2>4
<1>5. Nth(P) = [n \in 1..c |-> Nth(P)[n]]
  BY <1>2 DEF Nth
<1> QED
  BY <1>2, <1>4, <1>5

(* What is picked of a sequence. *)
LEMMA PickedIs ==
  ASSUME NEW T, NEW s \in Seq(T), NEW P \in SUBSET (1..Len(s))
  PROVE  /\ Len(s) \in Nat /\ DOMAIN s = 1..Len(s)
         /\ Picked(s, P) \in Seq(T) /\ Len(Picked(s, P)) = Cardinality(P) /\ Cardinality(P) \in 0..Len(s)
         /\ Nth(P) \in [1..Cardinality(P) -> P]
         /\ Ascending(Nth(P), Cardinality(P))
         /\ \A i \in P : \E n \in 1..Cardinality(P) : Nth(P)[n] = i
         /\ \A n \in 1..Cardinality(P) : Picked(s, P)[n] = s[Nth(P)[n]]
<1>1. Len(s) \in Nat /\ DOMAIN s = 1..Len(s) /\ \A i \in 1..Len(s) : s[i] \in T
  BY LenProperties, ElementOfSeq
<1>2. /\ Cardinality(P) \in 0..Len(s)
      /\ Nth(P) \in [1..Cardinality(P) -> P]
      /\ Ascending(Nth(P), Cardinality(P))
      /\ \A i \in P : \E n \in 1..Cardinality(P) : Nth(P)[n] = i
  BY <1>1, NthIs
<1>3. Picked(s, P) = [n \in 1..Cardinality(P) |-> s[Nth(P)[n]]]
  BY DEF Picked, Nth, Below
<1>4. Picked(s, P) \in [1..Cardinality(P) -> T]
  BY <1>1, <1>2, <1>3
<1>5. Picked(s, P) \in Seq(T) /\ Len(Picked(s, P)) = Cardinality(P)
  <2>1. Picked(s, P) \in Seq(T)
    BY <1>2, <1>4, SeqDef
  <2>2. DOMAIN Picked(s, P) = 1..Cardinality(P) /\ DOMAIN Picked(s, P) = 1..Len(Picked(s, P))
    BY <1>4, <2>1, LenProperties
  <2>3. Len(Picked(s, P)) \in Nat
    BY <2>1, LenProperties
  <2> QED
    BY <1>2, <2>1, <2>2, <2>3
<1>6. \A n \in 1..Cardinality(P) : Picked(s, P)[n] = s[Nth(P)[n]]
  BY <1>3
<1> QED
  BY <1>1, <1>2, <1>5, <1>6

(* What is picked, in terms of the function that lists the places. *)
LEMMA PickedSame ==
  ASSUME NEW s, NEW P
  PROVE  Picked(s, P) = [n \in 1..Cardinality(P) |-> s[Nth(P)[n]]]
BY DEF Picked, Nth, Below

(* The newest of a sequence. *)
LEMMA NewerIs ==
  ASSUME NEW T, NEW s \in Seq(T), NEW n \in Nat
  PROVE  /\ Len(s) \in Nat /\ Newer(s, n) \in Seq(T) 
         /\ Len(Newer(s, n)) = (IF Len(s) > n THEN n ELSE Len(s))
         /\ \A i \in 1..Len(Newer(s, n)) : /\ i + (Len(s) - Len(Newer(s, n))) \in 1..Len(s)
                                           /\ Newer(s, n)[i] = s[i + (Len(s) - Len(Newer(s, n)))]
<1>1. Len(s) \in Nat /\ \A i \in 1..Len(s) : s[i] \in T
  BY LenProperties, ElementOfSeq
<1>2. CASE ~(Len(s) > n)
  <2>1. Newer(s, n) = s
    BY <1>2 DEF Newer
  <2> QED
    BY <1>1, <1>2, <2>1
<1>3. CASE Len(s) > n
  <2> DEFINE a == Len(s) - n + 1
             w == SubSeq(s, a, Len(s))
  <2>1. Newer(s, n) = w
    BY <1>3 DEF Newer
  <2>2. /\ a \in 1..(Len(s) + 1) /\ Len(s) - a + 1 = n
        /\ \A i \in a..Len(s) : i \in 1..Len(s)
        /\ (IF a <= Len(s) THEN Len(s) - a + 1 ELSE 0) = n
        /\ \A i \in 1..n : a + i - 1 = i + (Len(s) - n) /\ a + i - 1 \in 1..Len(s)
    BY <1>1, <1>3
  <2> HIDE DEF a
  <2>3. /\ w \in Seq(T) /\ Len(w) = (IF a <= Len(s) THEN Len(s) - a + 1 ELSE 0)
        /\ \A i \in 1..(Len(s) - a + 1) : w[i] = s[a + i - 1]
    <3>1. \A i \in a..Len(s) : s[i] \in T
      BY <1>1, <2>2
    <3>2. a \in Int /\ Len(s) \in Int
      BY <1>1, <2>2
    <3> QED
      BY <3>1, <3>2, SubSeqProperties
  <2>4. w \in Seq(T) /\ Len(w) = n /\ \A i \in 1..n : w[i] = s[i + (Len(s) - n)]
    BY <2>2, <2>3
  <2> HIDE DEF w
  <2> QED
    BY <1>1, <1>3, <2>1, <2>2, <2>4
<1> QED
  BY <1>2, <1>3

(* The newest of a sequence, counted from their end. *)
LEMMA NewerFromEnd ==
  ASSUME NEW T, NEW s \in Seq(T), NEW n \in Nat
  PROVE  /\ Newer(s, n) \in Seq(T) /\ Len(s) \in Nat
         /\ Len(Newer(s, n)) = (IF Len(s) > n THEN n ELSE Len(s)) /\ Len(Newer(s, n)) \in Nat
         /\ \A j \in 0..(Len(Newer(s, n)) - 1) :
              /\ Len(Newer(s, n)) - j \in 1..Len(Newer(s, n)) /\ Len(s) - j \in 1..Len(s)
              /\ Newer(s, n)[Len(Newer(s, n)) - j] = s[Len(s) - j]
<1> DEFINE t == Newer(s, n)
           k == Len(t)
           m == Len(s)
<1>1. /\ m \in Nat /\ t \in Seq(T) /\ k = (IF m > n THEN n ELSE m)
      /\ \A i \in 1..k : t[i] = s[i + (m - k)]
  BY NewerIs
<1> HIDE DEF t, k, m
<1>2. k \in Nat /\ k <= m
  BY <1>1
<1>3. ASSUME NEW j \in 0..(k - 1) PROVE k - j \in 1..k /\ m - j \in 1..m /\ t[k - j] = s[m - j]
  <2>1. k - j \in 1..k /\ m - j \in 1..m /\ (k - j) + (m - k) = m - j
    BY <1>1, <1>2
  <2>2. t[k - j] = s[(k - j) + (m - k)]
    BY <1>1, <2>1
  <2> QED
    BY <2>1, <2>2
<1> QED
  BY <1>1, <1>2, <1>3 DEF t, k, m

(***************************************************************************)
(* The inspector's page.                                                   *)

Streams == [of : Watched, state : {"opening", "open", "closed"}, wire : Seq(Captured)]
Asks == [n : 0..(MaxPicks + MaxAsked), what : {"snapshot", "query", "clear"}, of : Watched,
         at : {"sent", "served"}, only : SUBSET RecordKinds, recs : Seq(Captured)]
Views == [id : Watched \cup {NoAgent}, lastSeq : 0..MaxCaptured, records : Seq(Captured),
          found : Seq(Captured), ran : BOOLEAN, es : Nat]

Ordered(s) == \A i, j \in 1..Len(s) : i < j => s[i].seq < s[j].seq
NoneOver(s, m) == \A i \in 1..Len(s) : s[i].seq <= m
Past(s, m) == \A i \in 1..Len(s) : m < s[i].seq
AllOf(s, a) == \A i \in 1..Len(s) : s[i].of = a

(* The bounds of the page are numbers. *)
LEMMA PageSizesAre ==
  NoAgent \notin Watched /\ MaxCaptured \in Nat /\ MaxPicks \in Nat /\ MaxAsked \in Nat /\ MaxUpsets \in Nat
BY InspectorPageAssumption

(* Of what a list of records consists. *)
LEMMA RecordsAre ==
  ASSUME NEW s \in Seq(Captured)
  PROVE  /\ Len(s) \in Nat /\ DOMAIN s = 1..Len(s)
         /\ \A i \in 1..Len(s) : /\ s[i] \in Captured /\ s[i].seq \in 1..MaxCaptured /\ s[i].seq \in Nat
                                 /\ s[i].of \in Watched
<1>1. Len(s) \in Nat /\ DOMAIN s = 1..Len(s) /\ \A i \in 1..Len(s) : s[i] \in Captured
  BY LenProperties, ElementOfSeq
<1>2. \A r \in Captured : r.seq \in 1..MaxCaptured /\ r.of \in Watched
  BY DEF Captured
<1>3. 1..MaxCaptured \subseteq Nat
  BY PageSizesAre
<1> QED
  BY <1>1, <1>2, <1>3

(* The empty list has whatever is asked of lists. *)
LEMMA NoRecords ==
  /\ <<>> \in Seq(Captured) /\ Ordered(<<>>) /\ \A m : NoneOver(<<>>, m) /\ Past(<<>>, m) /\ AllOf(<<>>, m)
BY EmptySeq DEF Ordered, NoneOver, Past, AllOf

(* A record joins those before it. *)
LEMMA JoinedIs ==
  ASSUME NEW s \in Seq(Captured), NEW r \in Captured
  PROVE  /\ Append(s, r) \in Seq(Captured) /\ Len(Append(s, r)) = Len(s) + 1
         /\ \A i \in 1..Len(s) : Append(s, r)[i] = s[i]
         /\ Append(s, r)[Len(s) + 1] = r
         /\ Len(s) + 1 \in 1..Len(Append(s, r)) /\ \A i \in 1..Len(s) : i \in 1..Len(Append(s, r))
         /\ \A i \in 1..Len(Append(s, r)) : i = Len(s) + 1 \/ i \in 1..Len(s)
         /\ \A m \in Nat : Ordered(s) /\ NoneOver(s, m) /\ m < r.seq => Ordered(Append(s, r))
         /\ \A m \in Nat : NoneOver(s, m) /\ m <= r.seq => NoneOver(Append(s, r), r.seq)
         /\ \A m \in Nat : NoneOver(s, m) /\ r.seq <= m => NoneOver(Append(s, r), m)
         /\ \A m : Past(s, m) /\ m < r.seq => Past(Append(s, r), m)
         /\ \A a : AllOf(s, a) /\ r.of = a => AllOf(Append(s, r), a)
<1> DEFINE t == Append(s, r)
           n == Len(s)
<1>1. n \in Nat /\ (\A i \in 1..n : s[i].seq \in Nat) /\ r.seq \in Nat
  <2>1. r.seq \in 1..MaxCaptured
    BY DEF Captured
  <2>2. r.seq \in Nat
    BY <2>1, PageSizesAre
  <2> QED
    BY <2>2, RecordsAre
<1>2. t \in Seq(Captured) /\ Len(t) = n + 1 /\ (\A i \in 1..n : t[i] = s[i]) /\ t[n + 1] = r
  BY AppendProperties
<1>a. n = Len(s)
  OBVIOUS
<1> HIDE DEF t, n
<1>3. /\ n + 1 \in 1..Len(t) /\ \A i \in 1..n : i \in 1..Len(t)
      /\ \A i \in 1..Len(t) : i = n + 1 \/ i \in 1..n
  BY <1>1, <1>2
<1>4. ASSUME NEW m \in Nat, Ordered(s), NoneOver(s, m), m < r.seq PROVE Ordered(t)
  <2> SUFFICES ASSUME NEW i \in 1..Len(t), NEW j \in 1..Len(t), i < j PROVE t[i].seq < t[j].seq
    BY DEF Ordered
  <2>1. i \in 1..n
    BY <1>1, <1>2
  <2>2. CASE j = n + 1
    <3>1. t[i].seq <= m /\ t[j] = r /\ t[i].seq \in Nat
      BY <1>1, <1>2, <1>4, <1>a, <2>1, <2>2 DEF NoneOver
    <3> QED
      BY <1>1, <1>4, <3>1
  <2>3. CASE j \in 1..n
    BY <1>2, <1>4, <1>a, <2>1, <2>3 DEF Ordered
  <2> QED
    BY <1>3, <2>2, <2>3
<1>5. ASSUME NEW m \in Nat, NoneOver(s, m), m <= r.seq PROVE NoneOver(t, r.seq)
  <2> SUFFICES ASSUME NEW i \in 1..Len(t) PROVE t[i].seq <= r.seq
    BY DEF NoneOver
  <2>1. CASE i = n + 1
    BY <1>1, <1>2, <2>1
  <2>2. CASE i \in 1..n
    <3>1. t[i].seq <= m /\ t[i].seq \in Nat
      BY <1>1, <1>2, <1>5, <1>a, <2>2 DEF NoneOver
    <3> QED
      BY <1>1, <1>5, <3>1
  <2> QED
    BY <1>3, <2>1, <2>2
<1>6. ASSUME NEW m \in Nat, NoneOver(s, m), r.seq <= m PROVE NoneOver(t, m)
  BY <1>2, <1>3, <1>6, <1>a DEF NoneOver
<1>7. ASSUME NEW m, Past(s, m), m < r.seq PROVE Past(t, m)
  BY <1>2, <1>3, <1>7, <1>a DEF Past
<1>8. ASSUME NEW a, AllOf(s, a), r.of = a PROVE AllOf(t, a)
  BY <1>2, <1>3, <1>8, <1>a DEF AllOf
<1>9. t \in Seq(Captured) /\ Len(t) = Len(s) + 1 /\ (\A i \in 1..Len(s) : t[i] = s[i]) /\ t[Len(s) + 1] = r
      /\ Len(s) + 1 \in 1..Len(t) /\ (\A i \in 1..Len(s) : i \in 1..Len(t))
      /\ \A i \in 1..Len(t) : i = Len(s) + 1 \/ i \in 1..Len(s)
  BY <1>2, <1>3, <1>a
<1> QED
  BY <1>4, <1>5, <1>6, <1>7, <1>8, <1>9 DEF t

(* The first of some records, and the rest. *)
LEMMA TakenIs ==
  ASSUME NEW s \in Seq(Captured), s # <<>>
  PROVE  /\ Head(s) \in Captured /\ Tail(s) \in Seq(Captured) /\ 1 \in 1..Len(s) /\ Head(s) = s[1]
         /\ \A i \in 1..Len(s) : s[i] = Head(s) \/ \E k \in 1..Len(Tail(s)) : Tail(s)[k] = s[i]
         /\ \A k \in 1..Len(Tail(s)) : k + 1 \in 1..Len(s) /\ Tail(s)[k] = s[k + 1]
         /\ Ordered(s) => Ordered(Tail(s)) /\ Past(Tail(s), Head(s).seq)
         /\ \A m : NoneOver(s, m) => NoneOver(Tail(s), m) /\ Head(s).seq <= m
         /\ \A m : Past(s, m) => m < Head(s).seq
         /\ \A a : AllOf(s, a) => AllOf(Tail(s), a) /\ Head(s).of = a
<1> DEFINE t == Tail(s)
           n == Len(s)
           h == Head(s)
<1>1. /\ h \in Captured /\ t \in Seq(Captured) /\ Len(t) = n - 1
      /\ \A i \in 1..Len(t) : t[i] = s[i + 1]
  BY HeadTailProperties
<1>2. n \in Nat /\ n # 0 /\ h = s[1]
  BY EmptySeq, LenProperties
<1>a. n = Len(s)
  OBVIOUS
<1> HIDE DEF t, n, h
<1>3. 1 \in 1..n /\ \A k \in 1..Len(t) : k \in Int /\ k + 1 \in 1..n /\ 1 < k + 1 /\ t[k] = s[k + 1]
  BY <1>1, <1>2
<1>4. ASSUME NEW i \in 1..n PROVE s[i] = h \/ \E k \in 1..Len(t) : t[k] = s[i]
  <2>1. CASE i = 1
    BY <1>2, <2>1
  <2>2. CASE i # 1
    <3>1. i - 1 \in 1..Len(t) /\ (i - 1) + 1 = i
      BY <1>1, <1>2, <2>2
    <3>2. t[i - 1] = s[i]
      BY <1>1, <3>1
    <3> QED
      BY <3>1, <3>2
  <2> QED
    BY <2>1, <2>2
<1>5. Ordered(s) => Ordered(t) /\ Past(t, h.seq)
  <2> SUFFICES ASSUME Ordered(s) PROVE Ordered(t) /\ Past(t, h.seq)
    OBVIOUS
  <2>1. \A i, j \in 1..n : i < j => s[i].seq < s[j].seq
    BY <1>a DEF Ordered
  <2>2. \A i, j \in 1..Len(t) : i < j => i + 1 < j + 1
    BY <1>3
  <2>3. Ordered(t)
    BY <1>3, <2>1, <2>2 DEF Ordered
  <2>4. Past(t, h.seq)
    BY <1>2, <1>3, <2>1 DEF Past
  <2> QED
    BY <2>3, <2>4
<1>6. /\ \A m : NoneOver(s, m) => NoneOver(t, m) /\ h.seq <= m
      /\ \A m : Past(s, m) => m < h.seq
      /\ \A a : AllOf(s, a) => AllOf(t, a) /\ h.of = a
  BY <1>2, <1>3, <1>a DEF NoneOver, Past, AllOf
<1> QED
  BY <1>1, <1>2, <1>3, <1>4, <1>5, <1>6, <1>a DEF t, h

(* What a filter leaves. *)
LEMMA FilterIs ==
  ASSUME NEW s \in Seq(Captured), NEW kinds
  PROVE  /\ Filter(s, kinds) \in Seq(Captured)
         /\ \A i \in 1..Len(Filter(s, kinds)) :
              /\ Matches(Filter(s, kinds)[i], kinds)
              /\ \E k \in 1..Len(s) : s[k] = Filter(s, kinds)[i]
         /\ \A k \in 1..Len(s) : Matches(s[k], kinds) => \E i \in 1..Len(Filter(s, kinds)) : Filter(s, kinds)[i] = s[k]
         /\ Ordered(s) => Ordered(Filter(s, kinds))
         /\ \A m : NoneOver(s, m) => NoneOver(Filter(s, kinds), m)
         /\ \A a : AllOf(s, a) => AllOf(Filter(s, kinds), a)
<1> DEFINE P == {i \in DOMAIN s : Matches(s[i], kinds)}
           t == Picked(s, P)
           c == Cardinality(P)
<1>1. Filter(s, kinds) = t
  BY DEF Filter
<1>2. P \in SUBSET (1..Len(s)) /\ (\A i \in P : Matches(s[i], kinds)) /\ \A i \in 1..Len(s) : Matches(s[i], kinds) => i \in P
  BY RecordsAre
<1> HIDE DEF P
<1>3. /\ t \in Seq(Captured) /\ Len(t) = c
      /\ Nth(P) \in [1..c -> P] /\ Ascending(Nth(P), c)
      /\ \A i \in P : \E n \in 1..c : Nth(P)[n] = i
      /\ \A n \in 1..c : t[n] = s[Nth(P)[n]]
  BY <1>2, PickedIs
<1> HIDE DEF t, c
<1>4. \A n \in 1..Len(t) : Nth(P)[n] \in 1..Len(s) /\ t[n] = s[Nth(P)[n]] /\ Nth(P)[n] \in P
  BY <1>2, <1>3
<1>5. \A i \in 1..Len(t) : Matches(t[i], kinds) /\ \E k \in 1..Len(s) : s[k] = t[i]
  BY <1>2, <1>4
<1>6. \A k \in 1..Len(s) : Matches(s[k], kinds) => \E i \in 1..Len(t) : t[i] = s[k]
  BY <1>2, <1>3
<1>7. Ordered(s) => Ordered(t)
  <2> SUFFICES ASSUME Ordered(s), NEW i \in 1..Len(t), NEW k \in 1..Len(t), i < k PROVE t[i].seq < t[k].seq
    BY DEF Ordered
  <2>1. Nth(P)[i] < Nth(P)[k] /\ Nth(P)[i] \in 1..Len(s) /\ Nth(P)[k] \in 1..Len(s)
    BY <1>3, <1>4 DEF Ascending
  <2>2. s[Nth(P)[i]].seq < s[Nth(P)[k]].seq
    BY <2>1 DEF Ordered
  <2> QED
    BY <1>4, <2>2
<1>8. /\ \A m : NoneOver(s, m) => NoneOver(t, m)
      /\ \A a : AllOf(s, a) => AllOf(t, a)
  BY <1>4 DEF NoneOver, AllOf
<1> QED
  BY <1>1, <1>3, <1>5, <1>6, <1>7, <1>8

(* Of the log panel's records: one of another kind changes nothing.        *)
LogPlaces(s) == {i \in DOMAIN s : s[i].kind = "log"}

(* The log records of a list; a record of another kind adds none. *)
LEMMA LogsAre ==
  ASSUME NEW s \in Seq(Captured), NEW r \in Captured
  PROVE  /\ Picked(s, LogPlaces(s)) \in Seq(Captured)
         /\ r.kind # "log" => Picked(Append(s, r), LogPlaces(Append(s, r))) = Picked(s, LogPlaces(s))
<1> DEFINE P == LogPlaces(s)
           t == Append(s, r)
<1>1. DOMAIN s = 1..Len(s) /\ P \in SUBSET (1..Len(s))
  BY RecordsAre DEF LogPlaces
<1>2. Picked(s, P) \in Seq(Captured) /\ Nth(P) \in [1..Cardinality(P) -> P]
  BY <1>1, PickedIs
<1>3. ASSUME r.kind # "log" PROVE Picked(t, LogPlaces(t)) = Picked(s, P)
  <2>1. /\ t \in Seq(Captured) /\ (\A i \in 1..Len(s) : t[i] = s[i]) /\ t[Len(s) + 1] = r
        /\ (\A i \in 1..Len(s) : i \in 1..Len(t))
        /\ \A i \in 1..Len(t) : i = Len(s) + 1 \/ i \in 1..Len(s)
    BY JoinedIs
  <2> HIDE DEF t
  <2>2. DOMAIN t = 1..Len(t)
    BY <2>1, RecordsAre
  <2>3. LogPlaces(t) = P
    BY <1>1, <1>3, <2>1, <2>2 DEF LogPlaces
  <2> HIDE DEF P
  <2>4. \A n \in 1..Cardinality(P) : t[Nth(P)[n]] = s[Nth(P)[n]]
    BY <1>1, <1>2, <2>1
  <2>5. /\ Picked(t, P) = [n \in 1..Cardinality(P) |-> t[Nth(P)[n]]]
        /\ Picked(s, P) = [n \in 1..Cardinality(P) |-> s[Nth(P)[n]]]
    BY PickedSame
  <2> QED
    BY <2>3, <2>4, <2>5
<1> QED
  BY <1>2, <1>3

(* What holds of a view and is kept by a record holds when all have been   *)
(* applied.                                                                *)
LEMMA AppliedAllIn ==
  ASSUME NEW R, NEW G, NEW v \in G, NEW recs \in Seq(R), \A w \in G, r \in R : Applied(w, r) \in G
  PROVE  AppliedAll(v, recs) \in G
<1> DEFINE n == Len(recs)
           Steps(g, k) == g \in [0..k -> G] /\ g[0] = v /\ \A i \in 1..k : g[i] = Applied(g[i - 1], recs[i])
           Not == {k \in 0..n : ~\E g : Steps(g, k)}
           L == OpToRel(<, Nat)
<1>1. n \in Nat /\ \A i \in 1..n : recs[i] \in R
  BY LenProperties, ElementOfSeq
<1>a. n = Len(recs)
  OBVIOUS
<1> HIDE DEF n
<1>2. \E g : Steps(g, 0)
  <2> DEFINE g0 == [i \in 0..0 |-> v]
  <2>1. g0 \in [0..0 -> G] /\ g0[0] = v
    OBVIOUS
  <2>2. \A i \in 1..0 : FALSE
    OBVIOUS
  <2>3. Steps(g0, 0)
    BY <2>1, <2>2
  <2> QED
    BY <2>3
<1>3. ASSUME NEW k \in 0..n, k < n, \E g : Steps(g, k) PROVE \E g : Steps(g, k + 1)
  <2>1. PICK g : Steps(g, k)
    BY <1>3
  <2> DEFINE x == Applied(g[k], recs[k + 1])
             f == [i \in 0..(k + 1) |-> IF i = k + 1 THEN x ELSE g[i]]
  <2>2. k \in Nat /\ k \in 0..k /\ k + 1 \in 1..n
    BY <1>1, <1>3
  <2>3. x \in G
    BY <1>1, <2>1, <2>2
  <2> HIDE DEF x
  <2>4. \A i \in 0..(k + 1) : i # k + 1 => i \in 0..k
    BY <2>2
  <2>5. f \in [0..(k + 1) -> G]
    BY <2>1, <2>3, <2>4
  <2>6. 0 \in 0..(k + 1) /\ 0 # k + 1
    BY <2>2
  <2>7. f[0] = v
    BY <2>1, <2>6
  <2>8. ASSUME NEW i \in 1..(k + 1) PROVE f[i] = Applied(f[i - 1], recs[i])
    <3>1. i \in 0..(k + 1) /\ i - 1 \in 0..(k + 1) /\ i - 1 # k + 1 /\ i - 1 \in 0..k
      BY <2>2
    <3>2. f[i - 1] = g[i - 1]
      BY <3>1
    <3>3. CASE i = k + 1
      <4>1. f[i] = x /\ i - 1 = k
        BY <2>2, <3>1, <3>3
      <4> QED
        BY <3>2, <3>3, <4>1 DEF x
    <3>4. CASE i # k + 1
      <4>1. i \in 1..k
        BY <2>2, <3>4
      <4> QED
        BY <2>1, <3>1, <3>2, <3>4, <4>1
    <3> QED
      BY <3>3, <3>4
  <2>9. Steps(f, k + 1)
    BY <2>5, <2>7, <2>8
  <2> QED
    BY <2>9
<1> HIDE DEF Steps
<1>4. Not = {}
  <2> SUFFICES ASSUME Not # {} PROVE FALSE
    OBVIOUS
  <2>1. Not \subseteq Nat
    BY <1>1
  <2>2. IsWellFoundedOn(L, Nat) /\ L = {ss \in Nat \X Nat : ss[1] < ss[2]}
    BY NatLessThanWellFounded DEF OpToRel
  <2> HIDE DEF L
  <2>3. PICK k \in Not : \A y \in Not : ~(<<y, k>> \in L)
    <3> HIDE DEF Not
    <3> QED
      BY <2>1, <2>2, WFMin
  <2>4. \A y \in Not : ~(y < k)
    BY <2>1, <2>2, <2>3
  <2>5. k \in 0..n /\ ~\E g : Steps(g, k)
    OBVIOUS
  <2>6. k # 0
    BY <1>2, <2>5
  <2>7. k - 1 \in 0..n /\ k - 1 < n /\ k - 1 < k /\ (k - 1) + 1 = k
    BY <1>1, <2>5, <2>6
  <2>8. k - 1 \notin Not
    BY <2>4, <2>7
  <2>9. \E g : Steps(g, k - 1)
    BY <2>7, <2>8
  <2>10. \E g : Steps(g, (k - 1) + 1)
    BY <1>3, <2>7, <2>9
  <2> QED
    BY <2>5, <2>7, <2>10
<1>5. PICK g : Steps(g, n)
  BY <1>1, <1>4
<1> DEFINE all == CHOOSE h : h = [i \in 0..n |-> IF i = 0 THEN v ELSE Applied(h[i - 1], recs[i])]
<1>6. g \in [0..n -> G] /\ g[0] = v /\ \A i \in 1..n : g[i] = Applied(g[i - 1], recs[i])
  BY <1>5 DEF Steps
<1>7. g = [i \in 0..n |-> IF i = 0 THEN v ELSE Applied(g[i - 1], recs[i])]
  <2>1. ASSUME NEW i \in 0..n PROVE g[i] = IF i = 0 THEN v ELSE Applied(g[i - 1], recs[i])
    <3>1. i # 0 => i \in 1..n
      BY <1>1
    <3> QED
      BY <1>6, <3>1
  <2> QED
    BY <1>6, <2>1
<1>8. all = [i \in 0..n |-> IF i = 0 THEN v ELSE Applied(all[i - 1], recs[i])]
  BY <1>7
<1>9. AppliedAll(v, recs) = all[n]
  BY <1>a DEF AppliedAll
<1> HIDE DEF all
<1>10. \A i \in 0..n : all[i] = IF i = 0 THEN v ELSE Applied(all[i - 1], recs[i])
  BY <1>8
<1> DEFINE Bad == {i \in 0..n : all[i] \notin G}
<1>11. Bad = {}
  <2> SUFFICES ASSUME Bad # {} PROVE FALSE
    OBVIOUS
  <2>1. Bad \subseteq Nat
    BY <1>1
  <2>2. IsWellFoundedOn(L, Nat) /\ L = {ss \in Nat \X Nat : ss[1] < ss[2]}
    BY NatLessThanWellFounded DEF OpToRel
  <2> HIDE DEF L
  <2>3. PICK k \in Bad : \A y \in Bad : ~(<<y, k>> \in L)
    <3> HIDE DEF Bad
    <3> QED
      BY <2>1, <2>2, WFMin
  <2>4. \A y \in Bad : ~(y < k)
    BY <2>1, <2>2, <2>3
  <2>5. k \in 0..n /\ all[k] \notin G
    OBVIOUS
  <2>6. k # 0
    BY <1>10, <2>5
  <2>7. k - 1 \in 0..n /\ k - 1 < k /\ k \in 1..n
    BY <1>1, <2>5, <2>6
  <2>8. all[k - 1] \in G
    BY <2>4, <2>7
  <2>9. all[k] = Applied(all[k - 1], recs[k])
    BY <1>10, <2>5, <2>6
  <2> QED
    BY <1>1, <2>5, <2>7, <2>8, <2>9
<1> QED
  BY <1>1, <1>9, <1>11

(* The parts of the page's invariant. *)
PageTypes ==
  /\ recorded \in [Watched -> Seq(Captured)] /\ last \in [Watched -> 0..MaxCaptured]
  /\ \A a \in Watched : last[a] <= captured
  /\ sources \in Seq(Streams) /\ requests \subseteq Asks /\ view \in Views /\ view.es \in 0..Len(sources)
  /\ screen \in {"landing", "dashboard", "lock"} /\ expanded \in {"overview"} \cup Panels
  /\ mode \in {"live", "query"} /\ only \in SUBSET RecordKinds
  /\ dirty \in SUBSET Panels /\ raf \in BOOLEAN /\ painted \in [Panels -> Seq(Captured)]
CountTypes ==
  captured \in 0..MaxCaptured /\ picks \in 0..MaxPicks /\ asked \in 0..MaxAsked /\ upsets \in 0..MaxUpsets
ToldTypes ==
  missed \subseteq Captured /\ renumbered \subseteq Watched /\ stray \in BOOLEAN /\ strained \in BOOLEAN

(* Buffers, streams and answers are of the agent they are for; numbers     *)
(* ascend, up to the last one given.                                       *)
BuffersOwn == \A a \in Watched : AllOf(recorded[a], a) /\ Ordered(recorded[a]) /\ NoneOver(recorded[a], last[a])
StreamsOwn ==
  \A i \in 1..Len(sources) :
    AllOf(sources[i].wire, sources[i].of) /\ (sources[i].state = "closed" => sources[i].wire = <<>>)
AnswersOwn ==
  \A q \in requests : AllOf(q.recs, q.of) /\ (q.of \notin renumbered => NoneOver(q.recs, last[q.of]))

(* The selection has the only stream that is not closed. *)
SelectionOwn ==
  /\ view.id \in Watched \/ view = Nothing
  /\ view.es # 0 => sources[view.es].of = view.id
  /\ ~stray => \A i \in 1..Len(sources) : sources[i].state # "closed" => i = view.es
ViewOrder ==
  /\ Ordered(view.records) /\ NoneOver(view.records, view.lastSeq)
  /\ ~stray => AllOf(view.records, view.id)
  /\ ~stray /\ view.es = 0 => view.records = <<>> /\ view.lastSeq = 0

(* What is on the stream comes after what is shown, and nothing is lost.   *)
NoneLost ==
  \A i \in 1..Len(recorded[view.id]) :
    \/ \E j \in 1..Len(view.records) : view.records[j] = recorded[view.id][i]
    \/ \E k \in 1..Len(Wire) : Wire[k] = recorded[view.id][i]
    \/ recorded[view.id][i] \in missed
StreamFollows ==
  ~stray /\ view.es # 0 /\ view.id \notin renumbered =>
    /\ view.lastSeq <= last[view.id]
    /\ Ordered(Wire) /\ Past(Wire, view.lastSeq) /\ NoneOver(Wire, last[view.id])
    /\ NoneLost

(* What a query found, or will be found to have found: s, of a buffer whose *)
(* records may still be on the way, or gone.                               *)
FoundIn(s, whole, way, lost, m, kinds, a) ==
  /\ Ordered(s) /\ AllOf(s, a) /\ NoneOver(s, m)
  /\ \A i \in 1..Len(s) : Matches(s[i], kinds)
  /\ \A i \in 1..Len(whole) : Matches(whole[i], kinds) =>
       \/ whole[i] \in lost
       \/ \E k \in 1..Len(way) : way[k] = whole[i]
       \/ \E j \in 1..Len(s) : s[j] = whole[i]
Finds(found) == FoundIn(found, recorded[view.id], Wire, missed, last[view.id], only, view.id)
FoundGood ==
  ~stray /\ view.es # 0 /\ view.ran /\ ~strained /\ Queries = {} /\ view.id \notin renumbered =>
    Finds(view.found) /\ \A i \in 1..Len(view.found) : Past(Wire, view.found[i].seq)
AnswerGood ==
  ~stray /\ view.es # 0 /\ ~strained /\ (view.ran \/ mode = "query") =>
    \A q \in Queries : /\ Wire = <<>> /\ q.only = only
                       /\ q.at = "served" /\ view.id \notin renumbered => Finds(q.recs)

PageInv ==
  /\ PageTypes /\ CountTypes /\ ToldTypes
  /\ BuffersOwn /\ StreamsOwn /\ AnswersOwn /\ SelectionOwn
  /\ ViewOrder /\ StreamFollows /\ FoundGood /\ AnswerGood /\ PanelsCatchUp

(* Of what the streams consist. *)
LEMMA StreamsAre ==
  ASSUME PageTypes
  PROVE  /\ Len(sources) \in Nat /\ DOMAIN sources = 1..Len(sources)
         /\ \A i \in 1..Len(sources) : /\ sources[i] \in Streams /\ sources[i].of \in Watched
                                       /\ sources[i].wire \in Seq(Captured)
                                       /\ sources[i].state \in {"opening", "open", "closed"}
         /\ view.es # 0 => view.es \in 1..Len(sources)
         /\ Wire \in Seq(Captured) /\ (view.es = 0 => Wire = <<>>) /\ (view.es # 0 => Wire = sources[view.es].wire)
<1>1. Len(sources) \in Nat /\ DOMAIN sources = 1..Len(sources) /\ \A i \in 1..Len(sources) : sources[i] \in Streams
  BY LenProperties, ElementOfSeq DEF PageTypes
<1>2. \A x \in Streams : x.of \in Watched /\ x.wire \in Seq(Captured) /\ x.state \in {"opening", "open", "closed"}
  BY DEF Streams
<1>3. view.es # 0 => view.es \in 1..Len(sources)
  BY <1>1 DEF PageTypes
<1> QED
  BY <1>1, <1>2, <1>3, NoRecords DEF Wire

(* Of what a view consists. *)
LEMMA ViewsAre ==
  ASSUME NEW v \in Views
  PROVE  /\ v.records \in Seq(Captured) /\ v.found \in Seq(Captured) /\ v.lastSeq \in 0..MaxCaptured /\ v.lastSeq \in Nat
         /\ v.ran \in BOOLEAN /\ v.es \in Nat /\ v.id \in Watched \cup {NoAgent}
BY PageSizesAre DEF Views

(* A fresh view is empty. *)
LEMMA FreshIs ==
  ASSUME NEW a \in Watched \cup {NoAgent}
  PROVE  /\ Fresh(a) \in Views /\ Fresh(a).id = a /\ Fresh(a).lastSeq = 0 /\ Fresh(a).records = <<>>
         /\ Fresh(a).found = <<>> /\ Fresh(a).ran = FALSE /\ Fresh(a).es = 0
BY NoRecords, PageSizesAre DEF Fresh, Views

(* The invariant is what is promised of the page. *)
LEMMA PageIsTrue == PageInv => ITypeOK /\ RecordsAreOwn /\ QueryFinds /\ PanelsCatchUp
<1> SUFFICES ASSUME PageInv PROVE ITypeOK /\ RecordsAreOwn /\ QueryFinds /\ PanelsCatchUp
  OBVIOUS
<1>0. /\ PageTypes /\ CountTypes /\ ToldTypes /\ SelectionOwn /\ StreamsOwn /\ ViewOrder /\ StreamFollows /\ FoundGood
      /\ PanelsCatchUp
  BY DEF PageInv
<1>1. ITypeOK
  <2>1. view \in [id : Watched \cup {NoAgent}, lastSeq : 0..MaxCaptured, records : Seq(Captured),
                  found : Seq(Captured), ran : BOOLEAN, es : 0..Len(sources)]
    BY <1>0 DEF PageTypes, Views
  <2>2. \A i \in DOMAIN sources : /\ sources[i].of \in Watched /\ sources[i].wire \in Seq(Captured)
                                  /\ sources[i].state \in {"opening", "open", "closed"}
    BY <1>0, StreamsAre
  <2> QED
    BY <1>0, <2>1, <2>2 DEF PageTypes, CountTypes, ToldTypes, Asks, ITypeOK
<1>2. /\ view.records \in Seq(Captured) /\ view.found \in Seq(Captured) /\ Wire \in Seq(Captured)
      /\ DOMAIN view.records = 1..Len(view.records) /\ DOMAIN view.found = 1..Len(view.found)
      /\ DOMAIN Wire = 1..Len(Wire)
  BY <1>0, StreamsAre, ViewsAre, RecordsAre DEF PageTypes
<1>3. view # Nothing => /\ view.id \in Watched /\ recorded[view.id] \in Seq(Captured)
                        /\ DOMAIN recorded[view.id] = 1..Len(recorded[view.id])
  BY <1>0, RecordsAre DEF SelectionOwn, PageTypes
<1>4. RecordsAreOwn
  <2> SUFFICES ASSUME ~stray, view # Nothing
               PROVE  /\ \A r \in Shown \cup OnTheWay : r.of = view.id
                      /\ \A i, j \in DOMAIN view.records : i < j => view.records[i].seq < view.records[j].seq
                      /\ view.es # 0 /\ view.id \notin renumbered =>
                           \A i \in DOMAIN recorded[view.id] : recorded[view.id][i] \in Shown \cup OnTheWay \cup missed
    BY DEF RecordsAreOwn
  <2>1. \A r \in Shown : r.of = view.id
    BY <1>0, <1>2 DEF ViewOrder, AllOf, Shown
  <2>2. \A r \in OnTheWay : r.of = view.id
    <3>1. CASE view.es = 0
      <4>1. DOMAIN Wire = {}
        BY <1>0, <3>1, StreamsAre
      <4> QED
        BY <4>1 DEF OnTheWay
    <3>2. CASE view.es # 0
      <4>1. view.es \in 1..Len(sources) /\ Wire = sources[view.es].wire
        BY <1>0, <3>2, StreamsAre
      <4>2. AllOf(Wire, view.id)
        BY <1>0, <3>2, <4>1 DEF StreamsOwn, SelectionOwn
      <4> QED
        BY <1>2, <4>2 DEF AllOf, OnTheWay
    <3> QED
      BY <3>1, <3>2
  <2>3. \A i, j \in DOMAIN view.records : i < j => view.records[i].seq < view.records[j].seq
    BY <1>0, <1>2 DEF ViewOrder, Ordered
  <2>4. view.es # 0 /\ view.id \notin renumbered =>
          \A i \in DOMAIN recorded[view.id] : recorded[view.id][i] \in Shown \cup OnTheWay \cup missed
    BY <1>0, <1>2, <1>3 DEF StreamFollows, NoneLost, Shown, OnTheWay
  <2> QED
    BY <2>1, <2>2, <2>3, <2>4
<1>5. QueryFinds
  <2> SUFFICES ASSUME ~stray, view.es # 0, view.ran, ~strained, Queries = {}, view.id \notin renumbered
               PROVE  /\ \A i, j \in DOMAIN view.found : i # j => view.found[i] # view.found[j]
                      /\ \A i \in DOMAIN view.found : view.found[i].of = view.id /\ Matches(view.found[i], only)
                      /\ \A i \in DOMAIN recorded[view.id] :
                           Matches(recorded[view.id][i], only) =>
                             \/ recorded[view.id][i] \in missed \cup OnTheWay
                             \/ \E j \in DOMAIN view.found : view.found[j] = recorded[view.id][i]
    BY DEF QueryFinds
  <2>1. Finds(view.found)
    BY <1>0 DEF FoundGood
  <2>2. view # Nothing
    BY FreshIs DEF Nothing
  <2>3. \A i, j \in 1..Len(view.found) : i # j => view.found[i] # view.found[j]
    <3> SUFFICES ASSUME NEW i \in 1..Len(view.found), NEW j \in 1..Len(view.found), i < j
                 PROVE  view.found[i] # view.found[j]
      OBVIOUS
    <3>1. view.found[i].seq < view.found[j].seq
      BY <2>1 DEF Finds, FoundIn, Ordered
    <3>2. view.found[i].seq \in Nat
      BY <1>2, RecordsAre
    <3> QED
      BY <3>1, <3>2
  <2>4. \A i \in 1..Len(view.found) : view.found[i].of = view.id /\ Matches(view.found[i], only)
    BY <2>1 DEF Finds, FoundIn, AllOf
  <2>5. \A i \in 1..Len(recorded[view.id]) :
           Matches(recorded[view.id][i], only) =>
             \/ recorded[view.id][i] \in missed \cup OnTheWay
             \/ \E j \in 1..Len(view.found) : view.found[j] = recorded[view.id][i]
    BY <1>2, <2>1 DEF Finds, FoundIn, OnTheWay
  <2> QED
    BY <1>2, <1>3, <2>2, <2>3, <2>4, <2>5
<1> QED
  BY <1>0, <1>1, <1>4, <1>5

(* A page that was just opened is as it should be. *)
LEMMA PageStarts ==
  ASSUME IInit, CountTypes
  PROVE  PageInv
<1>1. /\ recorded = [a \in Watched |-> <<>>] /\ last = [a \in Watched |-> 0]
      /\ sources = <<>> /\ requests = {}
      /\ view = Nothing /\ screen = "landing" /\ expanded = "overview" /\ mode \in {"live", "query"} /\ only = {}
      /\ dirty = {} /\ raf = FALSE /\ painted = [p \in Panels |-> <<>>]
      /\ missed = {} /\ renumbered = {} /\ stray = FALSE /\ strained = FALSE
  BY DEF IInit
<1>2. /\ view \in Views /\ view.id = NoAgent /\ view.lastSeq = 0 /\ view.records = <<>> /\ view.ran = FALSE /\ view.es = 0
  BY <1>1, FreshIs DEF Nothing
<1>3. Len(sources) = 0 /\ sources \in Seq(Streams)
  BY <1>1, EmptySeq
<1>4. PageTypes
  <2>1. \A a \in Watched : recorded[a] = <<>> /\ last[a] = 0
    BY <1>1
  <2>2. last \in [Watched -> 0..MaxCaptured] /\ \A a \in Watched : last[a] <= captured
    BY <1>1, <2>1, PageSizesAre DEF CountTypes
  <2>3. recorded \in [Watched -> Seq(Captured)] /\ painted \in [Panels -> Seq(Captured)]
    BY <1>1, NoRecords
  <2>4. view.es \in 0..Len(sources)
    BY <1>2, <1>3
  <2> QED
    BY <1>1, <1>2, <1>3, <2>2, <2>3, <2>4 DEF PageTypes
<1>5. ToldTypes
  BY <1>1 DEF ToldTypes
<1>6. BuffersOwn
  BY <1>1, NoRecords DEF BuffersOwn
<1>7. StreamsOwn /\ AnswersOwn
  BY <1>1, <1>3 DEF StreamsOwn, AnswersOwn
<1>8. SelectionOwn
  BY <1>1, <1>2, <1>3 DEF SelectionOwn
<1>9. ViewOrder
  BY <1>1, <1>2, NoRecords DEF ViewOrder
<1>10. StreamFollows /\ FoundGood /\ AnswerGood
  BY <1>2 DEF StreamFollows, FoundGood, AnswerGood
<1>11. PanelsCatchUp
  BY <1>1 DEF PanelsCatchUp
<1> QED
  BY <1>4, <1>5, <1>6, <1>7, <1>8, <1>9, <1>10, <1>11 DEF PageInv

(* A function on 1..n is a sequence of length n. *)
LEMMA SameLength ==
  ASSUME NEW T, NEW n \in Nat, NEW f \in [1..n -> T]
  PROVE  f \in Seq(T) /\ Len(f) = n /\ DOMAIN f = 1..n
<1>1. f \in Seq(T)
  BY SeqDef
<1>2. Len(f) \in Nat /\ DOMAIN f = 1..Len(f) /\ DOMAIN f = 1..n
  BY <1>1, LenProperties
<1>3. \A k, m \in Nat : 1..k = 1..m => k = m
  OBVIOUS
<1> QED
  BY <1>1, <1>2, <1>3

(* What is not over m is not over more. *)
LEMMA NoneOverMore ==
  ASSUME NEW s \in Seq(Captured), NEW m \in Nat, NEW n \in Nat, m <= n, NoneOver(s, m)
  PROVE  NoneOver(s, n)
<1> SUFFICES ASSUME NEW i \in 1..Len(s) PROVE s[i].seq <= n
  BY DEF NoneOver
<1>1. s[i].seq <= m /\ s[i].seq \in Nat
  BY RecordsAre DEF NoneOver
<1> QED
  BY <1>1

(* An agent's numbers are no more than what was captured. *)
LEMMA NumbersAre ==
  ASSUME PageTypes, CountTypes, NEW a \in Watched
  PROVE  /\ last[a] \in Nat /\ last[a] \in 0..MaxCaptured /\ last[a] <= captured /\ captured \in Nat
         /\ recorded[a] \in Seq(Captured) /\ Len(recorded[a]) \in Nat
<1>1. last[a] \in 0..MaxCaptured /\ last[a] <= captured /\ captured \in 0..MaxCaptured /\ recorded[a] \in Seq(Captured)
  BY DEF PageTypes, CountTypes
<1>2. \A x \in 0..MaxCaptured : x \in Nat
  BY PageSizesAre
<1> QED
  BY <1>1, <1>2, RecordsAre

(* The wire of the selection is that of the stream it has. *)
LEMMA SelectedIs ==
  ASSUME PageTypes, CountTypes, SelectionOwn, view.es # 0
  PROVE  /\ view.es \in 1..Len(sources) /\ Wire = sources[view.es].wire /\ Wire \in Seq(Captured)
         /\ sources[view.es].of = view.id /\ view.id \in Watched
         /\ last[view.id] \in Nat /\ recorded[view.id] \in Seq(Captured)
<1>1. view.es \in 1..Len(sources) /\ Wire = sources[view.es].wire /\ Wire \in Seq(Captured)
  BY StreamsAre
<1>2. sources[view.es].of = view.id /\ view.id \in Watched
  BY <1>1, StreamsAre DEF SelectionOwn
<1> QED
  BY <1>1, <1>2, NumbersAre

(* An element of a longer list is the new one or was there. *)
LEMMA JoinedFrom ==
  ASSUME NEW s \in Seq(Captured), NEW r \in Captured
  PROVE  \A i \in 1..Len(Append(s, r)) : Append(s, r)[i] = r \/ \E k \in 1..Len(s) : Append(s, r)[i] = s[k]
<1> SUFFICES ASSUME NEW i \in 1..Len(Append(s, r))
             PROVE  Append(s, r)[i] = r \/ \E k \in 1..Len(s) : Append(s, r)[i] = s[k]
  OBVIOUS
<1>1. i = Len(s) + 1 \/ i \in 1..Len(s)
  BY JoinedIs
<1>2. Append(s, r)[Len(s) + 1] = r /\ \A k \in 1..Len(s) : Append(s, r)[k] = s[k]
  BY JoinedIs
<1> QED
  BY <1>1, <1>2

(* A step that lets the page alone. *)
PageRests == UNCHANGED <<view, chosen, drawing>>

(* The panels and the order of the view stay when the page rests. *)
LEMMA PageRestsKeeps ==
  ASSUME PanelsCatchUp, ViewOrder, PageRests, stray' = stray
  PROVE  PanelsCatchUp' /\ ViewOrder'
<1>1. view' = view /\ screen' = screen /\ expanded' = expanded /\ mode' = mode /\ only' = only
      /\ dirty' = dirty /\ raf' = raf /\ painted' = painted
  BY DEF PageRests, chosen, drawing
<1>2. PanelsCatchUp'
  BY <1>1 DEF PanelsCatchUp, Content, InSight
<1> QED
  BY <1>1, <1>2 DEF ViewOrder

(***************************************************************************)
(* The hub: a record is captured.                                          *)
LEMMA CaptureKeeps ==
  ASSUME PageInv, NEW a \in Watched, NEW kind \in RecordKinds, Capture(a, kind)
  PROVE  PageInv'
<1> DEFINE rec == [of |-> a, seq |-> last[a] + 1, kind |-> kind]
<1>0. /\ PageTypes /\ CountTypes /\ ToldTypes /\ BuffersOwn /\ StreamsOwn /\ AnswersOwn /\ SelectionOwn
      /\ ViewOrder /\ StreamFollows /\ FoundGood /\ AnswerGood /\ PanelsCatchUp
  BY DEF PageInv
<1>1. /\ captured < MaxCaptured /\ captured' = captured + 1 /\ last' = [last EXCEPT ![a] = @ + 1]
      /\ recorded' = [recorded EXCEPT ![a] = Append(@, rec)]
      /\ sources' = [i \in DOMAIN sources |->
           IF sources[i].of = a /\ Open(i) THEN [sources[i] EXCEPT !.wire = Append(@, rec)] ELSE sources[i]]
      /\ missed' = IF a = view.id /\ view.es # 0 /\ ~Open(view.es) THEN missed \cup {rec} ELSE missed
      /\ strained' = (strained \/ (a = view.id /\ Queries # {}))
      /\ requests' = requests /\ picks' = picks /\ asked' = asked /\ upsets' = upsets
      /\ renumbered' = renumbered /\ stray' = stray
  BY DEF Capture
<1>2. PageRests
  BY DEF Capture, PageRests
<1>3. view' = view /\ screen' = screen /\ expanded' = expanded /\ mode' = mode /\ only' = only
      /\ dirty' = dirty /\ raf' = raf /\ painted' = painted
  BY <1>2 DEF PageRests, chosen, drawing
<1>4. PanelsCatchUp' /\ ViewOrder'
  BY <1>0, <1>1, <1>2, PageRestsKeeps
<1>5. /\ last[a] \in Nat /\ last[a] \in 0..MaxCaptured /\ last[a] <= captured /\ captured \in Nat
      /\ recorded[a] \in Seq(Captured)
  BY <1>0, NumbersAre
<1>6. captured' \in 0..MaxCaptured /\ last[a] + 1 \in 1..MaxCaptured /\ last[a] + 1 \in 0..MaxCaptured /\ last[a] + 1 <= captured'
      /\ last[a] + 1 \in Nat /\ last[a] < last[a] + 1 /\ last[a] <= last[a] + 1
  BY <1>1, <1>5, PageSizesAre
<1>7. rec \in Captured /\ rec.of = a /\ rec.seq = last[a] + 1
  BY <1>6 DEF Captured
<1> HIDE DEF rec
<1>8. /\ recorded'[a] = Append(recorded[a], rec) /\ last'[a] = last[a] + 1
      /\ \A b \in Watched : b # a => recorded'[b] = recorded[b] /\ last'[b] = last[b]
      /\ \A b \in Watched : recorded'[b] \in Seq(Captured) /\ last'[b] \in 0..MaxCaptured
  <2>1. recorded'[a] = Append(recorded[a], rec) /\ last'[a] = last[a] + 1
        /\ \A b \in Watched : b # a => recorded'[b] = recorded[b] /\ last'[b] = last[b]
    BY <1>0, <1>1 DEF PageTypes
  <2>2. Append(recorded[a], rec) \in Seq(Captured)
    BY <1>5, <1>7, JoinedIs
  <2> QED
    BY <1>0, <1>6, <2>1, <2>2 DEF PageTypes
<1>9. \A b \in Watched : last'[b] \in Nat /\ last[b] \in Nat /\ last[b] <= last'[b] /\ last'[b] <= captured'
  <2> TAKE b \in Watched
  <2>1. last[b] \in Nat /\ last[b] <= captured /\ captured \in Nat
    BY <1>0, NumbersAre
  <2>2. CASE b = a
    BY <1>6, <1>8, <2>1, <2>2
  <2>3. CASE b # a
    <3>1. last'[b] = last[b]
      BY <1>8, <2>3
    <3> QED
      BY <1>1, <2>1, <3>1
  <2> QED
    BY <2>2, <2>3
<1>10. /\ sources' \in Seq(Streams) /\ Len(sources') = Len(sources)
       /\ \A i \in 1..Len(sources) :
            /\ sources[i].wire \in Seq(Captured)
            /\ sources'[i].of = sources[i].of /\ sources'[i].state = sources[i].state
            /\ sources'[i].wire = IF sources[i].of = a /\ Open(i) THEN Append(sources[i].wire, rec) ELSE sources[i].wire
  <2>1. Len(sources) \in Nat /\ DOMAIN sources = 1..Len(sources) /\ \A i \in 1..Len(sources) : sources[i] \in Streams
    BY <1>0, StreamsAre
  <2>2. ASSUME NEW i \in 1..Len(sources)
        PROVE  /\ sources'[i] \in Streams /\ sources[i].wire \in Seq(Captured)
               /\ sources'[i].of = sources[i].of /\ sources'[i].state = sources[i].state
               /\ sources'[i].wire = IF sources[i].of = a /\ Open(i) THEN Append(sources[i].wire, rec) ELSE sources[i].wire
    <3>1. sources[i] \in Streams /\ sources[i].wire \in Seq(Captured)
      BY <2>1 DEF Streams
    <3>2. Append(sources[i].wire, rec) \in Seq(Captured)
      BY <1>7, <3>1, JoinedIs
    <3>3. sources'[i] = IF sources[i].of = a /\ Open(i) THEN [sources[i] EXCEPT !.wire = Append(@, rec)] ELSE sources[i]
      BY <1>1, <2>1
    <3>4. CASE sources[i].of = a /\ Open(i)
      BY <3>1, <3>2, <3>3, <3>4 DEF Streams
    <3>5. CASE ~(sources[i].of = a /\ Open(i))
      BY <3>1, <3>3, <3>5
    <3> QED
      BY <3>4, <3>5
  <2>3. sources' \in [1..Len(sources) -> Streams]
    <3>1. DOMAIN sources' = 1..Len(sources) /\ sources' = [i \in 1..Len(sources) |-> sources'[i]]
      BY <1>1, <2>1
    <3> QED
      BY <2>2, <3>1
  <2>4. sources' \in Seq(Streams) /\ Len(sources') = Len(sources)
    BY <2>1, <2>3, SameLength
  <2> QED
    BY <2>2, <2>4
<1>11. PageTypes'
  <2>1. recorded' \in [Watched -> Seq(Captured)] /\ last' \in [Watched -> 0..MaxCaptured]
    <3>1. recorded' = [b \in Watched |-> recorded'[b]] /\ last' = [b \in Watched |-> last'[b]]
      BY <1>0, <1>1 DEF PageTypes
    <3> QED
      BY <1>8, <3>1
  <2> QED
    BY <1>0, <1>1, <1>3, <1>9, <1>10, <2>1 DEF PageTypes
<1>12. CountTypes'
  BY <1>0, <1>1, <1>6 DEF CountTypes
<1>13. ToldTypes'
  BY <1>0, <1>1, <1>7 DEF ToldTypes
<1>14. BuffersOwn'
  <2> SUFFICES ASSUME NEW b \in Watched
               PROVE  AllOf(recorded'[b], b) /\ Ordered(recorded'[b]) /\ NoneOver(recorded'[b], last'[b])
    BY DEF BuffersOwn
  <2>1. AllOf(recorded[b], b) /\ Ordered(recorded[b]) /\ NoneOver(recorded[b], last[b])
    BY <1>0 DEF BuffersOwn
  <2>2. CASE b = a
    <3>1. AllOf(Append(recorded[a], rec), a) /\ Ordered(Append(recorded[a], rec)) /\ NoneOver(Append(recorded[a], rec), last[a] + 1)
      BY <1>5, <1>6, <1>7, <2>1, <2>2, JoinedIs
    <3> QED
      BY <1>8, <2>2, <3>1
  <2>3. CASE b # a
    BY <1>8, <2>1, <2>3
  <2> QED
    BY <2>2, <2>3
<1>15. StreamsOwn'
  <2> SUFFICES ASSUME NEW i \in 1..Len(sources)
               PROVE  /\ AllOf(sources'[i].wire, sources'[i].of)
                      /\ sources'[i].state = "closed" => sources'[i].wire = <<>>
    BY <1>10 DEF StreamsOwn
  <2>1. AllOf(sources[i].wire, sources[i].of) /\ (sources[i].state = "closed" => sources[i].wire = <<>>)
    BY <1>0 DEF StreamsOwn
  <2>2. CASE sources[i].of = a /\ Open(i)
    <3>0. sources[i].wire \in Seq(Captured) /\ AllOf(sources[i].wire, a) /\ rec \in Captured /\ rec.of = a
      BY <1>7, <1>10, <2>1, <2>2
    <3>1. AllOf(Append(sources[i].wire, rec), a)
      BY <3>0, JoinedIs
    <3>2. sources[i].state # "closed"
      BY <2>2 DEF Open
    <3> QED
      BY <1>10, <2>2, <3>1, <3>2
  <2>3. CASE ~(sources[i].of = a /\ Open(i))
    BY <1>10, <2>1, <2>3
  <2> QED
    BY <2>2, <2>3
<1>16. AnswersOwn'
  <2> SUFFICES ASSUME NEW q \in requests
               PROVE  AllOf(q.recs, q.of) /\ (q.of \notin renumbered => NoneOver(q.recs, last'[q.of]))
    BY <1>1 DEF AnswersOwn
  <2>1. AllOf(q.recs, q.of) /\ (q.of \notin renumbered => NoneOver(q.recs, last[q.of]))
    BY <1>0 DEF AnswersOwn
  <2>2. q.of \in Watched /\ q.recs \in Seq(Captured)
    BY <1>0 DEF PageTypes, Asks
  <2>3. last[q.of] \in Nat /\ last'[q.of] \in Nat /\ last[q.of] <= last'[q.of]
    BY <1>9, <2>2
  <2> QED
    BY <2>1, <2>2, <2>3, NoneOverMore
<1>17. SelectionOwn'
  <2>1. view.es # 0 => view.es \in 1..Len(sources)
    BY <1>0, StreamsAre
  <2> QED
    BY <1>0, <1>1, <1>3, <1>10, <2>1 DEF SelectionOwn
<1>18. Queries' = Queries
  BY <1>1, <1>3 DEF Queries
<1>19. ASSUME view.es # 0
       PROVE  /\ view.id \in Watched /\ Wire \in Seq(Captured) /\ last[view.id] \in Nat /\ last'[view.id] \in Nat
              /\ last[view.id] <= last'[view.id]
              /\ \/ view.id # a /\ Wire' = Wire /\ missed' = missed
                 \/ view.id = a /\ Wire' = Wire /\ missed' = missed \cup {rec}
                 \/ view.id = a /\ Wire' = Append(Wire, rec) /\ missed' = missed
  <2>1. /\ view.es \in 1..Len(sources) /\ Wire = sources[view.es].wire /\ Wire \in Seq(Captured)
        /\ sources[view.es].of = view.id /\ view.id \in Watched
    BY <1>0, <1>19, SelectedIs
  <2>2. Wire' = sources'[view.es].wire
    BY <1>3, <1>19 DEF Wire
  <2>3. Wire' = IF view.id = a /\ Open(view.es) THEN Append(Wire, rec) ELSE Wire
    BY <1>10, <2>1, <2>2
  <2> QED
    BY <1>1, <1>9, <1>19, <2>1, <2>3
<1>20. StreamFollows'
  <2> SUFFICES ASSUME ~stray, view.es # 0, view.id \notin renumbered
               PROVE  /\ view.lastSeq <= last'[view.id]
                      /\ Ordered(Wire') /\ Past(Wire', view.lastSeq) /\ NoneOver(Wire', last'[view.id])
                      /\ NoneLost'
    BY <1>1, <1>3 DEF StreamFollows
  <2>1. /\ view.lastSeq <= last[view.id]
        /\ Ordered(Wire) /\ Past(Wire, view.lastSeq) /\ NoneOver(Wire, last[view.id]) /\ NoneLost
    BY <1>0 DEF StreamFollows
  <2>2. view.lastSeq \in Nat
    BY <1>0, ViewsAre DEF PageTypes
  <2>3. view.lastSeq <= last'[view.id]
    BY <1>19, <2>1, <2>2
  <2>4. CASE view.id # a
    <3>1. Wire' = Wire /\ missed' = missed /\ recorded'[view.id] = recorded[view.id] /\ last'[view.id] = last[view.id]
      BY <1>8, <1>19, <2>4
    <3>2. NoneLost'
      BY <1>3, <2>1, <3>1 DEF NoneLost
    <3> QED
      BY <2>1, <3>1, <3>2
  <2>5. CASE view.id = a
    <3>1. recorded'[view.id] = Append(recorded[a], rec) /\ last'[view.id] = last[a] + 1
      BY <1>8, <2>5
    <3>2. \A i \in 1..Len(recorded'[view.id]) :
            recorded'[view.id][i] = rec \/ \E k \in 1..Len(recorded[view.id]) : recorded'[view.id][i] = recorded[view.id][k]
      <4>1. \A i \in 1..Len(Append(recorded[a], rec)) :
              Append(recorded[a], rec)[i] = rec \/ \E k \in 1..Len(recorded[a]) : Append(recorded[a], rec)[i] = recorded[a][k]
        BY <1>5, <1>7, JoinedFrom
      <4> QED
        BY <2>5, <3>1, <4>1
    <3>3. CASE Wire' = Wire /\ missed' = missed \cup {rec}
      <4>1. NoneLost'
        <5> SUFFICES ASSUME NEW i \in 1..Len(recorded'[view.id])
                     PROVE  \/ \E j \in 1..Len(view.records) : view.records[j] = recorded'[view.id][i]
                            \/ \E k \in 1..Len(Wire') : Wire'[k] = recorded'[view.id][i]
                            \/ recorded'[view.id][i] \in missed'
          BY <1>3 DEF NoneLost
        <5>1. CASE recorded'[view.id][i] = rec
          BY <3>3, <5>1
        <5>2. ASSUME NEW k \in 1..Len(recorded[view.id]), recorded'[view.id][i] = recorded[view.id][k]
              PROVE  \/ \E j \in 1..Len(view.records) : view.records[j] = recorded'[view.id][i]
                     \/ \E n \in 1..Len(Wire') : Wire'[n] = recorded'[view.id][i]
                     \/ recorded'[view.id][i] \in missed'
          BY <2>1, <3>3, <5>2 DEF NoneLost
        <5> QED
          BY <3>2, <5>1, <5>2
      <4>2. NoneOver(Wire, last'[view.id])
        BY <1>19, <2>1, NoneOverMore
      <4> QED
        BY <2>1, <2>3, <3>3, <4>1, <4>2
    <3>4. CASE Wire' = Append(Wire, rec) /\ missed' = missed
      <4>1. /\ Len(Wire) + 1 \in 1..Len(Append(Wire, rec)) /\ Append(Wire, rec)[Len(Wire) + 1] = rec
            /\ \A i \in 1..Len(Wire) : i \in 1..Len(Append(Wire, rec)) /\ Append(Wire, rec)[i] = Wire[i]
        BY <1>7, <1>19, JoinedIs
      <4>2. NoneLost'
        <5> SUFFICES ASSUME NEW i \in 1..Len(recorded'[view.id])
                     PROVE  \/ \E j \in 1..Len(view.records) : view.records[j] = recorded'[view.id][i]
                            \/ \E k \in 1..Len(Wire') : Wire'[k] = recorded'[view.id][i]
                            \/ recorded'[view.id][i] \in missed'
          BY <1>3 DEF NoneLost
        <5>1. CASE recorded'[view.id][i] = rec
          BY <3>4, <4>1, <5>1
        <5>2. ASSUME NEW k \in 1..Len(recorded[view.id]), recorded'[view.id][i] = recorded[view.id][k]
              PROVE  \/ \E j \in 1..Len(view.records) : view.records[j] = recorded'[view.id][i]
                     \/ \E n \in 1..Len(Wire') : Wire'[n] = recorded'[view.id][i]
                     \/ recorded'[view.id][i] \in missed'
          BY <2>1, <3>4, <4>1, <5>2 DEF NoneLost
        <5> QED
          BY <3>2, <5>1, <5>2
      <4>3. Ordered(Append(Wire, rec)) /\ NoneOver(Append(Wire, rec), last[a] + 1)
        BY <1>5, <1>6, <1>7, <1>19, <2>1, <2>5, JoinedIs
      <4>4. Past(Append(Wire, rec), view.lastSeq)
        <5>1. view.lastSeq < rec.seq
          BY <1>5, <1>7, <2>1, <2>2, <2>5
        <5> QED
          BY <1>7, <1>19, <2>1, <5>1, JoinedIs
      <4> QED
        BY <2>3, <3>1, <3>4, <4>2, <4>3, <4>4
    <3> QED
      BY <1>19, <2>5, <3>3, <3>4
  <2> QED
    BY <2>4, <2>5
<1>21. FoundGood'
  <2> SUFFICES ASSUME ~stray, view.es # 0, view.ran, ~strained, Queries = {}, view.id \notin renumbered
               PROVE  Finds(view.found)' /\ \A i \in 1..Len(view.found) : Past(Wire', view.found[i].seq)
    BY <1>1, <1>3, <1>18 DEF FoundGood
  <2>1. Finds(view.found) /\ \A i \in 1..Len(view.found) : Past(Wire, view.found[i].seq)
    BY <1>0 DEF FoundGood
  <2>2. view.found \in Seq(Captured)
    BY <1>0, ViewsAre DEF PageTypes
  <2>3. Ordered(view.found) /\ AllOf(view.found, view.id) /\ NoneOver(view.found, last[view.id])
        /\ \A i \in 1..Len(view.found) : Matches(view.found[i], only)
    BY <2>1 DEF Finds, FoundIn
  <2>4. NoneOver(view.found, last'[view.id])
    BY <1>19, <2>2, <2>3, NoneOverMore
  <2>5. CASE view.id # a
    <3>1. Wire' = Wire /\ missed' = missed /\ recorded'[view.id] = recorded[view.id] /\ last'[view.id] = last[view.id]
      BY <1>8, <1>19, <2>5
    <3> QED
      BY <1>3, <2>1, <3>1 DEF Finds, FoundIn
  <2>6. CASE view.id = a
    <3>1. recorded'[view.id] = Append(recorded[a], rec)
      BY <1>8, <2>6
    <3>2. \A i \in 1..Len(recorded'[view.id]) :
            recorded'[view.id][i] = rec \/ \E k \in 1..Len(recorded[view.id]) : recorded'[view.id][i] = recorded[view.id][k]
      <4>1. \A i \in 1..Len(Append(recorded[a], rec)) :
              Append(recorded[a], rec)[i] = rec \/ \E k \in 1..Len(recorded[a]) : Append(recorded[a], rec)[i] = recorded[a][k]
        BY <1>5, <1>7, JoinedFrom
      <4> QED
        BY <2>6, <3>1, <4>1
    <3>3. /\ \A x \in missed : x \in missed'
          /\ \A k \in 1..Len(Wire) : k \in 1..Len(Wire') /\ Wire'[k] = Wire[k]
          /\ rec \in missed' \/ \E k \in 1..Len(Wire') : Wire'[k] = rec
      <4>1. /\ Len(Wire) + 1 \in 1..Len(Append(Wire, rec)) /\ Append(Wire, rec)[Len(Wire) + 1] = rec
            /\ \A i \in 1..Len(Wire) : i \in 1..Len(Append(Wire, rec)) /\ Append(Wire, rec)[i] = Wire[i]
        BY <1>7, <1>19, JoinedIs
      <4> QED
        BY <1>19, <2>6, <4>1
    <3>4. ASSUME NEW i \in 1..Len(recorded'[view.id]), Matches(recorded'[view.id][i], only)
          PROVE  \/ recorded'[view.id][i] \in missed'
                 \/ \E k \in 1..Len(Wire') : Wire'[k] = recorded'[view.id][i]
                 \/ \E j \in 1..Len(view.found) : view.found[j] = recorded'[view.id][i]
      <4>1. CASE recorded'[view.id][i] = rec
        BY <3>3, <4>1
      <4>2. ASSUME NEW k \in 1..Len(recorded[view.id]), recorded'[view.id][i] = recorded[view.id][k]
            PROVE  \/ recorded'[view.id][i] \in missed'
                   \/ \E n \in 1..Len(Wire') : Wire'[n] = recorded'[view.id][i]
                   \/ \E j \in 1..Len(view.found) : view.found[j] = recorded'[view.id][i]
        BY <2>1, <3>3, <3>4, <4>2 DEF Finds, FoundIn
      <4> QED
        BY <3>2, <4>1, <4>2
    <3>5. Finds(view.found)'
      BY <1>3, <2>3, <2>4, <3>4 DEF Finds, FoundIn
    <3>6. ASSUME NEW i \in 1..Len(view.found) PROVE Past(Wire', view.found[i].seq)
      <4>1. Past(Wire, view.found[i].seq)
        BY <2>1
      <4>2. view.found[i].seq <= last[a] /\ view.found[i].seq \in Nat
        BY <2>2, <2>3, <2>6, RecordsAre DEF NoneOver
      <4>3. view.found[i].seq < rec.seq
        BY <1>5, <1>7, <4>2
      <4>4. Past(Append(Wire, rec), view.found[i].seq)
        BY <1>7, <1>19, <4>1, <4>3, JoinedIs
      <4> QED
        BY <1>19, <4>1, <4>4
    <3> QED
      BY <3>5, <3>6
  <2> QED
    BY <2>5, <2>6
<1>22. AnswerGood'
  <2> SUFFICES ASSUME ~stray, view.es # 0, ~strained, ~(a = view.id /\ Queries # {}), view.ran \/ mode = "query",
                      NEW q \in Queries
               PROVE  /\ Wire' = <<>> /\ q.only = only
                      /\ q.at = "served" /\ view.id \notin renumbered => Finds(q.recs)'
    BY <1>1, <1>3, <1>18 DEF AnswerGood
  <2>1. a # view.id
    OBVIOUS
  <2>2. /\ Wire = <<>> /\ q.only = only
        /\ q.at = "served" /\ view.id \notin renumbered => Finds(q.recs)
    BY <1>0 DEF AnswerGood
  <2>3. Wire' = Wire /\ missed' = missed /\ recorded'[view.id] = recorded[view.id] /\ last'[view.id] = last[view.id]
    BY <1>8, <1>19, <2>1
  <2> QED
    BY <1>3, <2>2, <2>3 DEF Finds, FoundIn
<1> QED
  BY <1>4, <1>11, <1>12, <1>13, <1>14, <1>15, <1>16, <1>17, <1>20, <1>21, <1>22 DEF PageInv

(***************************************************************************)
(* Steps that leave the hub, the streams and the selection alone.          *)
SelectionRests ==
  UNCHANGED <<recorded, last, sources, view, renumbered, stray, missed>>

(* So does all that is said of the streams when the selection does. *)
LEMMA SelectionRestsKeeps ==
  ASSUME PageInv, SelectionRests
  PROVE  /\ BuffersOwn' /\ StreamsOwn' /\ SelectionOwn' /\ ViewOrder' /\ StreamFollows' /\ Wire' = Wire
<1>1. BuffersOwn /\ StreamsOwn /\ SelectionOwn /\ ViewOrder /\ StreamFollows
  BY DEF PageInv
<1>2. /\ recorded' = recorded /\ last' = last /\ sources' = sources /\ view' = view /\ renumbered' = renumbered
      /\ stray' = stray /\ missed' = missed
  BY DEF SelectionRests
<1>3. Wire' = Wire
  BY <1>2 DEF Wire
<1>4. BuffersOwn' /\ StreamsOwn' /\ SelectionOwn'
  BY <1>1, <1>2 DEF BuffersOwn, StreamsOwn, SelectionOwn
<1>5. ViewOrder'
  BY <1>1, <1>2 DEF ViewOrder
<1>6. StreamFollows'
  BY <1>1, <1>2, <1>3 DEF StreamFollows, NoneLost
<1> QED
  BY <1>3, <1>4, <1>5, <1>6

(* Types, where the selection rests and the rest keeps its own. *)
LEMMA SelectionRestsTypes ==
  ASSUME PageTypes, SelectionRests, captured' = captured, requests' \in SUBSET Asks,
         screen' \in {"landing", "dashboard", "lock"}, expanded' \in {"overview"} \cup Panels,
         mode' \in {"live", "query"}, only' \in SUBSET RecordKinds,
         dirty' \in SUBSET Panels, raf' \in BOOLEAN, painted' \in [Panels -> Seq(Captured)]
  PROVE  PageTypes'
BY DEF PageTypes, SelectionRests

(* What is found stays, and so does what is asked. *)
LEMMA FoundRests ==
  ASSUME PageInv, SelectionRests, Queries' = Queries, only' = only, strained' = strained,
         view.es # 0 => view.ran \/ mode' = mode
  PROVE  FoundGood' /\ AnswerGood'
<1>1. FoundGood /\ AnswerGood
  BY DEF PageInv
<1>2. /\ recorded' = recorded /\ last' = last /\ sources' = sources /\ view' = view /\ renumbered' = renumbered
      /\ stray' = stray /\ missed' = missed
  BY DEF SelectionRests
<1>3. Wire' = Wire
  BY <1>2 DEF Wire
<1>4. FoundGood'
  BY <1>1, <1>2, <1>3 DEF FoundGood, Finds, FoundIn
<1>5. AnswerGood'
  BY <1>1, <1>2, <1>3 DEF AnswerGood, Finds, FoundIn
<1> QED
  BY <1>4, <1>5

(* A query that overlapped another is promised nothing. *)
LEMMA StrainedPasses == ASSUME strained' PROVE FoundGood' /\ AnswerGood'
BY DEF FoundGood, AnswerGood

(* A request more or less that is no query of the agent shown. *)
LEMMA QueriesRest ==
  ASSUME PageInv, view'.id = view.id, NEW q, q.what # "query" \/ q.of # view.id,
         requests' = requests \ {q} \/ requests' = requests \cup {q}
  PROVE  Queries' = Queries
BY DEF Queries

(* Answers fewer than before are those of before. *)
LEMMA FewerAnswers ==
  ASSUME PageInv, requests' \subseteq requests, UNCHANGED <<last, renumbered>>
  PROVE  AnswersOwn' /\ requests' \in SUBSET Asks
BY DEF PageInv, PageTypes, AnswersOwn

(* One more request. *)
LEMMA AskedIs ==
  ASSUME PageInv, NEW what \in {"snapshot", "query", "clear"}, NEW a \in Watched, NEW kinds \in SUBSET RecordKinds,
         asked < MaxAsked \/ picks < MaxPicks
  PROVE  /\ [n |-> Numbered + 1, what |-> what, of |-> a, at |-> "sent", only |-> kinds, recs |-> <<>>] \in Asks
         /\ [n |-> Numbered, what |-> what, of |-> a, at |-> "sent", only |-> kinds, recs |-> <<>>] \in Asks
<1>1. picks \in 0..MaxPicks /\ asked \in 0..MaxAsked /\ MaxPicks \in Nat /\ MaxAsked \in Nat
  BY PageSizesAre DEF PageInv, CountTypes
<1>2. Numbered + 1 \in 0..(MaxPicks + MaxAsked) /\ Numbered \in 0..(MaxPicks + MaxAsked)
  BY <1>1 DEF Numbered
<1> QED
  BY <1>2, NoRecords DEF Asks

(* A request just sent has no answer yet. *)
LEMMA MoreAnswers ==
  ASSUME PageInv, NEW x \in Asks, x.recs = <<>>, requests' \subseteq requests \cup {x}, UNCHANGED <<last, renumbered>>
  PROVE  AnswersOwn' /\ requests' \in SUBSET Asks
<1>1. requests \subseteq Asks /\ AnswersOwn
  BY DEF PageInv, PageTypes
<1>2. requests' \in SUBSET Asks
  BY <1>1
<1>3. AnswersOwn'
  BY <1>1, NoRecords DEF AnswersOwn
<1> QED
  BY <1>2, <1>3

(* What a panel shows. *)
LEMMA ContentIs ==
  ASSUME NEW v \in Views, NEW p \in Panels, NEW m
  PROVE  Content(p, v, m) \in Seq(Captured)
<1>1. v.records \in Seq(Captured) /\ v.found \in Seq(Captured)
  BY ViewsAre
<1>2. ASSUME NEW s \in Seq(Captured) PROVE Picked(s, {i \in DOMAIN s : s[i].kind = "log"}) \in Seq(Captured)
  <2>1. {i \in DOMAIN s : s[i].kind = "log"} \in SUBSET (1..Len(s))
    BY RecordsAre
  <2> QED
    BY <2>1, PickedIs
<1>3. Picked(v.records, {i \in DOMAIN v.records : v.records[i].kind = "log"}) \in Seq(Captured)
  BY <1>1, <1>2
<1> QED
  BY <1>1, <1>3 DEF Content

(* A flush draws what is dirty and in sight, and forgets those marks only. *)
LEMMA FlushIs ==
  ASSUME PageTypes, NEW v \in Views, NEW m, NEW sight \in SUBSET Panels, FlushFor(v, m, sight)
  PROVE  /\ dirty' \in SUBSET Panels /\ painted' \in [Panels -> Seq(Captured)]
         /\ v # Nothing => dirty' = dirty \ sight
         /\ v # Nothing => \A p \in Panels : painted'[p] = IF p \in dirty \cap sight THEN Content(p, v, m) ELSE painted[p]
<1>1. dirty \in SUBSET Panels /\ painted \in [Panels -> Seq(Captured)]
  BY DEF PageTypes
<1>2. \A p \in Panels : Content(p, v, m) \in Seq(Captured)
  BY ContentIs
<1>3. CASE v = Nothing
  BY <1>1, <1>3 DEF FlushFor
<1>4. CASE v # Nothing
  <2>1. dirty' = dirty \ sight
        /\ painted' = [p \in Panels |-> IF p \in dirty \cap sight THEN Content(p, v, m) ELSE painted[p]]
    BY <1>4 DEF FlushFor
  <2> QED
    BY <1>1, <1>2, <2>1
<1> QED
  BY <1>3, <1>4

(* A frame, and what comes into sight. *)
LEMMA SightKeeps ==
  ASSUME PageInv, AnimationFrame \/ \E to \in {"overview"} \cup Panels : Expand(to)
  PROVE  PageInv'
<1>0. PageTypes /\ CountTypes /\ ToldTypes /\ PanelsCatchUp /\ view \in Views
  BY DEF PageInv, PageTypes
<1>1. PICK to \in {"overview"} \cup Panels : \/ AnimationFrame /\ to = expanded
                                            \/ Expand(to)
  BY <1>0 DEF PageTypes
<1>2. /\ SelectionRests /\ requests' = requests /\ captured' = captured /\ screen' = screen /\ mode' = mode /\ only' = only
      /\ picks' = picks /\ asked' = asked /\ upsets' = upsets /\ strained' = strained
      /\ raf' = FALSE /\ expanded' = to
      /\ FlushFor(view, mode, {p \in Panels : to \in {"overview", p}})
  <2>1. CASE AnimationFrame /\ to = expanded
    BY <2>1 DEF AnimationFrame, SelectionRests, hub, chosen, counts, told, InSight
  <2>2. CASE Expand(to)
    BY <2>2 DEF Expand, SelectionRests, hub, counts, told
  <2> QED
    BY <1>1, <2>1, <2>2
<1>3. view' = view
  BY <1>2 DEF SelectionRests
<1>4. /\ dirty' \in SUBSET Panels /\ painted' \in [Panels -> Seq(Captured)]
      /\ view # Nothing => dirty' = dirty \ {p \in Panels : to \in {"overview", p}}
      /\ view # Nothing => \A p \in Panels : painted'[p] =
           IF p \in dirty \cap {r \in Panels : to \in {"overview", r}} THEN Content(p, view, mode) ELSE painted[p]
  <2>1. {p \in Panels : to \in {"overview", p}} \in SUBSET Panels
    OBVIOUS
  <2> QED
    BY <1>0, <1>2, <2>1, FlushIs
<1>5. PageTypes'
  BY <1>0, <1>2, <1>4, SelectionRestsTypes DEF PageTypes
<1>6. CountTypes' /\ ToldTypes'
  BY <1>0, <1>2 DEF CountTypes, ToldTypes, SelectionRests
<1>7. AnswersOwn'
  BY <1>2, FewerAnswers DEF SelectionRests
<1>8. Queries' = Queries
  BY <1>2, <1>3 DEF Queries
<1>9. FoundGood' /\ AnswerGood'
  BY <1>2, <1>8, FoundRests
<1>10. PanelsCatchUp'
  <2> SUFFICES ASSUME view # Nothing, screen = "dashboard", NEW p \in Panels, painted'[p] # Content(p, view, mode)
               PROVE  p \in dirty' /\ (to \in {"overview", p} => FALSE)
    BY <1>2, <1>3 DEF PanelsCatchUp, InSight, Content
  <2>1. p \notin dirty \cap {r \in Panels : to \in {"overview", r}} /\ painted[p] # Content(p, view, mode)
    BY <1>4
  <2>2. p \in dirty
    BY <1>0, <2>1 DEF PanelsCatchUp
  <2> QED
    BY <1>4, <2>1, <2>2
<1> QED
  BY <1>2, <1>5, <1>6, <1>7, <1>9, <1>10, SelectionRestsKeeps DEF PageInv

(* A request that is refused or fails, other than for a buffer. *)
LEMMA RefusalKeeps ==
  ASSUME PageInv, NEW q \in requests, Refused(q) \/ RequestFails(q)
  PROVE  PageInv'
<1>0. PageTypes /\ CountTypes /\ ToldTypes /\ PanelsCatchUp /\ view \in Views
  BY DEF PageInv, PageTypes
<1>1. /\ SelectionRests /\ requests' = requests \ {q} /\ captured' = captured /\ mode' = mode /\ only' = only
      /\ picks' = picks /\ asked' = asked /\ upsets' = upsets /\ strained' = (strained \/ q.what = "query")
  BY DEF Refused, RequestFails, SelectionRests, hub, chosen, counts, told
<1>2. view' = view
  BY <1>1 DEF SelectionRests
<1>3. AnswersOwn' /\ requests' \in SUBSET Asks
  BY <1>1, FewerAnswers DEF SelectionRests
<1>4. /\ screen' \in {"landing", "dashboard", "lock"} /\ expanded' \in {"overview"} \cup Panels
      /\ dirty' \in SUBSET Panels /\ raf' \in BOOLEAN /\ painted' \in [Panels -> Seq(Captured)]
      /\ PanelsCatchUp'
  <2>1. CASE Refused(q)
    <3>1. screen' = "lock" /\ expanded' = "overview" /\ raf' = FALSE /\ FlushFor(view, mode, Panels)
      BY <2>1 DEF Refused, LeaveFor
    <3>2. dirty' \in SUBSET Panels /\ painted' \in [Panels -> Seq(Captured)]
      BY <1>0, <3>1, FlushIs
    <3>3. PanelsCatchUp'
      BY <3>1 DEF PanelsCatchUp
    <3> QED
      BY <3>1, <3>2, <3>3
  <2>2. CASE RequestFails(q)
    <3>1. screen' = screen /\ expanded' = expanded /\ dirty' = dirty /\ raf' = raf /\ painted' = painted
      BY <2>2 DEF RequestFails, chosen, drawing
    <3>2. PanelsCatchUp'
      BY <1>0, <1>1, <1>2, <3>1 DEF PanelsCatchUp, InSight, Content
    <3> QED
      BY <1>0, <3>1, <3>2 DEF PageTypes
  <2> QED
    BY <2>1, <2>2
<1>5. PageTypes'
  BY <1>0, <1>1, <1>3, <1>4, SelectionRestsTypes DEF PageTypes
<1>6. CountTypes' /\ ToldTypes'
  BY <1>0, <1>1 DEF CountTypes, ToldTypes, SelectionRests
<1>7. FoundGood' /\ AnswerGood'
  <2>1. CASE q.what = "query"
    BY <1>1, <2>1, StrainedPasses
  <2>2. CASE q.what # "query"
    <3>1. Queries' = Queries
      BY <1>1, <1>2, <2>2, QueriesRest
    <3>2. strained' = strained
      BY <1>0, <1>1, <2>2 DEF ToldTypes
    <3> QED
      BY <1>1, <3>1, <3>2, FoundRests
  <2> QED
    BY <2>1, <2>2
<1> QED
  BY <1>1, <1>3, <1>4, <1>5, <1>6, <1>7, SelectionRestsKeeps DEF PageInv

(* The operator asks for a clear. *)
LEMMA PressClearKeeps ==
  ASSUME PageInv, PressClear
  PROVE  PageInv'
<1>0. PageTypes /\ CountTypes /\ ToldTypes /\ PanelsCatchUp /\ view \in Views /\ SelectionOwn
  BY DEF PageInv, PageTypes
<1> DEFINE x == [n |-> Numbered + 1, what |-> "clear", of |-> view.id, at |-> "sent", only |-> {}, recs |-> <<>>]
<1>1. /\ SelectionRests /\ requests' = requests \cup {x}
      /\ view' = view /\ screen' = screen /\ expanded' = expanded /\ mode' = mode /\ only' = only
      /\ dirty' = dirty /\ raf' = raf /\ painted' = painted /\ captured' = captured
      /\ picks' = picks /\ asked' = asked + 1 /\ upsets' = upsets /\ strained' = strained /\ asked < MaxAsked
      /\ view # Nothing
  BY DEF PressClear, SelectionRests, hub, chosen, drawing, told
<1>2. x \in Asks /\ x.recs = <<>> /\ x.what = "clear"
  <2>1. view.id \in Watched
    BY <1>0, <1>1 DEF SelectionOwn
  <2>2. {} \in SUBSET RecordKinds
    OBVIOUS
  <2> QED
    BY <1>1, <2>1, <2>2, AskedIs
<1> HIDE DEF x
<1>3. AnswersOwn' /\ requests' \in SUBSET Asks
  <2>1. UNCHANGED <<last, renumbered>>
    BY <1>1 DEF SelectionRests
  <2> QED
    BY <1>1, <1>2, <2>1, MoreAnswers
<1>4. Queries' = Queries
  BY <1>1, <1>2, QueriesRest
<1>5. FoundGood' /\ AnswerGood'
  BY <1>1, <1>4, FoundRests
<1>6. PanelsCatchUp'
  BY <1>0, <1>1 DEF PanelsCatchUp, InSight, Content
<1>7. PageTypes'
  BY <1>0, <1>1, <1>3, SelectionRestsTypes DEF PageTypes
<1>8. CountTypes' /\ ToldTypes'
  <2>1. asked + 1 \in 0..MaxAsked
    BY <1>0, <1>1, PageSizesAre DEF CountTypes
  <2> QED
    BY <1>0, <1>1, <2>1 DEF CountTypes, ToldTypes, SelectionRests
<1> QED
  BY <1>1, <1>3, <1>5, <1>6, <1>7, <1>8, SelectionRestsKeeps DEF PageInv

(***************************************************************************)
(* Queries.                                                                *)
LEMMA QueryRunsKeeps ==
  ASSUME PageInv, SelectionRests, view # Nothing, QueryRuns(requests), only' \in SUBSET RecordKinds,
         strained' = (Queries # {} \/ Wire # <<>>)
  PROVE  /\ requests' \in SUBSET Asks /\ AnswersOwn' /\ asked' \in 0..MaxAsked /\ strained' \in BOOLEAN
         /\ FoundGood' /\ AnswerGood'
<1>0. PageTypes /\ CountTypes /\ SelectionOwn
  BY DEF PageInv
<1> DEFINE x == [n |-> Numbered + 1, what |-> "query", of |-> view.id, at |-> "sent", only |-> only', recs |-> <<>>]
<1>1. requests' = requests \cup {x} /\ asked < MaxAsked /\ asked' = asked + 1
  BY DEF QueryRuns
<1>2. x \in Asks /\ x.recs = <<>> /\ x.what = "query" /\ x.of = view.id /\ x.at = "sent" /\ x.only = only'
  <2>1. view.id \in Watched
    BY <1>0 DEF SelectionOwn
  <2> QED
    BY <1>1, <2>1, AskedIs
<1> HIDE DEF x
<1>3. view' = view /\ UNCHANGED <<last, renumbered>>
  BY DEF SelectionRests
<1>4. requests' \in SUBSET Asks /\ AnswersOwn'
  BY <1>1, <1>2, <1>3, MoreAnswers
<1>5. asked' \in 0..MaxAsked
  BY <1>0, <1>1, PageSizesAre DEF CountTypes
<1>6. Queries' = Queries \cup {x} /\ Wire' = Wire
  BY <1>1, <1>2, <1>3, SelectionRestsKeeps DEF Queries
<1>7. FoundGood'
  BY <1>6 DEF FoundGood
<1>8. AnswerGood'
  <2> SUFFICES ASSUME ~strained', NEW q \in Queries'
               PROVE  Wire' = <<>> /\ q.only = only' /\ q.at # "served"
    BY DEF AnswerGood
  <2>1. Queries = {} /\ Wire = <<>>
    OBVIOUS
  <2> QED
    BY <1>2, <1>6, <2>1
<1> QED
  BY <1>4, <1>5, <1>7, <1>8

(* A query is asked for. *)
LEMMA AskingKeeps ==
  ASSUME PageInv, SetLogSource \/ \E kinds \in {{}, {"log"}} : RunQuery(kinds)
  PROVE  PageInv'
<1>0. PageTypes /\ CountTypes /\ ToldTypes /\ PanelsCatchUp /\ view \in Views /\ SelectionOwn
  BY DEF PageInv, PageTypes
<1>1. /\ SelectionRests /\ screen' = screen /\ expanded' = expanded
      /\ dirty' = dirty /\ raf' = raf /\ captured' = captured /\ picks' = picks /\ upsets' = upsets
  BY DEF SetLogSource, RunQuery, SelectionRests, hub, drawing
<1>2. view' = view
  BY <1>1 DEF SelectionRests
<1>3. /\ mode' \in {"live", "query"} /\ only' \in SUBSET RecordKinds /\ painted' \in [Panels -> Seq(Captured)]
      /\ PanelsCatchUp'
  <2>1. CASE SetLogSource
    <3>1. mode' \in {"live", "query"} /\ only' = only /\ painted' = [painted EXCEPT !["logs"] = Content("logs", view, mode')]
      BY <2>1 DEF SetLogSource
    <3>2. Content("logs", view, mode') \in Seq(Captured)
      BY <1>0, ContentIs DEF Panels
    <3>3. painted \in [Panels -> Seq(Captured)] /\ only \in SUBSET RecordKinds
      BY <1>0 DEF PageTypes
    <3>4. /\ painted' \in [Panels -> Seq(Captured)] /\ painted'["frames"] = painted["frames"]
          /\ painted'["logs"] = Content("logs", view, mode')
      BY <3>1, <3>2, <3>3 DEF Panels
    <3>5. Content("frames", view, mode') = Content("frames", view, mode)
      BY DEF Content
    <3>6. PanelsCatchUp'
      <4> SUFFICES ASSUME view # Nothing, screen = "dashboard", NEW p \in Panels, painted'[p] # Content(p, view, mode')
                   PROVE  p \in dirty /\ (InSight(p) => raf)
        BY <1>1, <1>2 DEF PanelsCatchUp, InSight, Content
      <4>1. p = "frames"
        BY <3>4 DEF Panels
      <4> QED
        BY <1>0, <3>4, <3>5, <4>1 DEF PanelsCatchUp
    <3> QED
      BY <3>1, <3>3, <3>4, <3>6
  <2>2. ASSUME NEW kinds \in {{}, {"log"}}, RunQuery(kinds)
        PROVE  /\ mode' \in {"live", "query"} /\ only' \in SUBSET RecordKinds /\ painted' \in [Panels -> Seq(Captured)]
               /\ PanelsCatchUp'
    <3>1. mode' = mode /\ only' = kinds /\ painted' = painted
      BY <2>2 DEF RunQuery, drawing
    <3>2. kinds \in SUBSET RecordKinds
      BY DEF RecordKinds
    <3>3. PanelsCatchUp'
      BY <1>0, <1>1, <1>2, <3>1 DEF PanelsCatchUp, InSight, Content
    <3> QED
      BY <1>0, <3>1, <3>2, <3>3 DEF PageTypes
  <2> QED
    BY <2>1, <2>2
<1>4. /\ requests' \in SUBSET Asks /\ AnswersOwn' /\ asked' \in 0..MaxAsked /\ strained' \in BOOLEAN
      /\ FoundGood' /\ AnswerGood'
  <2>1. CASE view # Nothing /\ QueryRuns(requests) /\ strained' = (Queries # {} \/ Wire # <<>>)
    BY <1>1, <1>3, <2>1, QueryRunsKeeps
  <2>2. CASE SetLogSource /\ ~(mode' = "query" /\ view # Nothing /\ ~view.ran)
    <3>1. requests' = requests /\ asked' = asked /\ strained' = strained /\ only' = only
          /\ mode' = IF mode = "live" THEN "query" ELSE "live"
      BY <2>2 DEF SetLogSource
    <3>2. requests' \in SUBSET Asks /\ AnswersOwn'
      BY <1>1, <3>1, FewerAnswers DEF SelectionRests
    <3>3. Queries' = Queries
      BY <1>2, <3>1 DEF Queries
    <3>4. view = Nothing => view.es = 0
      BY FreshIs DEF Nothing
    <3>5. FoundGood' /\ AnswerGood'
      <4>1. CASE view.es # 0 /\ view.ran
        BY <1>1, <3>1, <3>3, <4>1, FoundRests
      <4>2. CASE view.es = 0
        BY <1>2, <4>2 DEF FoundGood, AnswerGood
      <4>3. CASE view.es # 0 /\ ~view.ran
        <5>1. mode' # "query"
          BY <2>2, <3>4, <4>3
        <5> QED
          BY <1>2, <4>3, <5>1 DEF FoundGood, AnswerGood
      <4> QED
        BY <4>1, <4>2, <4>3
    <3> QED
      BY <1>0, <3>1, <3>2, <3>5 DEF CountTypes, ToldTypes
  <2> QED
    BY <2>1, <2>2 DEF SetLogSource, RunQuery
<1>5. PageTypes'
  BY <1>0, <1>1, <1>3, <1>4, SelectionRestsTypes DEF PageTypes
<1>6. CountTypes' /\ ToldTypes'
  BY <1>0, <1>1, <1>4 DEF CountTypes, ToldTypes, SelectionRests
<1> QED
  BY <1>1, <1>3, <1>4, <1>5, <1>6, SelectionRestsKeeps DEF PageInv

(* The answer of a query: the last one asked is the one shown. *)
LEMMA QueryHeardKeeps ==
  ASSUME PageInv, NEW q \in requests, QueryHeard(q)
  PROVE  PageInv'
<1>0. /\ PageTypes /\ CountTypes /\ ToldTypes /\ PanelsCatchUp /\ view \in Views /\ SelectionOwn /\ ViewOrder
      /\ StreamFollows /\ AnswerGood
  BY DEF PageInv, PageTypes
<1>1. /\ q.what = "query" /\ q.at = "served" /\ requests' = requests \ {q}
      /\ recorded' = recorded /\ last' = last /\ sources' = sources /\ screen' = screen /\ expanded' = expanded
      /\ mode' = mode /\ only' = only /\ dirty' = dirty /\ raf' = raf /\ captured' = captured /\ picks' = picks
      /\ asked' = asked /\ upsets' = upsets /\ missed' = missed /\ renumbered' = renumbered /\ stray' = stray
  BY DEF QueryHeard, hub, chosen, counts
<1>2. AnswersOwn' /\ requests' \in SUBSET Asks
  BY <1>1, FewerAnswers
<1>3. CASE q.of # view.id \/ mode = "live"
  <2>1. view' = view /\ painted' = painted /\ strained' = (strained \/ q.of = view.id)
    BY <1>3 DEF QueryHeard
  <2>2. SelectionRests
    BY <1>1, <2>1 DEF SelectionRests
  <2>3. PanelsCatchUp'
    BY <1>0, <1>1, <2>1 DEF PanelsCatchUp, InSight, Content
  <2>4. PageTypes'
    BY <1>0, <1>1, <1>2, <2>1, <2>2, SelectionRestsTypes DEF PageTypes
  <2>5. CountTypes' /\ ToldTypes'
    BY <1>0, <1>1, <2>1 DEF CountTypes, ToldTypes
  <2>6. FoundGood' /\ AnswerGood'
    <3>1. CASE q.of = view.id
      BY <2>1, <3>1, StrainedPasses
    <3>2. CASE q.of # view.id
      <4>1. Queries' = Queries
        BY <1>1, <2>1, <3>2, QueriesRest
      <4>2. strained' = strained
        BY <1>0, <2>1, <3>2 DEF ToldTypes
      <4> QED
        BY <1>1, <2>2, <4>1, <4>2, FoundRests
    <3> QED
      BY <3>1, <3>2
  <2> QED
    BY <1>2, <2>2, <2>3, <2>4, <2>5, <2>6, SelectionRestsKeeps DEF PageInv
<1>4. CASE ~(q.of # view.id \/ mode = "live")
  <2>1. /\ view' = [view EXCEPT !.found = q.recs, !.ran = TRUE] /\ painted' = [painted EXCEPT !["logs"] = q.recs]
        /\ strained' = strained
    BY <1>4 DEF QueryHeard
  <2>2. q.of = view.id /\ mode = "query" /\ q.recs \in Seq(Captured) /\ view.id \in Watched
    BY <1>0, <1>4 DEF PageTypes, Asks
  <2>3. /\ view' \in Views /\ view'.id = view.id /\ view'.lastSeq = view.lastSeq /\ view'.records = view.records
        /\ view'.found = q.recs /\ view'.ran = TRUE /\ view'.es = view.es
    BY <1>0, <2>1, <2>2 DEF Views
  <2>4. Wire' = Wire
    BY <1>1, <2>3 DEF Wire
  <2>5. BuffersOwn' /\ StreamsOwn' /\ SelectionOwn'
    <3>1. BuffersOwn /\ StreamsOwn
      BY DEF PageInv
    <3> QED
      BY <1>0, <1>1, <2>2, <2>3, <3>1 DEF BuffersOwn, StreamsOwn, SelectionOwn
  <2>6. ViewOrder'
    BY <1>0, <1>1, <2>3 DEF ViewOrder
  <2>7. StreamFollows'
    BY <1>0, <1>1, <2>3, <2>4 DEF StreamFollows, NoneLost
  <2>8. painted' \in [Panels -> Seq(Captured)] /\ painted'["logs"] = q.recs /\ painted'["frames"] = painted["frames"]
    BY <1>0, <2>1, <2>2 DEF PageTypes, Panels
  <2>9. PanelsCatchUp'
    <3> SUFFICES ASSUME screen = "dashboard", NEW p \in Panels, painted'[p] # Content(p, view', mode')
                 PROVE  p \in dirty /\ (InSight(p) => raf)
      BY <1>1 DEF PanelsCatchUp, InSight
    <3>1. Content("logs", view', mode') = q.recs /\ Content("frames", view', mode') = Content("frames", view, mode)
      BY <1>1, <2>2, <2>3 DEF Content
    <3>2. p = "frames"
      BY <2>8, <3>1 DEF Panels
    <3>3. view # Nothing
      BY <1>0, <2>2, FreshIs, PageSizesAre DEF Nothing
    <3> QED
      BY <1>0, <2>8, <3>1, <3>2, <3>3 DEF PanelsCatchUp
  <2>10. PageTypes'
    BY <1>0, <1>1, <1>2, <2>3, <2>8 DEF PageTypes
  <2>11. CountTypes' /\ ToldTypes'
    BY <1>0, <1>1, <2>1 DEF CountTypes, ToldTypes
  <2>12. q \in Queries /\ Queries' = Queries \ {q}
    BY <1>1, <2>2, <2>3 DEF Queries
  <2>13. AnswerGood'
    <3> SUFFICES ASSUME ~stray, view.es # 0, ~strained, NEW r \in Queries'
                 PROVE  Wire' = <<>> /\ r.only = only' /\ (r.at = "served" /\ view.id \notin renumbered => Finds(r.recs)')
      BY <1>1, <2>1, <2>3 DEF AnswerGood
    <3>1. Wire = <<>> /\ r.only = only /\ (r.at = "served" /\ view.id \notin renumbered => Finds(r.recs))
      BY <1>0, <2>2, <2>12 DEF AnswerGood
    <3> QED
      BY <1>1, <2>3, <2>4, <3>1 DEF Finds, FoundIn
  <2>14. FoundGood'
    <3> SUFFICES ASSUME ~stray, view.es # 0, ~strained, view.id \notin renumbered
                 PROVE  Finds(view.found)' /\ \A i \in 1..Len(view'.found) : Past(Wire', view'.found[i].seq)
      BY <1>1, <2>1, <2>3 DEF FoundGood
    <3>1. Wire = <<>> /\ Finds(q.recs)
      BY <1>0, <1>1, <2>2, <2>12 DEF AnswerGood
    <3>2. Finds(view.found)'
      BY <1>1, <2>3, <2>4, <3>1 DEF Finds, FoundIn
    <3> QED
      BY <2>4, <3>1, <3>2, NoRecords
  <2> QED
    BY <1>2, <2>5, <2>6, <2>7, <2>9, <2>10, <2>11, <2>13, <2>14 DEF PageInv
<1> QED
  BY <1>3, <1>4

(***************************************************************************)
(* The hub: a request is served.                                           *)
LEMMA ServeRequestKeeps ==
  ASSUME PageInv, NEW q \in requests, ServeRequest(q)
  PROVE  PageInv'
<1>0. /\ PageTypes /\ CountTypes /\ ToldTypes /\ BuffersOwn /\ StreamsOwn /\ AnswersOwn /\ SelectionOwn
      /\ ViewOrder /\ StreamFollows /\ FoundGood /\ AnswerGood /\ PanelsCatchUp
  BY DEF PageInv
<1> DEFINE recs == IF q.what = "clear" THEN <<>> ELSE Filter(recorded[q.of], q.only)
           q2 == [q EXCEPT !.at = "served", !.recs = recs]
<1>1. /\ requests' = (requests \ {q}) \cup {q2} /\ q.at = "sent"
      /\ recorded' = IF q.what = "clear" THEN [recorded EXCEPT ![q.of] = <<>>] ELSE recorded
      /\ last' = last /\ sources' = sources /\ captured' = captured /\ picks' = picks /\ asked' = asked /\ upsets' = upsets
      /\ missed' = missed /\ renumbered' = renumbered /\ stray' = stray /\ strained' = strained
  BY DEF ServeRequest, counts, told
<1>2. PageRests
  BY DEF ServeRequest, PageRests
<1>3. view' = view /\ screen' = screen /\ expanded' = expanded /\ mode' = mode /\ only' = only
      /\ dirty' = dirty /\ raf' = raf /\ painted' = painted
  BY <1>2 DEF PageRests, chosen, drawing
<1>4. PanelsCatchUp' /\ ViewOrder'
  BY <1>0, <1>1, <1>2, PageRestsKeeps
<1>5. q \in Asks /\ q.of \in Watched /\ recorded[q.of] \in Seq(Captured)
  BY <1>0 DEF PageTypes, Asks
<1>6. /\ recs \in Seq(Captured) /\ AllOf(recs, q.of) /\ NoneOver(recs, last[q.of]) /\ Ordered(recs)
  <2>1. AllOf(recorded[q.of], q.of) /\ Ordered(recorded[q.of]) /\ NoneOver(recorded[q.of], last[q.of])
    BY <1>0, <1>5 DEF BuffersOwn
  <2>2. CASE q.what = "clear"
    BY <2>2, NoRecords
  <2>3. CASE q.what # "clear"
    BY <1>5, <2>1, <2>3, FilterIs
  <2> QED
    BY <2>2, <2>3
<1>7. q.what = "query" => recs = Filter(recorded[q.of], q.only)
  OBVIOUS
<1> HIDE DEF recs
<1>8. q2 \in Asks /\ q2.of = q.of /\ q2.what = q.what /\ q2.only = q.only /\ q2.recs = recs /\ q2.at = "served"
  BY <1>5, <1>6 DEF Asks
<1> HIDE DEF q2
<1>9. /\ recorded' \in [Watched -> Seq(Captured)]
      /\ \A b \in Watched : recorded'[b] = recorded[b] \/ recorded'[b] = <<>>
  <2>1. CASE q.what = "clear"
    BY <1>0, <1>1, <1>5, <2>1, NoRecords DEF PageTypes
  <2>2. CASE q.what # "clear"
    BY <1>0, <1>1, <2>2 DEF PageTypes
  <2> QED
    BY <2>1, <2>2
<1>10. PageTypes'
  BY <1>0, <1>1, <1>3, <1>8, <1>9 DEF PageTypes
<1>11. CountTypes' /\ ToldTypes'
  BY <1>0, <1>1 DEF CountTypes, ToldTypes
<1>12. BuffersOwn'
  BY <1>0, <1>1, <1>9, NoRecords DEF BuffersOwn
<1>13. StreamsOwn' /\ SelectionOwn'
  BY <1>0, <1>1, <1>3 DEF StreamsOwn, SelectionOwn
<1>14. AnswersOwn'
  BY <1>0, <1>1, <1>6, <1>8 DEF AnswersOwn
<1>15. Wire' = Wire
  BY <1>1, <1>3 DEF Wire
<1>16. view.es # 0 => view.id \in Watched /\ (recorded'[view.id] = recorded[view.id] \/ Len(recorded'[view.id]) = 0)
  BY <1>0, <1>9, SelectedIs, EmptySeq
<1>17. StreamFollows'
  <2> SUFFICES ASSUME ~stray, view.es # 0, view.id \notin renumbered
               PROVE  /\ view.lastSeq <= last[view.id]
                      /\ Ordered(Wire) /\ Past(Wire, view.lastSeq) /\ NoneOver(Wire, last[view.id])
                      /\ NoneLost'
    BY <1>1, <1>3, <1>15 DEF StreamFollows
  <2>1. /\ view.lastSeq <= last[view.id]
        /\ Ordered(Wire) /\ Past(Wire, view.lastSeq) /\ NoneOver(Wire, last[view.id]) /\ NoneLost
    BY <1>0 DEF StreamFollows
  <2>2. CASE recorded'[view.id] = recorded[view.id]
    BY <1>1, <1>3, <1>15, <2>1, <2>2 DEF NoneLost
  <2>3. CASE Len(recorded'[view.id]) = 0
    <3>1. \A i \in 1..0 : FALSE
      OBVIOUS
    <3> QED
      BY <1>3, <2>1, <2>3, <3>1 DEF NoneLost
  <2> QED
    BY <1>16, <2>1, <2>2, <2>3
<1>18. ASSUME NEW s, view.es # 0, Finds(s) PROVE Finds(s)'
  <2>1. /\ Ordered(s) /\ AllOf(s, view.id) /\ NoneOver(s, last[view.id])
        /\ \A i \in 1..Len(s) : Matches(s[i], only)
    BY <1>18 DEF Finds, FoundIn
  <2>2. CASE recorded'[view.id] = recorded[view.id]
    BY <1>1, <1>3, <1>15, <1>18, <2>2 DEF Finds, FoundIn
  <2>3. CASE Len(recorded'[view.id]) = 0
    <3>1. \A i \in 1..0 : FALSE
      OBVIOUS
    <3> QED
      BY <1>1, <1>3, <2>1, <2>3, <3>1 DEF Finds, FoundIn
  <2> QED
    BY <1>16, <1>18, <2>2, <2>3
<1>19. \A r \in Queries' : r \in Queries \/ (r = q2 /\ q \in Queries)
  BY <1>1, <1>3, <1>8 DEF Queries
<1>20. FoundGood'
  <2>1. Queries' = {} => Queries = {}
    BY <1>1, <1>3, <1>8 DEF Queries
  <2> SUFFICES ASSUME ~stray, view.es # 0, view.ran, ~strained, Queries = {}, view.id \notin renumbered
               PROVE  Finds(view.found)' /\ \A i \in 1..Len(view.found) : Past(Wire, view.found[i].seq)
    BY <1>1, <1>3, <1>15, <2>1 DEF FoundGood
  <2>2. Finds(view.found) /\ \A i \in 1..Len(view.found) : Past(Wire, view.found[i].seq)
    BY <1>0 DEF FoundGood
  <2>3. Finds(view.found)'
    <3>1. view.found' = view.found
      BY <1>3
    <3>2. ASSUME NEW s, s = view.found PROVE Finds(s)'
      BY <1>18, <2>2, <3>2
    <3> QED
      BY <3>1, <3>2 DEF Finds, FoundIn
  <2> QED
    BY <2>2, <2>3
<1>21. AnswerGood'
  <2> SUFFICES ASSUME ~stray, view.es # 0, ~strained, view.ran \/ mode = "query", NEW r \in Queries'
               PROVE  /\ Wire = <<>> /\ r.only = only
                      /\ r.at = "served" /\ view.id \notin renumbered => Finds(r.recs)'
    BY <1>1, <1>3, <1>15 DEF AnswerGood
  <2>1. CASE r \in Queries
    <3>1. /\ Wire = <<>> /\ r.only = only
          /\ r.at = "served" /\ view.id \notin renumbered => Finds(r.recs)
      BY <1>0, <2>1 DEF AnswerGood
    <3>2. r.at = "served" /\ view.id \notin renumbered => Finds(r.recs)'
      <4>1. ASSUME NEW s, s = r.recs, Finds(s) PROVE Finds(s)'
        BY <1>18, <4>1
      <4> QED
        BY <3>1, <4>1 DEF Finds, FoundIn
    <3> QED
      BY <3>1, <3>2
  <2>2. CASE r = q2 /\ q \in Queries
    <3>1. Wire = <<>> /\ q.only = only
      BY <1>0, <2>2 DEF AnswerGood
    <3>2. q.what = "query" /\ q.of = view.id
      BY <2>2 DEF Queries
    <3>3. recs = Filter(recorded[view.id], only) /\ recorded' = recorded
      BY <1>1, <1>7, <3>1, <3>2
    <3>4. recorded[view.id] \in Seq(Captured)
      BY <1>5, <3>2
    <3>5. /\ \A i \in 1..Len(recs) : Matches(recs[i], only)
          /\ \A k \in 1..Len(recorded[view.id]) :
               Matches(recorded[view.id][k], only) => \E i \in 1..Len(recs) : recs[i] = recorded[view.id][k]
      <4>1. \A s \in Seq(Captured) :
              /\ \A i \in 1..Len(Filter(s, only)) : Matches(Filter(s, only)[i], only)
              /\ \A k \in 1..Len(s) : Matches(s[k], only) => \E i \in 1..Len(Filter(s, only)) : Filter(s, only)[i] = s[k]
        BY FilterIs
      <4> QED
        BY <3>3, <3>4, <4>1
    <3>6. Finds(recs)
      BY <1>6, <3>2, <3>5 DEF Finds, FoundIn
    <3>7. Finds(r.recs)'
      <4>1. r.recs = recs
        BY <1>8, <2>2
      <4>2. ASSUME NEW s, s = recs PROVE Finds(s)'
        BY <1>18, <3>6, <4>2
      <4> QED
        BY <4>1, <4>2 DEF Finds, FoundIn
    <3> QED
      BY <1>8, <2>2, <3>1, <3>7
  <2> QED
    BY <1>19, <2>1, <2>2
<1> QED
  BY <1>4, <1>10, <1>11, <1>12, <1>13, <1>14, <1>17, <1>20, <1>21 DEF PageInv

(***************************************************************************)
(* The hub: a stream is opened, lost, or ended by a restart.               *)
LEMMA FoundStill ==
  ASSUME NEW s, NEW whole, NEW way, NEW way2, NEW lost, NEW lost2, NEW m, NEW kinds, NEW a,
         FoundIn(s, whole, way, lost, m, kinds, a), lost \subseteq lost2,
         way2 = way \/ \A k \in 1..Len(way) : way[k] \in lost2
  PROVE  FoundIn(s, whole, way2, lost2, m, kinds, a)
BY DEF FoundIn

(* Streams that end leave the selection what it had. *)
LEMMA StreamsEnd ==
  ASSUME PageInv, PageRests, requests' = requests, stray' = stray, strained' = strained, UNCHANGED <<picks, asked, captured>>,
         missed \subseteq missed', missed' \subseteq Captured, renumbered \subseteq renumbered', renumbered' \subseteq Watched,
         sources' \in Seq(Streams), Len(sources') = Len(sources),
         \A i \in 1..Len(sources) :
           /\ sources'[i].of = sources[i].of /\ (sources'[i].state = "closed" <=> sources[i].state = "closed")
           /\ sources'[i].wire = sources[i].wire \/ sources'[i].wire = <<>>,
         view.es # 0 => Wire' = Wire \/ (\A k \in 1..Len(Wire) : Wire[k] \in missed'),
         recorded' \in [Watched -> Seq(Captured)], last' \in [Watched -> 0..MaxCaptured],
         \A b \in Watched : \/ recorded'[b] = recorded[b] /\ last'[b] = last[b]
                            \/ recorded'[b] = <<>> /\ last'[b] = 0 /\ b \in renumbered',
         upsets' \in 0..MaxUpsets
  PROVE  PageInv'
<1>0. /\ PageTypes /\ CountTypes /\ ToldTypes /\ BuffersOwn /\ StreamsOwn /\ AnswersOwn /\ SelectionOwn
      /\ ViewOrder /\ StreamFollows /\ FoundGood /\ AnswerGood /\ PanelsCatchUp
  BY DEF PageInv
<1>1. view' = view /\ screen' = screen /\ expanded' = expanded /\ mode' = mode /\ only' = only
      /\ dirty' = dirty /\ raf' = raf /\ painted' = painted
  BY DEF PageRests, chosen, drawing
<1>2. PanelsCatchUp' /\ ViewOrder'
  BY <1>0, PageRestsKeeps
<1>3. \A b \in Watched : last'[b] <= captured'
  <2>1. \A b \in Watched : last[b] <= captured /\ 0 <= captured
    BY <1>0, PageSizesAre DEF PageTypes, CountTypes
  <2> QED
    BY <2>1
<1>4. PageTypes'
  BY <1>0, <1>1, <1>3 DEF PageTypes
<1>5. CountTypes' /\ ToldTypes'
  BY <1>0 DEF CountTypes, ToldTypes
<1>6. BuffersOwn'
  BY <1>0, NoRecords DEF BuffersOwn
<1>7. StreamsOwn'
  BY <1>0, NoRecords DEF StreamsOwn
<1>8. AnswersOwn'
  <2> SUFFICES ASSUME NEW q \in requests
               PROVE  AllOf(q.recs, q.of) /\ (q.of \notin renumbered' => NoneOver(q.recs, last'[q.of]))
    BY DEF AnswersOwn
  <2>1. AllOf(q.recs, q.of) /\ (q.of \notin renumbered => NoneOver(q.recs, last[q.of])) /\ q.of \in Watched
    BY <1>0 DEF AnswersOwn, PageTypes, Asks
  <2> QED
    BY <2>1
<1>9. SelectionOwn'
  <2>1. view.es # 0 => view.es \in 1..Len(sources)
    BY <1>0, StreamsAre
  <2> QED
    BY <1>0, <1>1, <2>1 DEF SelectionOwn
<1>10. Queries' = Queries
  BY <1>1 DEF Queries
<1>11. ASSUME view.es # 0
       PROVE  /\ Wire' = Wire \/ (Wire' = <<>> /\ \A k \in 1..Len(Wire) : Wire[k] \in missed')
              /\ view.id \notin renumbered' => recorded'[view.id] = recorded[view.id] /\ last'[view.id] = last[view.id]
  <2>1. view.es \in 1..Len(sources) /\ Wire = sources[view.es].wire /\ view.id \in Watched
    BY <1>0, <1>11, SelectedIs
  <2>2. Wire' = sources'[view.es].wire
    BY <1>1, <1>11 DEF Wire
  <2>3. Wire' = Wire \/ Wire' = <<>>
    BY <2>1, <2>2
  <2> QED
    BY <1>11, <2>1, <2>3
<1>12. ASSUME view.es # 0, view.id \notin renumbered'
       PROVE  \A s : FoundIn(s, recorded[view.id], Wire, missed, last[view.id], only, view.id)
                       => FoundIn(s, recorded'[view.id], Wire', missed', last'[view.id], only, view.id)
  <2>1. recorded'[view.id] = recorded[view.id] /\ last'[view.id] = last[view.id]
    BY <1>11, <1>12
  <2>2. \A s : FoundIn(s, recorded[view.id], Wire, missed, last[view.id], only, view.id)
                 => FoundIn(s, recorded[view.id], Wire', missed', last[view.id], only, view.id)
    BY <1>12, FoundStill
  <2> QED
    BY <2>1, <2>2
<1>13. StreamFollows'
  <2> SUFFICES ASSUME ~stray, view.es # 0, view.id \notin renumbered'
               PROVE  /\ view.lastSeq <= last'[view.id]
                      /\ Ordered(Wire') /\ Past(Wire', view.lastSeq) /\ NoneOver(Wire', last'[view.id])
                      /\ NoneLost'
    BY <1>1 DEF StreamFollows
  <2>1. /\ view.lastSeq <= last[view.id]
        /\ Ordered(Wire) /\ Past(Wire, view.lastSeq) /\ NoneOver(Wire, last[view.id]) /\ NoneLost
    BY <1>0 DEF StreamFollows
  <2>2. recorded'[view.id] = recorded[view.id] /\ last'[view.id] = last[view.id]
    BY <1>11
  <2>3. CASE Wire' = Wire
    BY <1>1, <2>1, <2>2, <2>3 DEF NoneLost
  <2>4. CASE Wire' = <<>> /\ \A k \in 1..Len(Wire) : Wire[k] \in missed'
    <3>1. NoneLost'
      <4> SUFFICES ASSUME NEW i \in 1..Len(recorded[view.id])
                   PROVE  \/ \E n \in 1..Len(view.records) : view.records[n] = recorded[view.id][i]
                          \/ recorded[view.id][i] \in missed'
        BY <1>1, <2>2 DEF NoneLost
      <4>1. \/ \E n \in 1..Len(view.records) : view.records[n] = recorded[view.id][i]
            \/ \E k \in 1..Len(Wire) : Wire[k] = recorded[view.id][i]
            \/ recorded[view.id][i] \in missed
        BY <2>1 DEF NoneLost
      <4> QED
        BY <2>4, <4>1
    <3> QED
      BY <2>1, <2>2, <2>4, <3>1, NoRecords
  <2> QED
    BY <1>11, <2>3, <2>4
<1>14. FoundGood'
  <2> SUFFICES ASSUME ~stray, view.es # 0, view.ran, ~strained, Queries = {}, view.id \notin renumbered'
               PROVE  Finds(view.found)' /\ \A i \in 1..Len(view.found) : Past(Wire', view.found[i].seq)
    BY <1>1, <1>10 DEF FoundGood
  <2>1. Finds(view.found) /\ \A i \in 1..Len(view.found) : Past(Wire, view.found[i].seq)
    BY <1>0 DEF FoundGood
  <2>2. Finds(view.found)'
    <3>1. FoundIn(view.found, recorded'[view.id], Wire', missed', last'[view.id], only, view.id)
      BY <1>12, <2>1 DEF Finds
    <3> QED
      BY <1>1, <3>1 DEF Finds
  <2> QED
    BY <1>11, <2>1, <2>2, NoRecords
<1>15. AnswerGood'
  <2> SUFFICES ASSUME ~stray, view.es # 0, ~strained, view.ran \/ mode = "query", NEW r \in Queries
               PROVE  /\ Wire' = <<>> /\ r.only = only
                      /\ r.at = "served" /\ view.id \notin renumbered' => Finds(r.recs)'
    BY <1>1, <1>10 DEF AnswerGood
  <2>1. /\ Wire = <<>> /\ r.only = only
        /\ r.at = "served" /\ view.id \notin renumbered => Finds(r.recs)
    BY <1>0 DEF AnswerGood
  <2>2. r.at = "served" /\ view.id \notin renumbered' => Finds(r.recs)'
    <3> SUFFICES ASSUME r.at = "served", view.id \notin renumbered' PROVE Finds(r.recs)'
      OBVIOUS
    <3>1. Finds(r.recs)
      BY <2>1
    <3>2. FoundIn(r.recs, recorded'[view.id], Wire', missed', last'[view.id], only, view.id)
      BY <1>12, <3>1 DEF Finds
    <3> QED
      BY <1>1, <3>2 DEF Finds
  <2> QED
    BY <1>11, <2>1, <2>2
<1> QED
  BY <1>2, <1>4, <1>5, <1>6, <1>7, <1>8, <1>9, <1>13, <1>14, <1>15 DEF PageInv

(* A stream is served. *)
LEMMA ServeStreamKeeps ==
  ASSUME PageInv, NEW j \in DOMAIN sources, ServeStreamOf(j)
  PROVE  PageInv'
<1>0. PageTypes /\ CountTypes /\ ToldTypes
  BY DEF PageInv
<1>1. /\ sources[j].state = "opening" /\ sources' = [sources EXCEPT ![j].state = "open"]
      /\ recorded' = recorded /\ last' = last /\ requests' = requests /\ captured' = captured /\ picks' = picks
      /\ asked' = asked /\ upsets' = upsets
      /\ missed' = missed /\ renumbered' = renumbered /\ stray' = stray /\ strained' = strained
  BY DEF ServeStreamOf, hub, counts, told
<1>2. PageRests
  BY DEF ServeStreamOf, PageRests
<1>3. /\ Len(sources) \in Nat /\ DOMAIN sources = 1..Len(sources)
      /\ \A i \in 1..Len(sources) : sources[i] \in Streams
  BY <1>0, StreamsAre
<1>4. \A i \in 1..Len(sources) :
        /\ sources'[i] \in Streams /\ sources'[i].of = sources[i].of /\ sources'[i].wire = sources[i].wire
        /\ sources'[i].state = "closed" <=> sources[i].state = "closed"
  BY <1>1, <1>3 DEF Streams
<1>5. sources' \in Seq(Streams) /\ Len(sources') = Len(sources)
  <2>1. sources' = [i \in 1..Len(sources) |-> sources'[i]]
    BY <1>1, <1>3
  <2>2. sources' \in [1..Len(sources) -> Streams]
    BY <1>4, <2>1
  <2> QED
    BY <1>3, <2>2, SameLength
<1>6. Wire' = Wire
  <2>1. view' = view
    BY <1>2 DEF PageRests
  <2> QED
    BY <1>0, <1>4, <2>1, StreamsAre DEF Wire
<1>7. /\ recorded' \in [Watched -> Seq(Captured)] /\ last' \in [Watched -> 0..MaxCaptured]
      /\ missed' \subseteq Captured /\ renumbered' \subseteq Watched /\ upsets' \in 0..MaxUpsets
  BY <1>0, <1>1 DEF PageTypes, ToldTypes, CountTypes
<1> QED
  BY <1>1, <1>2, <1>4, <1>5, <1>6, <1>7, StreamsEnd

(* A stream is lost. *)
LEMMA StreamLostKeeps ==
  ASSUME PageInv, NEW j \in DOMAIN sources, StreamLost(j)
  PROVE  PageInv'
<1>0. PageTypes /\ CountTypes /\ ToldTypes
  BY DEF PageInv
<1>1. /\ sources[j].state = "open" /\ sources' = [sources EXCEPT ![j].state = "opening", ![j].wire = <<>>]
      /\ recorded' = recorded /\ last' = last /\ requests' = requests /\ captured' = captured /\ picks' = picks
      /\ asked' = asked /\ upsets < MaxUpsets /\ upsets' = upsets + 1
      /\ missed' = IF j = view.es THEN missed \cup {Wire[k] : k \in DOMAIN Wire} ELSE missed
      /\ renumbered' = renumbered /\ stray' = stray /\ strained' = strained
  BY DEF StreamLost, hub, Open
<1>2. PageRests /\ view' = view
  BY DEF StreamLost, PageRests
<1>3. /\ Len(sources) \in Nat /\ DOMAIN sources = 1..Len(sources)
      /\ \A i \in 1..Len(sources) : sources[i] \in Streams
      /\ view.es # 0 => view.es \in 1..Len(sources)
      /\ Wire \in Seq(Captured)
  BY <1>0, StreamsAre
<1>4. \A i \in 1..Len(sources) :
        /\ sources'[i] \in Streams /\ sources'[i].of = sources[i].of
        /\ sources'[i].wire = IF i = j THEN <<>> ELSE sources[i].wire
        /\ sources'[i].state = "closed" <=> sources[i].state = "closed"
  <2> TAKE i \in 1..Len(sources)
  <2>1. CASE i = j
    <3>1. sources'[j] = [sources[j] EXCEPT !.state = "opening", !.wire = <<>>]
      BY <1>1, <1>3
    <3> QED
      BY <1>1, <1>3, <2>1, <3>1, NoRecords DEF Streams
  <2>2. CASE i # j
    <3>1. sources'[i] = sources[i]
      BY <1>1, <1>3, <2>2
    <3> QED
      BY <1>3, <2>2, <3>1
  <2> QED
    BY <2>1, <2>2
<1>5. sources' \in Seq(Streams) /\ Len(sources') = Len(sources)
  <2>1. sources' = [i \in 1..Len(sources) |-> sources'[i]]
    BY <1>1, <1>3
  <2>2. sources' \in [1..Len(sources) -> Streams]
    BY <1>4, <2>1
  <2> QED
    BY <1>3, <2>2, SameLength
<1>6. \A k \in 1..Len(Wire) : Wire[k] \in Captured
  BY <1>3, RecordsAre
<1>7. DOMAIN Wire = 1..Len(Wire)
  BY <1>3, RecordsAre
<1>8. view.es # 0 => Wire' = Wire \/ \A k \in 1..Len(Wire) : Wire[k] \in missed'
  <2>1. CASE j = view.es
    BY <1>1, <1>7, <2>1
  <2>2. CASE j # view.es
    BY <1>2, <1>3, <1>4, <2>2 DEF Wire
  <2> QED
    BY <2>1, <2>2
<1>9. missed \subseteq missed' /\ missed' \subseteq Captured
  BY <1>0, <1>1, <1>6, <1>7 DEF ToldTypes
<1>10. upsets' \in 0..MaxUpsets
  BY <1>0, <1>1, PageSizesAre DEF CountTypes
<1>11. /\ recorded' \in [Watched -> Seq(Captured)] /\ last' \in [Watched -> 0..MaxCaptured] /\ renumbered' \subseteq Watched
  BY <1>0, <1>1 DEF PageTypes, ToldTypes
<1> QED
  BY <1>1, <1>2, <1>4, <1>5, <1>8, <1>9, <1>10, <1>11, StreamsEnd

(* The agent restarts: its numbers go on, or it is known as renumbered. *)
LEMMA RestartKeeps ==
  ASSUME PageInv, NEW a \in Watched, NEW persisted \in BOOLEAN, AgentRestarts(a, persisted)
  PROVE  PageInv'
<1>0. PageTypes /\ CountTypes /\ ToldTypes /\ StreamsOwn /\ SelectionOwn
  BY DEF PageInv
<1>1. /\ requests' = requests /\ captured' = captured /\ picks' = picks
      /\ asked' = asked /\ upsets < MaxUpsets /\ upsets' = upsets + 1
      /\ sources' = [i \in DOMAIN sources |->
           IF sources[i].of = a /\ Open(i) THEN [sources[i] EXCEPT !.state = "opening", !.wire = <<>>] ELSE sources[i]]
      /\ missed' = missed \cup {Wire[i] : i \in {j \in DOMAIN Wire : Wire[j].of = a}}
      /\ renumbered' = (IF persisted THEN renumbered ELSE renumbered \cup {a})
      /\ stray' = stray /\ strained' = strained
  BY DEF AgentRestarts
<1>2. PageRests /\ view' = view
  BY DEF AgentRestarts, PageRests
<1>3. /\ Len(sources) \in Nat /\ DOMAIN sources = 1..Len(sources)
      /\ \A i \in 1..Len(sources) : sources[i] \in Streams
      /\ view.es # 0 => view.es \in 1..Len(sources)
      /\ Wire \in Seq(Captured) /\ (view.es # 0 => Wire = sources[view.es].wire)
  BY <1>0, StreamsAre
<1>4. \A i \in 1..Len(sources) :
        /\ sources'[i] \in Streams /\ sources'[i].of = sources[i].of
        /\ sources'[i].wire = IF sources[i].of = a /\ Open(i) THEN <<>> ELSE sources[i].wire
        /\ sources'[i].state = "closed" <=> sources[i].state = "closed"
  <2> TAKE i \in 1..Len(sources)
  <2>1. sources'[i] = IF sources[i].of = a /\ Open(i) THEN [sources[i] EXCEPT !.state = "opening", !.wire = <<>>] ELSE sources[i]
    BY <1>1, <1>3
  <2>2. CASE sources[i].of = a /\ Open(i)
    <3>1. sources'[i] = [sources[i] EXCEPT !.state = "opening", !.wire = <<>>] /\ sources[i].state = "open"
      BY <2>1, <2>2 DEF Open
    <3> QED
      BY <1>3, <2>2, <3>1, NoRecords DEF Streams
  <2>3. CASE ~(sources[i].of = a /\ Open(i))
    BY <1>3, <2>1, <2>3
  <2> QED
    BY <2>2, <2>3
<1>5. sources' \in Seq(Streams) /\ Len(sources') = Len(sources)
  <2>1. sources' = [i \in 1..Len(sources) |-> sources'[i]]
    BY <1>1, <1>3
  <2>2. sources' \in [1..Len(sources) -> Streams]
    BY <1>4, <2>1
  <2> QED
    BY <1>3, <2>2, SameLength
<1>6. DOMAIN Wire = 1..Len(Wire) /\ \A k \in 1..Len(Wire) : Wire[k] \in Captured
  BY <1>3, RecordsAre
<1>7. view.es # 0 => Wire' = Wire \/ \A k \in 1..Len(Wire) : Wire[k] \in missed'
  <2> SUFFICES ASSUME view.es # 0 PROVE Wire' = Wire \/ \A k \in 1..Len(Wire) : Wire[k] \in missed'
    OBVIOUS
  <2>1. Wire' = sources'[view.es].wire
    BY <1>2 DEF Wire
  <2>2. CASE sources[view.es].of = a
    <3>1. AllOf(Wire, a)
      BY <1>0, <1>3, <2>2 DEF StreamsOwn
    <3>2. \A k \in 1..Len(Wire) : Wire[k] \in missed'
      BY <1>1, <1>6, <3>1 DEF AllOf
    <3> QED
      BY <3>2
  <2>3. CASE sources[view.es].of # a
    BY <1>3, <1>4, <2>1, <2>3
  <2> QED
    BY <2>2, <2>3
<1>8. missed \subseteq missed' /\ missed' \subseteq Captured
  BY <1>0, <1>1, <1>6 DEF ToldTypes
<1>9. upsets' \in 0..MaxUpsets
  <2>1. upsets' = upsets + 1 /\ upsets < MaxUpsets
    BY <1>1
  <2> QED
    BY <1>0, <2>1, PageSizesAre DEF CountTypes
<1>10. renumbered \subseteq renumbered' /\ renumbered' \subseteq Watched
  BY <1>0, <1>1 DEF ToldTypes
<1>11. /\ recorded' \in [Watched -> Seq(Captured)] /\ last' \in [Watched -> 0..MaxCaptured]
       /\ \A b \in Watched : \/ recorded'[b] = recorded[b] /\ last'[b] = last[b]
                             \/ recorded'[b] = <<>> /\ last'[b] = 0 /\ b \in renumbered'
  <2>1. CASE persisted
    <3>1. recorded' = recorded /\ last' = last
      BY <2>1 DEF AgentRestarts, hub
    <3> QED
      BY <1>0, <3>1 DEF PageTypes
  <2>2. CASE ~persisted
    <3>1. recorded' = [recorded EXCEPT ![a] = <<>>] /\ last' = [last EXCEPT ![a] = 0] /\ a \in renumbered'
      BY <1>1, <2>2 DEF AgentRestarts
    <3>2. 0 \in 0..MaxCaptured
      BY PageSizesAre
    <3> QED
      BY <1>0, <3>1, <3>2, NoRecords DEF PageTypes
  <2> QED
    BY <2>1, <2>2
<1> QED
  BY <1>1, <1>2, <1>4, <1>5, <1>7, <1>8, <1>9, <1>10, <1>11, StreamsEnd

(***************************************************************************)
(* A selection begins, or ends.                                            *)
LEMMA ContentOfNone ==
  ASSUME NEW v, v.records = <<>>, v.found = <<>>, NEW p, NEW m
  PROVE  Content(p, v, m) = <<>>
<1>1. DOMAIN v.records = {} /\ <<>> \in Seq(Captured) /\ 1..Len(<<>>) = {}
  <2>1. DOMAIN <<>> = 1..Len(<<>>) /\ Len(<<>>) = 0 /\ <<>> \in Seq(Captured)
    BY NoRecords, EmptySeq, RecordsAre
  <2>2. 1..0 = {}
    OBVIOUS
  <2> QED
    BY <2>1, <2>2
<1>2. Picked(<<>>, {}) \in Seq(Captured) /\ Len(Picked(<<>>, {})) = Cardinality({})
  BY <1>1, PickedIs
<1>3. Picked(<<>>, {}) = <<>>
  BY <1>2, EmptySeq, FS_EmptySet
<1>4. {i \in DOMAIN v.records : v.records[i].kind = "log"} = {}
  BY <1>1
<1> QED
  BY <1>3, <1>4 DEF Content

(* To disconnect closes the stream of the selection, and no other. *)
LEMMA DisconnectedIs ==
  ASSUME PageTypes, StreamsOwn, SelectionOwn
  PROVE  /\ Disconnected \in Seq(Streams) /\ Len(Disconnected) = Len(sources)
         /\ \A i \in 1..Len(sources) :
              /\ AllOf(Disconnected[i].wire, Disconnected[i].of)
              /\ Disconnected[i].state = "closed" => Disconnected[i].wire = <<>>
              /\ ~stray => Disconnected[i].state = "closed"
<1>1. /\ Len(sources) \in Nat /\ DOMAIN sources = 1..Len(sources)
      /\ \A i \in 1..Len(sources) : sources[i] \in Streams
      /\ view.es # 0 => view.es \in 1..Len(sources)
  BY StreamsAre
<1>2. CASE view.es = 0
  <2>1. Disconnected = sources
    BY <1>2 DEF Disconnected
  <2>2. sources \in Seq(Streams)
    BY DEF PageTypes
  <2>3. \A i \in 1..Len(sources) : ~stray => sources[i].state = "closed"
    BY <1>1, <1>2 DEF SelectionOwn
  <2> QED
    BY <2>1, <2>2, <2>3 DEF StreamsOwn
<1>3. CASE view.es # 0
  <2> DEFINE d == Disconnected
  <2>1. d = [sources EXCEPT ![view.es].state = "closed", ![view.es].wire = <<>>]
    BY <1>3 DEF Disconnected
  <2> HIDE DEF d
  <2>2. ASSUME NEW i \in 1..Len(sources)
        PROVE  /\ d[i] \in Streams /\ AllOf(d[i].wire, d[i].of)
               /\ d[i].state = "closed" => d[i].wire = <<>>
               /\ ~stray => d[i].state = "closed"
    <3>1. CASE i = view.es
      <4>1. d[i] = [sources[i] EXCEPT !.state = "closed", !.wire = <<>>]
        BY <1>1, <1>3, <2>1, <3>1
      <4> QED
        BY <1>1, <4>1, NoRecords DEF Streams
    <3>2. CASE i # view.es
      <4>1. d[i] = sources[i]
        BY <1>1, <1>3, <2>1, <3>2
      <4> QED
        BY <1>1, <3>2, <4>1 DEF StreamsOwn, SelectionOwn
    <3> QED
      BY <3>1, <3>2
  <2>3. d \in [1..Len(sources) -> Streams]
    <3>1. d = [i \in 1..Len(sources) |-> d[i]]
      BY <1>1, <2>1
    <3> QED
      BY <2>2, <3>1
  <2>4. d \in Seq(Streams) /\ Len(d) = Len(sources)
    BY <1>1, <2>3, SameLength
  <2> QED
    BY <2>2, <2>4 DEF d
<1> QED
  BY <1>2, <1>3

(* A selection that has no stream, and shows nothing. *)
LEMMA NothingYet ==
  ASSUME view'.es = 0, view'.records = <<>>, view'.lastSeq = 0
  PROVE  ViewOrder' /\ StreamFollows' /\ FoundGood' /\ AnswerGood'
BY NoRecords DEF ViewOrder, StreamFollows, FoundGood, AnswerGood

(* A new selection begins with nothing, and no stream but stray ones goes on. *)
LEMMA NewSelection ==
  ASSUME PageInv, NEW a \in Watched \cup {NoAgent}, view' = Fresh(a), stray' = stray, sources' = Disconnected,
         UNCHANGED <<recorded, last, captured>>, requests' \in SUBSET Asks,
         screen' \in {"landing", "dashboard"}, expanded' \in {"overview"} \cup Panels, mode' = mode, only' = only,
         painted' = [p \in Panels |-> <<>>], dirty' = {}, raf' = FALSE
  PROVE  /\ PageTypes' /\ BuffersOwn' /\ StreamsOwn' /\ SelectionOwn' /\ ViewOrder' /\ StreamFollows'
         /\ FoundGood' /\ AnswerGood' /\ PanelsCatchUp'
<1>0. PageTypes /\ StreamsOwn /\ SelectionOwn /\ BuffersOwn
  BY DEF PageInv
<1>1. /\ view' \in Views /\ view'.id = a /\ view'.lastSeq = 0 /\ view'.records = <<>>
      /\ view'.found = <<>> /\ view'.es = 0
  BY FreshIs
<1>2. /\ sources' \in Seq(Streams) /\ Len(sources') = Len(sources)
      /\ \A i \in 1..Len(sources) :
           /\ AllOf(sources'[i].wire, sources'[i].of)
           /\ sources'[i].state = "closed" => sources'[i].wire = <<>>
           /\ ~stray => sources'[i].state = "closed"
  BY <1>0, DisconnectedIs
<1>3. view'.es \in 0..Len(sources')
  BY <1>0, <1>1, <1>2, StreamsAre
<1>4. painted' \in [Panels -> Seq(Captured)]
  BY NoRecords
<1>5. PageTypes'
  BY <1>0, <1>1, <1>2, <1>3, <1>4 DEF PageTypes
<1>6. BuffersOwn'
  BY <1>0 DEF BuffersOwn
<1>7. StreamsOwn'
  BY <1>2 DEF StreamsOwn
<1>8. SelectionOwn'
  BY <1>1, <1>2 DEF SelectionOwn, Nothing
<1>9. PanelsCatchUp'
  <2>1. \A p, m : Content(p, view', m) = <<>>
    BY <1>1, ContentOfNone
  <2>2. \A p \in Panels : painted'[p] = <<>>
    OBVIOUS
  <2> QED
    BY <2>1, <2>2 DEF PanelsCatchUp
<1> QED
  BY <1>1, <1>5, <1>6, <1>7, <1>8, <1>9, NothingYet

(* An agent is picked. *)
LEMMA PickKeeps ==
  ASSUME PageInv, NEW a \in Watched, PickAgent(a)
  PROVE  PageInv'
<1>0. PageTypes /\ CountTypes /\ ToldTypes /\ AnswersOwn
  BY DEF PageInv
<1> DEFINE x == [n |-> Numbered, what |-> "snapshot", of |-> a, at |-> "sent", only |-> {}, recs |-> <<>>]
<1>1. /\ picks < MaxPicks /\ picks' = picks + 1 /\ sources' = Disconnected /\ requests' = requests \cup {x}
      /\ view' = Fresh(a) /\ screen' = "dashboard"
      /\ painted' = [p \in Panels |-> <<>>] /\ dirty' = {} /\ raf' = FALSE
      /\ missed' = {} /\ strained' = FALSE
      /\ renumbered' = renumbered \ {b \in {a} : \A q \in requests : q.of # b}
      /\ recorded' = recorded /\ last' = last /\ expanded' = expanded /\ mode' = mode /\ only' = only
      /\ captured' = captured /\ asked' = asked /\ upsets' = upsets /\ stray' = stray
  BY DEF PickAgent, Requested, hub
<1>2. x \in Asks /\ x.recs = <<>> /\ x.of = a
  <2>1. {} \in SUBSET RecordKinds
    OBVIOUS
  <2> QED
    BY <1>1, <2>1, AskedIs
<1> HIDE DEF x
<1>3. requests' \in SUBSET Asks
  BY <1>0, <1>1, <1>2 DEF PageTypes
<1>4. AnswersOwn'
  <2> SUFFICES ASSUME NEW q \in requests'
               PROVE  AllOf(q.recs, q.of) /\ (q.of \notin renumbered' => NoneOver(q.recs, last[q.of]))
    BY <1>1 DEF AnswersOwn
  <2>1. CASE q = x
    BY <1>2, <2>1, NoRecords
  <2>2. CASE q \in requests
    <3>1. q.of \notin renumbered' => q.of \notin renumbered
      BY <1>1, <2>2
    <3> QED
      BY <1>0, <2>2, <3>1 DEF AnswersOwn
  <2> QED
    BY <1>1, <2>1, <2>2
<1>5. CountTypes' /\ ToldTypes'
  <2>1. picks' \in 0..MaxPicks
    <3>1. picks' = picks + 1 /\ picks < MaxPicks
      BY <1>1
    <3> QED
      BY <1>0, <3>1, PageSizesAre DEF CountTypes
  <2> QED
    BY <1>0, <1>1, <2>1 DEF CountTypes, ToldTypes
<1>6. expanded' \in {"overview"} \cup Panels
  BY <1>0, <1>1 DEF PageTypes
<1> QED
  BY <1>1, <1>3, <1>4, <1>5, <1>6, NewSelection DEF PageInv

(* The page goes back to its list of agents. *)
LEMMA PickNoneKeeps ==
  ASSUME PageInv, PickNone
  PROVE  PageInv'
<1>0. PageTypes /\ CountTypes /\ ToldTypes
  BY DEF PageInv
<1>1. /\ sources' = Disconnected /\ requests' = requests
      /\ view' = Fresh(NoAgent) /\ screen' = "landing" /\ expanded' = "overview"
      /\ painted' = [p \in Panels |-> <<>>] /\ dirty' = {} /\ raf' = FALSE
      /\ missed' = {} /\ strained' = FALSE /\ renumbered' = renumbered
      /\ recorded' = recorded /\ last' = last /\ mode' = mode /\ only' = only
      /\ picks' = picks /\ captured' = captured /\ asked' = asked /\ upsets' = upsets /\ stray' = stray
  BY DEF PickNone, hub, counts, Nothing
<1>2. requests' \in SUBSET Asks /\ AnswersOwn'
  BY <1>1, FewerAnswers
<1>3. CountTypes' /\ ToldTypes'
  BY <1>0, <1>1 DEF CountTypes, ToldTypes
<1> QED
  BY <1>1, <1>2, <1>3, NewSelection DEF PageInv

(* The snapshot fails: the stream begins with an empty view. *)
LEMMA SnapshotFailsKeeps ==
  ASSUME PageInv, NEW q \in requests, SnapshotFails(q)
  PROVE  PageInv'
<1>0. PageTypes /\ CountTypes /\ ToldTypes /\ SelectionOwn /\ PanelsCatchUp /\ BuffersOwn /\ StreamsOwn
  BY DEF PageInv
<1>1. /\ q.what = "snapshot" /\ requests' = requests \ {q}
      /\ stray' = (stray \/ (view.id = q.of /\ view.es # 0))
      /\ recorded' = recorded /\ last' = last /\ sources' = sources /\ mode' = mode /\ only' = only
      /\ captured' = captured /\ picks' = picks /\ asked' = asked /\ upsets' = upsets
      /\ missed' = missed /\ renumbered' = renumbered /\ strained' = strained
  BY DEF SnapshotFails, hub, counts
<1>2. requests' \in SUBSET Asks /\ AnswersOwn'
  BY <1>1, FewerAnswers
<1>3. CountTypes' /\ ToldTypes'
  BY <1>0, <1>1 DEF CountTypes, ToldTypes
<1>4. CASE view.id = q.of \/ view = Nothing
  <2>1. view' = Fresh(NoAgent) /\ screen' = "landing" /\ expanded' = "overview" /\ raf' = FALSE /\ dirty' = {} /\ painted' = painted
    BY <1>4 DEF SnapshotFails, LeaveFor, FlushFor, Nothing
  <2>2. /\ view' \in Views /\ view'.id = NoAgent /\ view'.lastSeq = 0 /\ view'.records = <<>> /\ view'.es = 0
    BY <2>1, FreshIs
  <2>3. view'.es \in 0..Len(sources)
    BY <1>0, <2>2, StreamsAre
  <2>4. PageTypes'
    BY <1>0, <1>1, <1>2, <2>1, <2>2, <2>3 DEF PageTypes
  <2>5. BuffersOwn' /\ StreamsOwn'
    BY <1>0, <1>1 DEF BuffersOwn, StreamsOwn
  <2>6. ~stray' => view.es = 0 /\ ~stray
    BY <1>1, <1>4, FreshIs DEF Nothing
  <2>7. SelectionOwn'
    BY <1>0, <1>1, <2>1, <2>2, <2>6 DEF SelectionOwn, Nothing
  <2>8. PanelsCatchUp'
    BY <2>1 DEF PanelsCatchUp
  <2> QED
    BY <1>2, <1>3, <2>2, <2>4, <2>5, <2>7, <2>8, NothingYet DEF PageInv
<1>5. CASE ~(view.id = q.of \/ view = Nothing)
  <2>1. view' = view /\ screen' = screen /\ expanded' = expanded /\ dirty' = dirty /\ raf' = raf /\ painted' = painted
    BY <1>5 DEF SnapshotFails, drawing
  <2>2. stray' = stray
    BY <1>0, <1>1, <1>5 DEF ToldTypes
  <2>3. SelectionRests
    BY <1>1, <2>1, <2>2 DEF SelectionRests
  <2>4. PageTypes'
    BY <1>0, <1>1, <1>2, <2>1 DEF PageTypes
  <2>5. Queries' = Queries
    BY <1>1, <2>1, QueriesRest
  <2>6. FoundGood' /\ AnswerGood'
    BY <1>1, <2>3, <2>5, FoundRests
  <2>7. PanelsCatchUp'
    BY <1>0, <1>1, <2>1 DEF PanelsCatchUp, InSight, Content
  <2> QED
    BY <1>2, <1>3, <2>3, <2>4, <2>6, <2>7, SelectionRestsKeeps DEF PageInv
<1> QED
  BY <1>4, <1>5

(* The answer of a clear. *)
LEMMA ClearHeardKeeps ==
  ASSUME PageInv, NEW q \in requests, ClearHeard(q)
  PROVE  PageInv'
<1>0. /\ PageTypes /\ CountTypes /\ ToldTypes /\ SelectionOwn /\ PanelsCatchUp /\ BuffersOwn /\ StreamsOwn
      /\ StreamFollows /\ AnswerGood /\ view \in Views
  BY DEF PageInv, PageTypes
<1>1. /\ q.what = "clear" /\ requests' = requests \ {q}
      /\ recorded' = recorded /\ last' = last /\ sources' = sources /\ mode' = mode /\ only' = only
      /\ screen' = screen /\ expanded' = expanded /\ raf' = raf
      /\ captured' = captured /\ picks' = picks /\ asked' = asked /\ upsets' = upsets
      /\ renumbered' = renumbered /\ stray' = stray
  BY DEF ClearHeard, hub, counts, chosen
<1>2. requests' \in SUBSET Asks /\ AnswersOwn'
  BY <1>1, FewerAnswers
<1>3. CASE q.of # view.id
  <2>1. view' = view /\ painted' = painted /\ dirty' = dirty /\ missed' = missed /\ strained' = strained
    BY <1>3 DEF ClearHeard
  <2>2. SelectionRests
    BY <1>1, <2>1 DEF SelectionRests
  <2>3. PageTypes' /\ CountTypes' /\ ToldTypes'
    BY <1>0, <1>1, <1>2, <2>1 DEF PageTypes, CountTypes, ToldTypes
  <2>4. Queries' = Queries
    BY <1>1, <2>1, QueriesRest
  <2>5. FoundGood' /\ AnswerGood'
    BY <1>1, <2>1, <2>2, <2>4, FoundRests
  <2>6. PanelsCatchUp'
    BY <1>0, <1>1, <2>1 DEF PanelsCatchUp, InSight, Content
  <2> QED
    BY <1>2, <2>2, <2>3, <2>5, <2>6, SelectionRestsKeeps DEF PageInv
<1>4. CASE q.of = view.id
  <2>1. /\ view' = [Fresh(view.id) EXCEPT !.es = view.es] /\ painted' = [p \in Panels |-> Content(p, view', mode)]
        /\ dirty' = {} /\ missed' = missed \cup {view.records[i] : i \in DOMAIN view.records}
        /\ strained' = (strained \/ Queries # {})
    BY <1>4 DEF ClearHeard, DrawAll
  <2>2. view.id \in Watched
    BY <1>0, <1>4 DEF PageTypes, Asks
  <2>3. /\ view' \in Views /\ view'.id = view.id /\ view'.lastSeq = 0 /\ view'.records = <<>> /\ view'.found = <<>>
        /\ view'.ran = FALSE /\ view'.es = view.es
    <3>1. /\ Fresh(view.id) \in Views /\ Fresh(view.id).id = view.id /\ Fresh(view.id).lastSeq = 0
          /\ Fresh(view.id).records = <<>> /\ Fresh(view.id).found = <<>> /\ Fresh(view.id).ran = FALSE
      BY <2>2, FreshIs
    <3> QED
      BY <1>0, <2>1, <3>1 DEF Views
  <2>4. painted' \in [Panels -> Seq(Captured)]
    BY <2>1, <2>3, ContentIs
  <2>5. DOMAIN view.records = 1..Len(view.records) /\ \A i \in 1..Len(view.records) : view.records[i] \in Captured
    BY <1>0, ViewsAre, RecordsAre
  <2>6. PageTypes'
    BY <1>0, <1>1, <1>2, <2>1, <2>3, <2>4 DEF PageTypes
  <2>7. CountTypes' /\ ToldTypes'
    BY <1>0, <1>1, <2>1, <2>5 DEF CountTypes, ToldTypes
  <2>8. BuffersOwn' /\ StreamsOwn' /\ SelectionOwn'
    BY <1>0, <1>1, <2>2, <2>3 DEF BuffersOwn, StreamsOwn, SelectionOwn
  <2>9. ViewOrder'
    BY <2>3, NoRecords DEF ViewOrder
  <2>10. Wire' = Wire /\ Queries' = Queries
    BY <1>1, <1>4, <2>3 DEF Wire, Queries
  <2>11. StreamFollows'
    <3> SUFFICES ASSUME ~stray, view.es # 0, view.id \notin renumbered
                 PROVE  /\ 0 <= last[view.id]
                        /\ Ordered(Wire) /\ Past(Wire, 0) /\ NoneOver(Wire, last[view.id])
                        /\ NoneLost'
      BY <1>1, <2>3, <2>10 DEF StreamFollows
    <3>1. Ordered(Wire) /\ NoneOver(Wire, last[view.id]) /\ NoneLost
      BY <1>0 DEF StreamFollows
    <3>2. last[view.id] \in Nat /\ Wire \in Seq(Captured)
      BY <1>0, <2>2, NumbersAre, StreamsAre
    <3>3. Past(Wire, 0)
      BY <3>2, RecordsAre, PageSizesAre DEF Past
    <3>4. NoneLost'
      BY <1>1, <2>1, <2>3, <2>5, <2>10, <3>1 DEF NoneLost
    <3> QED
      BY <3>1, <3>2, <3>3, <3>4
  <2>12. FoundGood'
    BY <2>3 DEF FoundGood
  <2>13. AnswerGood'
    BY <2>1, <2>10 DEF AnswerGood
  <2>14. PanelsCatchUp'
    BY <1>1, <2>1 DEF PanelsCatchUp
  <2> QED
    BY <1>2, <2>6, <2>7, <2>8, <2>9, <2>11, <2>12, <2>13, <2>14 DEF PageInv
<1> QED
  BY <1>3, <1>4

(***************************************************************************)
(* A record comes on a stream.                                             *)
LEMMA OnRecordKeeps ==
  ASSUME PageInv, NEW j \in DOMAIN sources, OnRecord(j)
  PROVE  PageInv'
<1>0. /\ PageTypes /\ CountTypes /\ ToldTypes /\ BuffersOwn /\ StreamsOwn /\ AnswersOwn /\ SelectionOwn
      /\ ViewOrder /\ StreamFollows /\ FoundGood /\ AnswerGood /\ PanelsCatchUp /\ view \in Views
  BY DEF PageInv, PageTypes
<1> DEFINE way == sources[j].wire
           rec == Head(way)
           joins == mode = "query" /\ view.ran /\ Matches(rec, only)
<1>1. /\ way # <<>> /\ sources' = [sources EXCEPT ![j].wire = Tail(@)]
      /\ recorded' = recorded /\ last' = last /\ requests' = requests /\ screen' = screen /\ expanded' = expanded
      /\ mode' = mode /\ only' = only /\ painted' = painted
      /\ captured' = captured /\ picks' = picks /\ asked' = asked /\ upsets' = upsets
      /\ missed' = missed /\ renumbered' = renumbered /\ stray' = stray
  BY DEF OnRecord, hub, chosen, counts
<1>2. /\ Len(sources) \in Nat /\ DOMAIN sources = 1..Len(sources) /\ j \in 1..Len(sources)
      /\ \A i \in 1..Len(sources) : sources[i] \in Streams
      /\ view.es # 0 => view.es \in 1..Len(sources)
      /\ way \in Seq(Captured)
  BY <1>0, StreamsAre
<1>3. \/ view' = view /\ dirty' = dirty /\ raf' = raf /\ strained' = strained /\ (view = Nothing \/ Applied(view, rec) = view)
      \/ /\ view # Nothing /\ Applied(view, rec) # view
         /\ view' = IF joins THEN [Applied(view, rec) EXCEPT !.found = Append(@, rec)] ELSE Applied(view, rec)
         /\ dirty' = dirty \cup {"frames"} \cup {p \in {"logs"} : rec.kind = "log" \/ joins}
         /\ raf' = TRUE
         /\ strained' = (strained \/ Queries # {} \/ (view.ran /\ mode = "live"))
  BY DEF OnRecord
<1>4. /\ rec \in Captured /\ Tail(way) \in Seq(Captured)
      /\ AllOf(way, sources[j].of) /\ AllOf(Tail(way), sources[j].of) /\ rec.of = sources[j].of
      /\ rec.seq \in Nat /\ rec.seq \in 0..MaxCaptured
  <2>1. AllOf(way, sources[j].of)
    BY <1>0, <1>2 DEF StreamsOwn
  <2>2. rec \in Captured /\ Tail(way) \in Seq(Captured) /\ AllOf(Tail(way), sources[j].of) /\ rec.of = sources[j].of
    BY <1>1, <1>2, <2>1, TakenIs
  <2>3. rec.seq \in 1..MaxCaptured
    BY <2>2 DEF Captured
  <2>4. 1..MaxCaptured \subseteq Nat /\ 1..MaxCaptured \subseteq 0..MaxCaptured
    BY PageSizesAre
  <2> QED
    BY <2>1, <2>2, <2>3, <2>4
<1>5. way = sources[j].wire /\ rec = Head(way)
  OBVIOUS
<1>6. \A i \in 1..Len(sources) :
        /\ sources'[i] \in Streams /\ sources'[i].of = sources[i].of /\ sources'[i].state = sources[i].state
        /\ sources'[i].wire = IF i = j THEN Tail(way) ELSE sources[i].wire
  <2> TAKE i \in 1..Len(sources)
  <2> HIDE DEF rec
  <2>1. CASE i = j
    <3>1. sources'[j] = [sources[j] EXCEPT !.wire = Tail(way)]
      BY <1>1, <1>2
    <3> HIDE DEF way
    <3> QED
      BY <1>2, <1>4, <2>1, <3>1 DEF Streams
  <2>2. CASE i # j
    BY <1>1, <1>2, <2>2
  <2> QED
    BY <2>1, <2>2
<1> HIDE DEF rec, way
<1>7. sources' \in Seq(Streams) /\ Len(sources') = Len(sources)
  <2>1. sources' = [i \in 1..Len(sources) |-> sources'[i]]
    BY <1>1, <1>2
  <2>2. sources' \in [1..Len(sources) -> Streams]
    BY <1>6, <2>1
  <2> QED
    BY <1>2, <2>2, SameLength
<1>8. StreamsOwn'
  <2> SUFFICES ASSUME NEW i \in 1..Len(sources)
               PROVE  /\ AllOf(sources'[i].wire, sources'[i].of)
                      /\ sources'[i].state = "closed" => sources'[i].wire = <<>>
    BY <1>7 DEF StreamsOwn
  <2>1. AllOf(sources[i].wire, sources[i].of) /\ (sources[i].state = "closed" => sources[i].wire = <<>>)
    BY <1>0 DEF StreamsOwn
  <2>2. CASE i = j
    <3>1. sources[i].state # "closed"
      BY <1>1, <1>5, <2>1, <2>2
    <3> QED
      BY <1>4, <1>6, <2>2, <3>1
  <2>3. CASE i # j
    BY <1>6, <2>1, <2>3
  <2> QED
    BY <2>2, <2>3
<1>9. BuffersOwn' /\ CountTypes' /\ (requests' \in SUBSET Asks /\ AnswersOwn')
  BY <1>0, <1>1 DEF BuffersOwn, CountTypes, AnswersOwn, PageTypes
<1>10. ~stray => j = view.es
  <2>1. sources[j].state = "closed" => way = <<>>
    BY <1>0, <1>2, <1>5 DEF StreamsOwn
  <2> QED
    BY <1>0, <1>1, <1>2, <2>1 DEF SelectionOwn
<1>11. j = view.es => view.es # 0 /\ view.id \in Watched /\ Wire' = Tail(way) /\ Wire = way /\ rec.of = view.id
  <2> SUFFICES ASSUME j = view.es PROVE view.es # 0 /\ view.id \in Watched /\ Wire = way /\ rec.of = view.id /\ Wire' = Tail(way)
    OBVIOUS
  <2>1. view.es # 0
    BY <1>2
  <2>2. Wire = way /\ view.id \in Watched /\ sources[j].of = view.id
    BY <1>0, <1>5, <2>1, SelectedIs
  <2>3. view'.es = view.es
    <3>1. CASE view' = view
      BY <3>1
    <3>2. CASE view' = IF joins THEN [Applied(view, rec) EXCEPT !.found = Append(@, rec)] ELSE Applied(view, rec)
      <4>1. Applied(view, rec) \in Views /\ Applied(view, rec).es = view.es
        <5>1. Append(view.records, rec) \in Seq(Captured)
          BY <1>0, <1>4, ViewsAre, JoinedIs
        <5> QED
          BY <1>0, <1>4, <5>1 DEF Applied, Views
      <4> HIDE DEF joins
      <4> QED
        BY <3>2, <4>1 DEF Views
    <3> QED
      BY <1>3, <3>1, <3>2
  <2>4. Wire' = Tail(way)
    BY <1>2, <1>6, <2>1, <2>3 DEF Wire
  <2> QED
    BY <1>4, <2>1, <2>2, <2>4
<1>12. CASE view' = view /\ dirty' = dirty /\ raf' = raf /\ strained' = strained /\ (view = Nothing \/ Applied(view, rec) = view)
  <2>1. PageTypes' /\ ToldTypes'
    BY <1>0, <1>1, <1>7, <1>12 DEF PageTypes, ToldTypes
  <2>2. SelectionOwn'
    BY <1>0, <1>1, <1>2, <1>6, <1>7, <1>12 DEF SelectionOwn
  <2>3. ViewOrder' /\ PanelsCatchUp'
    BY <1>0, <1>1, <1>12 DEF ViewOrder, PanelsCatchUp, InSight, Content
  <2>4. stray \/ view.id \in renumbered
    <3> SUFFICES ASSUME ~stray, view.id \notin renumbered PROVE FALSE
      OBVIOUS
    <3>1. j = view.es /\ view.es # 0 /\ Wire = way
      BY <1>10, <1>11
    <3>2. Past(way, view.lastSeq)
      BY <1>0, <3>1 DEF StreamFollows
    <3>3. view.lastSeq < rec.seq
      BY <1>1, <1>2, <1>5, <3>2, TakenIs
    <3>4. view.lastSeq \in Nat
      BY <1>0, ViewsAre
    <3>5. ~(rec.seq <= view.lastSeq) /\ rec.seq # view.lastSeq
      BY <1>4, <3>3, <3>4
    <3>6. Applied(view, rec).lastSeq = rec.seq
      BY <1>0, <3>5 DEF Applied, Views
    <3>7. view # Nothing
      BY <3>1, FreshIs DEF Nothing
    <3> QED
      BY <1>12, <3>5, <3>6, <3>7
  <2>5. StreamFollows' /\ FoundGood'
    BY <1>1, <1>12, <2>4 DEF StreamFollows, FoundGood
  <2>6. AnswerGood'
    <3> SUFFICES ASSUME ~stray, view.es # 0, ~strained, view.ran \/ mode = "query", NEW r \in Queries
                 PROVE  Wire' = <<>> /\ r.only = only /\ (r.at = "served" /\ view.id \notin renumbered => Finds(r.recs)')
      BY <1>1, <1>12 DEF AnswerGood, Queries
    <3>1. Wire = <<>>
      BY <1>0 DEF AnswerGood
    <3> QED
      BY <1>1, <1>10, <1>11, <3>1
  <2> QED
    BY <1>8, <1>9, <2>1, <2>2, <2>3, <2>5, <2>6 DEF PageInv
<1>13. ASSUME view # Nothing, Applied(view, rec) # view,
              view' = IF joins THEN [Applied(view, rec) EXCEPT !.found = Append(@, rec)] ELSE Applied(view, rec),
              dirty' = dirty \cup {"frames"} \cup {p \in {"logs"} : rec.kind = "log" \/ joins},
              raf' = TRUE,
              strained' = (strained \/ Queries # {} \/ (view.ran /\ mode = "live"))
       PROVE  PageInv'
  <2>1. /\ view.records \in Seq(Captured) /\ view.found \in Seq(Captured) /\ view.lastSeq \in Nat
        /\ view.lastSeq \in 0..MaxCaptured
        /\ Append(view.records, rec) \in Seq(Captured) /\ Append(view.found, rec) \in Seq(Captured)
    BY <1>0, <1>4, ViewsAre, JoinedIs
  <2>2. view.lastSeq < rec.seq /\ Applied(view, rec) = [view EXCEPT !.lastSeq = rec.seq, !.records = Append(@, rec)]
    <3>1. ~(rec.seq <= view.lastSeq)
      BY <1>13 DEF Applied
    <3> QED
      BY <1>4, <2>1, <3>1 DEF Applied
  <2>3. /\ view' \in Views /\ view'.id = view.id /\ view'.lastSeq = rec.seq /\ view'.es = view.es /\ view'.ran = view.ran
        /\ view'.records = Append(view.records, rec)
        /\ view'.found = IF joins THEN Append(view.found, rec) ELSE view.found
    <3>1. CASE joins
      <4> HIDE DEF joins
      <4>1. view' = [view EXCEPT !.lastSeq = rec.seq, !.records = Append(view.records, rec), !.found = Append(view.found, rec)]
        BY <1>0, <1>13, <2>2, <3>1 DEF Views
      <4> QED
        BY <1>0, <1>4, <2>1, <3>1, <4>1 DEF Views
    <3>2. CASE ~joins
      <4> HIDE DEF joins
      <4>1. view' = [view EXCEPT !.lastSeq = rec.seq, !.records = Append(view.records, rec)]
        BY <1>0, <1>13, <2>2, <3>2 DEF Views
      <4> QED
        BY <1>0, <1>4, <2>1, <3>2, <4>1 DEF Views
    <3> QED
      BY <3>1, <3>2
  <2>4. view.id \in Watched
    BY <1>0, <1>13 DEF SelectionOwn
  <2>5. joins <=> mode = "query" /\ view.ran /\ Matches(rec, only)
    OBVIOUS
  <2> HIDE DEF joins
  <2>6. dirty' \in SUBSET Panels
    BY <1>0, <1>13 DEF PageTypes, Panels
  <2>7. PageTypes'
    BY <1>0, <1>1, <1>7, <1>13, <2>3, <2>6 DEF PageTypes
  <2>8. ToldTypes'
    <3>1. strained' \in BOOLEAN
      BY <1>13
    <3> QED
      BY <1>0, <1>1, <3>1 DEF ToldTypes
  <2>9. SelectionOwn'
    BY <1>0, <1>1, <1>2, <1>6, <1>7, <2>3, <2>4 DEF SelectionOwn
  <2>10. ViewOrder'
    <3>1. Ordered(view.records) /\ NoneOver(view.records, view.lastSeq) /\ (~stray => AllOf(view.records, view.id))
      BY <1>0 DEF ViewOrder
    <3>2. Ordered(Append(view.records, rec))
      BY <1>4, <2>1, <2>2, <3>1, JoinedIs
    <3>3. NoneOver(Append(view.records, rec), rec.seq)
      <4>1. view.lastSeq <= rec.seq
        BY <1>4, <2>1, <2>2
      <4> QED
        BY <1>4, <2>1, <3>1, <4>1, JoinedIs
    <3>4. ~stray => AllOf(Append(view.records, rec), view.id) /\ view.es # 0
      BY <1>4, <1>10, <1>11, <2>1, <3>1, JoinedIs
    <3> QED
      BY <1>1, <2>3, <3>2, <3>3, <3>4 DEF ViewOrder
  <2>11. PanelsCatchUp'
    <3> SUFFICES ASSUME screen = "dashboard", NEW p \in Panels, painted[p] # Content(p, view', mode)
                 PROVE  p \in dirty'
      BY <1>1, <1>13 DEF PanelsCatchUp
    <3>1. CASE p = "frames"
      BY <1>13, <3>1
    <3>2. CASE p = "logs" /\ (rec.kind = "log" \/ joins)
      BY <1>13, <3>2
    <3>3. CASE p = "logs" /\ ~(rec.kind = "log" \/ joins)
      <4>1. Picked(Append(view.records, rec), LogPlaces(Append(view.records, rec))) = Picked(view.records, LogPlaces(view.records))
        BY <1>4, <2>1, <3>3, LogsAre
      <4>2. view'.found = view.found /\ view'.records = Append(view.records, rec)
        BY <2>3, <3>3
      <4>3. Content(p, view', mode) = Content(p, view, mode)
        <5>1. Content(p, view', mode) = IF mode = "query" THEN view'.found ELSE Picked(view'.records, LogPlaces(view'.records))
          BY <3>3 DEF Content, LogPlaces
        <5>2. Content(p, view, mode) = IF mode = "query" THEN view.found ELSE Picked(view.records, LogPlaces(view.records))
          BY <3>3 DEF Content, LogPlaces
        <5> QED
          BY <4>1, <4>2, <5>1, <5>2
      <4>4. p \in dirty
        BY <1>0, <1>13, <4>3 DEF PanelsCatchUp
      <4> QED
        BY <1>13, <4>4
    <3> QED
      BY <3>1, <3>2, <3>3 DEF Panels
  <2>12. /\ \A i \in 1..Len(way) : way[i] = rec \/ \E k \in 1..Len(Tail(way)) : Tail(way)[k] = way[i]
         /\ Ordered(way) => Ordered(Tail(way)) /\ Past(Tail(way), rec.seq)
         /\ \A m : NoneOver(way, m) => NoneOver(Tail(way), m) /\ rec.seq <= m
         /\ \A m : Past(way, m) => m < rec.seq
         /\ \A k \in 1..Len(Tail(way)) : k + 1 \in 1..Len(way) /\ Tail(way)[k] = way[k + 1]
    BY <1>1, <1>2, <1>5, TakenIs
  <2>13. StreamFollows'
    <3> SUFFICES ASSUME ~stray, view.es # 0, view.id \notin renumbered
                 PROVE  /\ rec.seq <= last[view.id]
                        /\ Ordered(Wire') /\ Past(Wire', rec.seq) /\ NoneOver(Wire', last[view.id])
                        /\ NoneLost'
      BY <1>1, <2>3 DEF StreamFollows
    <3>1. Wire = way /\ Wire' = Tail(way)
      BY <1>10, <1>11
    <3>2. Ordered(way) /\ NoneOver(way, last[view.id]) /\ NoneLost
      BY <1>0, <3>1 DEF StreamFollows
    <3>3. NoneLost'
      <4> SUFFICES ASSUME NEW i \in 1..Len(recorded[view.id])
                   PROVE  \/ \E n \in 1..Len(view'.records) : view'.records[n] = recorded[view.id][i]
                          \/ \E k \in 1..Len(Wire') : Wire'[k] = recorded[view.id][i]
                          \/ recorded[view.id][i] \in missed
        BY <1>1, <2>3 DEF NoneLost
      <4>0. /\ Len(view.records) + 1 \in 1..Len(Append(view.records, rec))
            /\ Append(view.records, rec)[Len(view.records) + 1] = rec
            /\ \A k \in 1..Len(view.records) : /\ k \in 1..Len(Append(view.records, rec))
                                               /\ Append(view.records, rec)[k] = view.records[k]
        BY <1>4, <2>1, JoinedIs
      <4>1. CASE \E n \in 1..Len(view.records) : view.records[n] = recorded[view.id][i]
        BY <2>3, <4>0, <4>1
      <4>2. CASE \E k \in 1..Len(way) : way[k] = recorded[view.id][i]
        <5>1. CASE rec = recorded[view.id][i]
          BY <2>3, <4>0, <5>1
        <5>2. CASE \E k \in 1..Len(Tail(way)) : Tail(way)[k] = recorded[view.id][i]
          BY <3>1, <5>2
        <5> QED
          BY <2>12, <4>2, <5>1, <5>2
      <4> QED
        BY <3>1, <3>2, <4>1, <4>2 DEF NoneLost
    <3> QED
      BY <2>12, <3>1, <3>2, <3>3
  <2>14. AnswerGood'
    <3>1. Queries' = Queries
      BY <1>1, <2>3 DEF Queries
    <3> QED
      BY <1>13, <3>1 DEF AnswerGood
  <2>15. FoundGood'
    <3>1. Queries' = Queries
      BY <1>1, <2>3 DEF Queries
    <3> SUFFICES ASSUME ~stray, view.es # 0, view.ran, ~strained', Queries = {}, view.id \notin renumbered
                 PROVE  Finds(view.found)' /\ \A i \in 1..Len(view'.found) : Past(Wire', view'.found[i].seq)
      BY <1>1, <2>3, <3>1 DEF FoundGood
    <3>a. ~strained /\ mode # "live"
      BY <1>13
    <3> SUFFICES /\ FoundIn(view'.found, recorded[view.id], Wire', missed, last[view.id], only, view.id)
                 /\ \A i \in 1..Len(view'.found) : Past(Wire', view'.found[i].seq)
      BY <1>1, <2>3 DEF Finds
    <3>2. mode = "query"
      BY <1>0, <3>a DEF PageTypes
    <3>3. Wire = way /\ Wire' = Tail(way)
      BY <1>10, <1>11
    <3>4. /\ Ordered(view.found) /\ AllOf(view.found, view.id) /\ NoneOver(view.found, last[view.id])
          /\ \A i \in 1..Len(view.found) : Matches(view.found[i], only) /\ Past(way, view.found[i].seq)
          /\ \A i \in 1..Len(recorded[view.id]) : Matches(recorded[view.id][i], only) =>
               \/ recorded[view.id][i] \in missed
               \/ \E k \in 1..Len(way) : way[k] = recorded[view.id][i]
               \/ \E n \in 1..Len(view.found) : view.found[n] = recorded[view.id][i]
      BY <1>0, <3>3, <3>a DEF FoundGood, Finds, FoundIn
    <3>5. Ordered(way) /\ NoneOver(way, last[view.id])
      BY <1>0, <3>3 DEF StreamFollows
    <3>6. rec.seq <= last[view.id] /\ Past(Tail(way), rec.seq)
      BY <2>12, <3>5
    <3>7. \A i \in 1..Len(view.found) : Past(Tail(way), view.found[i].seq) /\ view.found[i].seq < rec.seq
      BY <2>12, <3>4 DEF Past
    <3>8. CASE joins
      <4>1. /\ Len(view.found) + 1 \in 1..Len(Append(view.found, rec)) /\ Append(view.found, rec)[Len(view.found) + 1] = rec
            /\ \A i \in 1..Len(view.found) : /\ i \in 1..Len(Append(view.found, rec))
                                             /\ Append(view.found, rec)[i] = view.found[i]
        BY <1>4, <2>1, JoinedIs
      <4>2. \A i \in 1..Len(Append(view.found, rec)) :
              Append(view.found, rec)[i] = rec \/ \E k \in 1..Len(view.found) : Append(view.found, rec)[i] = view.found[k]
        BY <1>4, <2>1, JoinedFrom
      <4>3. rec.seq - 1 \in Nat /\ rec.seq - 1 < rec.seq /\ NoneOver(view.found, rec.seq - 1)
        <5>1. rec.seq - 1 \in Nat /\ rec.seq - 1 < rec.seq
          BY <1>4, <2>1, <2>2
        <5>2. \A i \in 1..Len(view.found) : view.found[i].seq \in Nat
          BY <2>1, RecordsAre
        <5>3. \A i \in 1..Len(view.found) : view.found[i].seq <= rec.seq - 1
          BY <1>4, <3>7, <5>2
        <5> QED
          BY <5>1, <5>3 DEF NoneOver
      <4>4. Ordered(Append(view.found, rec))
        BY <1>4, <2>1, <3>4, <4>3, JoinedIs
      <4>5. last[view.id] \in Nat
        BY <1>0, <2>4, NumbersAre
      <4>6. NoneOver(Append(view.found, rec), last[view.id])
        BY <1>4, <2>1, <3>4, <3>6, <4>5, JoinedIs
      <4>7. rec.of = view.id
        BY <1>10, <1>11
      <4>8. AllOf(Append(view.found, rec), view.id)
        BY <1>4, <2>1, <3>4, <4>7, JoinedIs
      <4>9. \A i \in 1..Len(Append(view.found, rec)) : Matches(Append(view.found, rec)[i], only)
        BY <2>5, <3>4, <3>8, <4>2
      <4>10. \A i \in 1..Len(Append(view.found, rec)) : Past(Tail(way), Append(view.found, rec)[i].seq)
        BY <3>6, <3>7, <4>2
      <4>11. ASSUME NEW i \in 1..Len(recorded[view.id]), Matches(recorded[view.id][i], only)
             PROVE  \/ recorded[view.id][i] \in missed
                    \/ \E k \in 1..Len(Tail(way)) : Tail(way)[k] = recorded[view.id][i]
                    \/ \E n \in 1..Len(Append(view.found, rec)) : Append(view.found, rec)[n] = recorded[view.id][i]
        <5>1. CASE \E k \in 1..Len(way) : way[k] = recorded[view.id][i]
          <6>1. recorded[view.id][i] = rec \/ \E k \in 1..Len(Tail(way)) : Tail(way)[k] = recorded[view.id][i]
            BY <2>12, <5>1
          <6> QED
            BY <4>1, <6>1
        <5>2. CASE \E n \in 1..Len(view.found) : view.found[n] = recorded[view.id][i]
          BY <4>1, <5>2
        <5> QED
          BY <3>4, <4>11, <5>1, <5>2
      <4>12. view'.found = Append(view.found, rec)
        BY <2>3, <3>8
      <4>13. FoundIn(Append(view.found, rec), recorded[view.id], Tail(way), missed, last[view.id], only, view.id)
        BY <4>4, <4>6, <4>8, <4>9, <4>11 DEF FoundIn
      <4> QED
        BY <3>3, <4>10, <4>12, <4>13
    <3>9. CASE ~joins
      <4>1. ~Matches(rec, only) /\ view'.found = view.found
        BY <2>3, <2>5, <3>2, <3>9
      <4>2. ASSUME NEW i \in 1..Len(recorded[view.id]), Matches(recorded[view.id][i], only)
            PROVE  \/ recorded[view.id][i] \in missed
                   \/ \E k \in 1..Len(Tail(way)) : Tail(way)[k] = recorded[view.id][i]
                   \/ \E n \in 1..Len(view.found) : view.found[n] = recorded[view.id][i]
        <5>1. CASE \E k \in 1..Len(way) : way[k] = recorded[view.id][i]
          <6>1. recorded[view.id][i] = rec \/ \E k \in 1..Len(Tail(way)) : Tail(way)[k] = recorded[view.id][i]
            BY <2>12, <5>1
          <6> QED
            BY <4>1, <4>2, <6>1
        <5> QED
          BY <3>4, <4>2, <5>1
      <4>3. FoundIn(view.found, recorded[view.id], Tail(way), missed, last[view.id], only, view.id)
        BY <3>4, <4>2 DEF FoundIn
      <4> QED
        BY <3>3, <3>7, <4>1, <4>3
    <3> QED
      BY <3>8, <3>9
  <2> QED
    BY <1>8, <1>9, <2>7, <2>8, <2>9, <2>10, <2>11, <2>13, <2>14, <2>15 DEF PageInv
<1> QED
  BY <1>3, <1>12, <1>13

(***************************************************************************)
(* A buffer is there.                                                      *)
LEMMA AreIn ==
  ASSUME NEW T, NEW R, NEW s \in Seq(T), \A i \in 1..Len(s) : s[i] \in R
  PROVE  s \in Seq(R)
<1>1. Len(s) \in Nat /\ s \in [1..Len(s) -> T]
  BY LenProperties
<1>2. s \in [1..Len(s) -> R]
  BY <1>1
<1> QED
  BY <1>1, <1>2, SeqDef

(* The view after the records of a buffer of the agent a. *)
LEMMA SnapshotIs ==
  ASSUME NEW v0 \in Views, NEW recs \in Seq(Captured), NEW a, NEW m, NEW own \in BOOLEAN, NEW bounded \in BOOLEAN,
         Ordered(v0.records), NoneOver(v0.records, v0.lastSeq), own => AllOf(v0.records, a), bounded => v0.lastSeq <= m,
         AllOf(recs, a), bounded => NoneOver(recs, m)
  PROVE  LET v == AppliedAll(v0, recs) IN
         /\ v \in Views /\ v.id = v0.id /\ v.es = v0.es /\ v.found = v0.found /\ v.ran = v0.ran
         /\ Ordered(v.records) /\ NoneOver(v.records, v.lastSeq)
         /\ own => AllOf(v.records, a)
         /\ bounded => v.lastSeq <= m
<1> DEFINE R == {r \in Captured : r.of = a /\ (bounded => r.seq <= m)}
           Good(w) == /\ w.id = v0.id /\ w.es = v0.es /\ w.found = v0.found /\ w.ran = v0.ran
                      /\ Ordered(w.records) /\ NoneOver(w.records, w.lastSeq)
                      /\ own => AllOf(w.records, a)
                      /\ bounded => w.lastSeq <= m
           G == {w \in Views : Good(w)}
<1>1. recs \in Seq(R)
  <2>1. \A i \in 1..Len(recs) : recs[i] \in R
    BY RecordsAre DEF AllOf, NoneOver
  <2> HIDE DEF R
  <2> QED
    BY <2>1, AreIn
<1>2. v0 \in G
  OBVIOUS
<1>3. ASSUME NEW w \in G, NEW r \in R PROVE Applied(w, r) \in G
  <2>1. /\ w \in Views /\ r \in Captured /\ r.of = a /\ (bounded => r.seq <= m) /\ Good(w)
    OBVIOUS
  <2>2. /\ w.records \in Seq(Captured) /\ w.lastSeq \in Nat /\ r.seq \in 0..MaxCaptured /\ r.seq \in Nat
        /\ Append(w.records, r) \in Seq(Captured)
    <3>1. r.seq \in 1..MaxCaptured
      BY <2>1 DEF Captured
    <3>2. 1..MaxCaptured \subseteq Nat /\ 1..MaxCaptured \subseteq 0..MaxCaptured
      BY PageSizesAre
    <3>3. w.records \in Seq(Captured) /\ w.lastSeq \in Nat
      BY <2>1, ViewsAre
    <3> QED
      BY <2>1, <3>1, <3>2, <3>3, JoinedIs
  <2>3. CASE r.seq <= w.lastSeq
    BY <2>1, <2>3 DEF Applied
  <2>4. CASE ~(r.seq <= w.lastSeq)
    <3> DEFINE x == Applied(w, r)
    <3>1. x = [w EXCEPT !.lastSeq = r.seq, !.records = Append(@, r)]
      BY <2>4 DEF Applied
    <3> HIDE DEF x
    <3>2. /\ x \in Views /\ x.id = w.id /\ x.es = w.es /\ x.found = w.found /\ x.ran = w.ran
          /\ x.lastSeq = r.seq /\ x.records = Append(w.records, r)
      BY <2>1, <2>2, <3>1 DEF Views
    <3>3. w.lastSeq < r.seq /\ w.lastSeq <= r.seq
      BY <2>2, <2>4
    <3>4. /\ Ordered(w.records) /\ NoneOver(w.records, w.lastSeq) /\ (own => AllOf(w.records, a))
      BY <2>1
    <3>5. Ordered(Append(w.records, r)) /\ NoneOver(Append(w.records, r), r.seq)
      BY <2>1, <2>2, <3>3, <3>4, JoinedIs
    <3>6. own => AllOf(Append(w.records, r), a)
      BY <2>1, <2>2, <3>4, JoinedIs
    <3>7. Good(x)
      BY <2>1, <3>2, <3>5, <3>6
    <3> QED
      BY <3>2, <3>7 DEF x
  <2> QED
    BY <2>3, <2>4
<1>4. AppliedAll(v0, recs) \in G
  <2> HIDE DEF R, G
  <2> QED
    BY <1>1, <1>2, <1>3, AppliedAllIn
<1> QED
  BY <1>4

(* The snapshot comes, and with it the stream: none is lost between the two. *)
LEMMA SnapshotHeardKeeps ==
  ASSUME PageInv, NEW q \in requests, SnapshotHeard(q)
  PROVE  PageInv'
<1>0. /\ PageTypes /\ CountTypes /\ ToldTypes /\ BuffersOwn /\ StreamsOwn /\ AnswersOwn /\ SelectionOwn
      /\ ViewOrder /\ StreamFollows /\ PanelsCatchUp /\ view \in Views
  BY DEF PageInv, PageTypes
<1>1. /\ q.what = "snapshot" /\ q.at = "served"
      /\ recorded' = recorded /\ last' = last /\ screen' = screen /\ expanded' = expanded
      /\ mode' = mode /\ raf' = raf /\ captured' = captured /\ picks' = picks /\ upsets' = upsets
      /\ renumbered' = renumbered /\ stray' = (stray \/ (q.of = view.id /\ view.es # 0))
      /\ only' = only
  BY DEF SnapshotHeard, hub
<1>2. CASE q.of # view.id
  <2>1. /\ requests' = requests \ {q} /\ sources' = sources /\ view' = view /\ painted' = painted /\ dirty' = dirty
        /\ asked' = asked /\ strained' = strained /\ missed' = missed
    BY <1>2 DEF SnapshotHeard
  <2>2. stray' = stray
    BY <1>0, <1>1, <1>2 DEF ToldTypes
  <2>3. SelectionRests
    BY <1>1, <2>1, <2>2 DEF SelectionRests
  <2>4. requests' \in SUBSET Asks /\ AnswersOwn'
    BY <1>1, <2>1, FewerAnswers
  <2>5. PageTypes' /\ CountTypes' /\ ToldTypes'
    BY <1>0, <1>1, <2>1, <2>2, <2>4 DEF PageTypes, CountTypes, ToldTypes
  <2>6. Queries' = Queries
    BY <1>1, <2>1, QueriesRest
  <2>7. FoundGood' /\ AnswerGood'
    BY <1>1, <2>1, <2>3, <2>6, FoundRests
  <2>8. PanelsCatchUp'
    BY <1>0, <1>1, <2>1 DEF PanelsCatchUp, InSight, Content
  <2> QED
    BY <2>3, <2>4, <2>5, <2>7, <2>8, SelectionRestsKeeps DEF PageInv
<1>3. CASE q.of = view.id
  <2> DEFINE v == AppliedAll(view, q.recs)
             new == [of |-> q.of, state |-> "opening", wire |-> <<>>]
             x == [n |-> Numbered + 1, what |-> "query", of |-> view.id, at |-> "sent", only |-> only', recs |-> <<>>]
  <2>1. /\ view' = [v EXCEPT !.es = Len(sources) + 1] /\ sources' = Append(sources, new)
        /\ painted' = [p \in Panels |-> Content(p, v, mode)] /\ dirty' = {}
        /\ missed' = missed \cup {recorded[q.of][i] : i \in {j \in DOMAIN recorded[q.of] :
                      \A k \in DOMAIN view'.records : view'.records[k] # recorded[q.of][j]}}
    BY <1>3 DEF SnapshotHeard, DrawAll
  <2>2. \/ /\ mode = "query" /\ asked < MaxAsked /\ asked' = asked + 1
           /\ requests' = (requests \ {q}) \cup {x} /\ strained' = (strained \/ Queries # {})
        \/ mode # "query" /\ requests' = requests \ {q} /\ asked' = asked /\ strained' = (strained \/ view.ran)
    BY <1>3 DEF SnapshotHeard, QueryRuns
  <2>3. view.id \in Watched /\ q.recs \in Seq(Captured) /\ q.of = view.id
    BY <1>0, <1>3 DEF PageTypes, Asks
  <2>4. new \in Streams /\ new.of = view.id /\ new.wire = <<>> /\ new.state = "opening"
    BY <2>3, NoRecords DEF Streams
  <2>5. last[view.id] \in Nat /\ recorded[view.id] \in Seq(Captured)
    BY <1>0, <2>3, NumbersAre
  <2>6. stray' = (stray \/ view.es # 0)
    BY <1>1, <1>3
  <2>7. ~stray' => ~stray /\ view.es = 0
    BY <2>6
  <2>8. /\ v \in Views /\ v.id = view.id /\ v.es = view.es /\ v.found = view.found /\ v.ran = view.ran
        /\ Ordered(v.records) /\ NoneOver(v.records, v.lastSeq)
        /\ ~stray' => AllOf(v.records, view.id)
        /\ ~stray' /\ view.id \notin renumbered => v.lastSeq <= last[view.id]
    <3> DEFINE own == ~stray'
               bounded == ~stray' /\ view.id \notin renumbered
    <3>1. own \in BOOLEAN /\ bounded \in BOOLEAN
      OBVIOUS
    <3>2. Ordered(view.records) /\ NoneOver(view.records, view.lastSeq) /\ (own => AllOf(view.records, view.id))
      BY <1>0, <2>7 DEF ViewOrder
    <3>3. bounded => view.lastSeq <= last[view.id]
      BY <1>0, <2>5, <2>7 DEF ViewOrder
    <3>4. AllOf(q.recs, view.id) /\ (bounded => NoneOver(q.recs, last[view.id]))
      BY <1>0, <2>3 DEF AnswersOwn
    <3>5. (own <=> ~stray') /\ (bounded <=> ~stray' /\ view.id \notin renumbered)
      OBVIOUS
    <3> HIDE DEF own, bounded, v
    <3>6. LET w == AppliedAll(view, q.recs) IN
          /\ w \in Views /\ w.id = view.id /\ w.es = view.es /\ w.found = view.found /\ w.ran = view.ran
          /\ Ordered(w.records) /\ NoneOver(w.records, w.lastSeq)
          /\ own => AllOf(w.records, view.id)
          /\ bounded => w.lastSeq <= last[view.id]
      BY <1>0, <2>3, <3>1, <3>2, <3>3, <3>4, SnapshotIs
    <3> QED
      BY <3>5, <3>6 DEF v
  <2> HIDE DEF v, new
  <2>9. /\ Len(sources) \in Nat /\ \A i \in 1..Len(sources) : sources[i] \in Streams
        /\ sources \in Seq(Streams)
    BY <1>0, StreamsAre DEF PageTypes
  <2>10. /\ view' \in Views /\ view'.id = view.id /\ view'.es = Len(sources) + 1 /\ view'.found = view.found
         /\ view'.ran = view.ran /\ view'.records = v.records /\ view'.lastSeq = v.lastSeq
    <3>1. Len(sources) + 1 \in Nat
      BY <2>9
    <3> QED
      BY <2>1, <2>8, <3>1 DEF Views
  <2>11. /\ sources' \in Seq(Streams) /\ Len(sources') = Len(sources) + 1
         /\ sources'[Len(sources) + 1] = new /\ \A i \in 1..Len(sources) : sources'[i] = sources[i]
         /\ \A i \in 1..Len(sources') : i = Len(sources) + 1 \/ i \in 1..Len(sources)
         /\ Len(sources) + 1 \in 1..Len(sources') /\ Len(sources) + 1 \in 0..Len(sources') /\ Len(sources) + 1 # 0
    <3>1. /\ Append(sources, new) \in Seq(Streams) /\ Len(Append(sources, new)) = Len(sources) + 1
          /\ Append(sources, new)[Len(sources) + 1] = new
          /\ \A i \in 1..Len(sources) : Append(sources, new)[i] = sources[i]
      BY <2>4, <2>9, AppendProperties
    <3>2. \A n \in Nat : n + 1 # 0 /\ n + 1 \in 1..(n + 1) /\ n + 1 \in 0..(n + 1) /\ \A i \in 1..(n + 1) : i = n + 1 \/ i \in 1..n
      OBVIOUS
    <3> QED
      BY <2>1, <2>9, <3>1, <3>2
  <2>12. x \in Asks \/ mode # "query"
    <3> SUFFICES ASSUME mode = "query" PROVE x \in Asks
      OBVIOUS
    <3>1. asked < MaxAsked /\ only' \in SUBSET RecordKinds
      BY <1>0, <1>1, <2>2 DEF PageTypes
    <3> QED
      BY <2>3, <3>1, AskedIs
  <2>13. x.recs = <<>> /\ x.what = "query" /\ x.of = view.id /\ x.at = "sent" /\ x.only = only'
    OBVIOUS
  <2> HIDE DEF x
  <2>14. requests' \in SUBSET Asks /\ AnswersOwn'
    <3>1. UNCHANGED <<last, renumbered>>
      BY <1>1
    <3>2. CASE mode = "query"
      BY <2>2, <2>12, <2>13, <3>1, <3>2, MoreAnswers
    <3>3. CASE mode # "query"
      BY <2>2, <3>1, <3>3, FewerAnswers
    <3> QED
      BY <3>2, <3>3
  <2>15. \A p \in Panels : Content(p, v, mode) \in Seq(Captured)
    BY <2>8, ContentIs
  <2>16. PageTypes'
    <3>1. painted' \in [Panels -> Seq(Captured)] /\ dirty' \in SUBSET Panels
      BY <2>1, <2>15
    <3>2. view'.es \in 0..Len(sources')
      BY <2>10, <2>11
    <3>3. sources' \in Seq(Streams) /\ view' \in Views /\ requests' \subseteq Asks
      BY <2>10, <2>11, <2>14
    <3> QED
      BY <1>0, <1>1, <3>1, <3>2, <3>3 DEF PageTypes
  <2>17. CountTypes'
    <3>1. asked' \in 0..MaxAsked
      BY <1>0, <2>2, PageSizesAre DEF CountTypes
    <3> QED
      BY <1>0, <1>1, <3>1 DEF CountTypes
  <2>18. ToldTypes'
    <3>1. \A i \in DOMAIN recorded[q.of] : recorded[q.of][i] \in Captured
      BY <2>3, <2>5, RecordsAre
    <3>2. missed' \subseteq Captured
      BY <1>0, <2>1, <3>1 DEF ToldTypes
    <3>3. stray' \in BOOLEAN /\ strained' \in BOOLEAN
      BY <2>2, <2>6
    <3> QED
      BY <1>0, <1>1, <3>2, <3>3 DEF ToldTypes
  <2>19. BuffersOwn'
    BY <1>0, <1>1 DEF BuffersOwn
  <2>20. StreamsOwn'
    <3> SUFFICES ASSUME NEW i \in 1..Len(sources')
                 PROVE  AllOf(sources'[i].wire, sources'[i].of) /\ (sources'[i].state = "closed" => sources'[i].wire = <<>>)
      BY DEF StreamsOwn
    <3>1. CASE i = Len(sources) + 1
      BY <2>4, <2>11, <3>1, NoRecords
    <3>2. CASE i \in 1..Len(sources)
      BY <1>0, <2>11, <3>2 DEF StreamsOwn
    <3> QED
      BY <2>11, <3>1, <3>2
  <2>21. SelectionOwn'
    <3>1. ~stray' => \A i \in 1..Len(sources') : sources'[i].state # "closed" => i = Len(sources) + 1
      <4> SUFFICES ASSUME ~stray', NEW i \in 1..Len(sources'), sources'[i].state # "closed", i \in 1..Len(sources) PROVE FALSE
        BY <2>11
      <4>1. i = view.es
        BY <1>0, <2>7, <2>11 DEF SelectionOwn
      <4>2. i # 0
        BY <2>9
      <4> QED
        BY <2>7, <4>1, <4>2
    <3> QED
      BY <2>3, <2>4, <2>10, <2>11, <3>1 DEF SelectionOwn
  <2>22. ViewOrder'
    BY <2>8, <2>10, <2>11 DEF ViewOrder
  <2>23. Wire' = <<>>
    BY <2>4, <2>10, <2>11 DEF Wire
  <2>24. StreamFollows'
    <3> SUFFICES ASSUME ~stray', view.id \notin renumbered
                 PROVE  v.lastSeq <= last[view.id] /\ NoneLost'
      BY <1>1, <2>10, <2>23, NoRecords DEF StreamFollows
    <3>1. DOMAIN recorded[view.id] = 1..Len(recorded[view.id]) /\ DOMAIN view'.records = 1..Len(view'.records)
      BY <2>5, <2>10, ViewsAre, RecordsAre
    <3>2. NoneLost'
      <4> SUFFICES ASSUME NEW i \in 1..Len(recorded[view.id]),
                          \A n \in 1..Len(view'.records) : view'.records[n] # recorded[view.id][i]
                   PROVE  recorded[view.id][i] \in missed'
        BY <1>1, <2>10 DEF NoneLost
      <4>1. i \in DOMAIN recorded[view.id] /\ \A k \in DOMAIN view'.records : view'.records[k] # recorded[view.id][i]
        BY <3>1
      <4>2. q.of = view.id
        BY <2>3
      <4> QED
        BY <2>1, <4>1, <4>2
    <3> QED
      BY <2>8, <3>2
  <2>25. FoundGood'
    <3>1. CASE mode = "query"
      <4>1. x \in Queries'
        BY <2>2, <2>10, <2>13, <3>1 DEF Queries
      <4> QED
        BY <4>1 DEF FoundGood
    <3>2. CASE mode # "query"
      BY <2>2, <2>10, <3>2 DEF FoundGood
    <3> QED
      BY <3>1, <3>2
  <2>26. AnswerGood'
    <3>1. CASE mode = "query"
      <4> SUFFICES ASSUME ~strained', NEW r \in Queries'
                   PROVE  Wire' = <<>> /\ r.only = only' /\ r.at # "served"
        BY DEF AnswerGood
      <4>1. Queries = {}
        BY <2>2, <3>1
      <4>2. r = x
        BY <2>2, <2>10, <3>1, <4>1 DEF Queries
      <4> QED
        BY <2>13, <2>23, <4>2
    <3>2. CASE mode # "query"
      BY <1>1, <2>2, <2>10, <3>2 DEF AnswerGood
    <3> QED
      BY <3>1, <3>2
  <2>27. PanelsCatchUp'
    <3>1. \A p \in Panels : Content(p, view', mode) = Content(p, v, mode)
      BY <2>8, <2>10 DEF Content
    <3>2. \A p \in Panels : painted'[p] = Content(p, v, mode)
      BY <2>1
    <3> QED
      BY <1>1, <3>1, <3>2 DEF PanelsCatchUp
  <2> QED
    BY <2>14, <2>16, <2>17, <2>18, <2>19, <2>20, <2>21, <2>22, <2>24, <2>25, <2>26, <2>27 DEF PageInv
<1> QED
  BY <1>2, <1>3

(* Every step keeps the page's invariant. *)
LEMMA PageKeeps ==
  ASSUME PageInv, INext \/ UNCHANGED ivars
  PROVE  PageInv'
<1>1. CASE UNCHANGED ivars
  <2>1. /\ SelectionRests /\ requests' = requests /\ captured' = captured /\ picks' = picks /\ asked' = asked
        /\ upsets' = upsets /\ screen' = screen /\ expanded' = expanded /\ mode' = mode /\ only' = only
        /\ dirty' = dirty /\ raf' = raf /\ painted' = painted /\ strained' = strained /\ view' = view
        /\ missed' = missed /\ renumbered' = renumbered /\ stray' = stray /\ recorded' = recorded /\ last' = last
        /\ sources' = sources
    BY <1>1 DEF ivars, hub, chosen, drawing, counts, told, SelectionRests
  <2>2. PageTypes /\ CountTypes /\ ToldTypes /\ PanelsCatchUp
    BY DEF PageInv
  <2>3. PageTypes' /\ CountTypes' /\ ToldTypes'
    BY <2>1, <2>2 DEF PageTypes, CountTypes, ToldTypes
  <2>4. PanelsCatchUp'
    BY <2>1, <2>2 DEF PanelsCatchUp, InSight, Content
  <2>5. Queries' = Queries
    BY <2>1 DEF Queries
  <2>6. FoundGood' /\ AnswerGood'
    BY <2>1, <2>5, FoundRests
  <2>7. AnswersOwn'
    BY <2>1, FewerAnswers
  <2> QED
    BY <2>1, <2>3, <2>4, <2>6, <2>7, SelectionRestsKeeps DEF PageInv
<1>2. CASE InspectorHub
  <2>1. \/ \E a \in Watched : \/ \E kind \in RecordKinds : Capture(a, kind)
                              \/ \E persisted \in BOOLEAN : AgentRestarts(a, persisted)
        \/ \E q \in requests : ServeRequest(q)
        \/ \E i \in DOMAIN sources : ServeStreamOf(i) \/ StreamLost(i)
    BY <1>2 DEF InspectorHub
  <2> QED
    BY <2>1, CaptureKeeps, RestartKeeps, ServeRequestKeeps, ServeStreamKeeps, StreamLostKeeps
<1>3. CASE InspectorTab
  <2>1. \/ AnimationFrame \/ \E to \in {"overview"} \cup Panels : Expand(to)
        \/ PickNone \/ PressClear
        \/ SetLogSource \/ \E kinds \in {{}, {"log"}} : RunQuery(kinds)
        \/ \E a \in Watched : PickAgent(a)
        \/ \E i \in DOMAIN sources : OnRecord(i)
        \/ \E q \in requests : \/ SnapshotHeard(q) \/ SnapshotFails(q) \/ Refused(q) \/ QueryHeard(q)
                               \/ RequestFails(q) \/ ClearHeard(q)
    BY <1>3 DEF InspectorTab
  <2>2. CASE AnimationFrame \/ \E to \in {"overview"} \cup Panels : Expand(to)
    BY <2>2, SightKeeps
  <2>3. CASE PickNone \/ PressClear
    BY <2>3, PickNoneKeeps, PressClearKeeps
  <2>4. CASE SetLogSource \/ \E kinds \in {{}, {"log"}} : RunQuery(kinds)
    BY <2>4, AskingKeeps
  <2>5. CASE \E a \in Watched : PickAgent(a)
    BY <2>5, PickKeeps
  <2>6. CASE \E i \in DOMAIN sources : OnRecord(i)
    BY <2>6, OnRecordKeeps
  <2>7. CASE \E q \in requests : \/ SnapshotHeard(q) \/ SnapshotFails(q) \/ Refused(q) \/ QueryHeard(q)
                                 \/ RequestFails(q) \/ ClearHeard(q)
    BY <2>7, SnapshotHeardKeeps, SnapshotFailsKeeps, RefusalKeeps, QueryHeardKeeps, ClearHeardKeeps
  <2> QED
    BY <2>1, <2>2, <2>3, <2>4, <2>5, <2>6, <2>7
<1> QED
  BY <1>1, <1>2, <1>3 DEF INext

----------------------------------------------------------------------------
(***************************************************************************)
(* The logbook.                                                            *)

LogLines == Seq(0..MaxRecords)
LogFile == [lines : LogLines, torn : BOOLEAN]
LogHows == {"none", "append", "rewrite", "truncated"}

LogbookInv ==
  /\ records \in Seq(1..MaxRecords) /\ Len(records) <= RingSize
  /\ nextRecord \in 1..(MaxRecords + 1)
  /\ fileLines \in Nat
  /\ queued \in Seq(1..MaxRecords) /\ Len(queued) <= MaxQueued
  /\ job \in [how : LogHows, lines : LogLines]
  /\ job.how = "append" => Len(job.lines) = 1 /\ job.lines[1] # 0
  /\ log \in LogFile
  /\ tornDown \in BOOLEAN /\ missing \in BOOLEAN
  /\ bstarts \in 1..MaxBStarts

(* The sizes of the logbook are numbers. *)
LEMMA LogbookSizesAre ==
  /\ RingSize \in Nat /\ RingSize > 0 /\ FileEntries \in Nat /\ FileEntries > 0 /\ MaxRecords \in Nat
  /\ MaxQueued \in Nat /\ MaxBStarts \in Nat /\ MaxBStarts > 0
BY LogbookSizes, LogbookBounds

(* The types follow. *)
LEMMA LogbookTypeOK == LogbookInv => KTypeOK
<1> SUFFICES ASSUME LogbookInv PROVE KTypeOK
  OBVIOUS
<1> QED
  BY DEF LogbookInv, KTypeOK, LogHows, LogFile, LogLines

(* The lines that can be read. *)
LEMMA ReadableLines ==
  ASSUME NEW m \in Nat, NEW f, f.lines \in Seq(0..m)
  PROVE  Readable(f) \in Seq(1..m)
<1> DEFINE s == f.lines
           P == {i \in DOMAIN s : s[i] # 0}
           t == Picked(s, P)
           c == Cardinality(P)
<1>0. s \in Seq(0..m)
  OBVIOUS
<1>1. Readable(f) = t
  BY DEF Readable
<1>2. P \in SUBSET (1..Len(s)) /\ \A i \in P : s[i] # 0 /\ s[i] \in 0..m
  BY <1>0, LenProperties, ElementOfSeq
<1> HIDE DEF s, P
<1>3. /\ t \in Seq(0..m) /\ Len(t) = c /\ c \in 0..Len(s) /\ Len(s) \in Nat
      /\ Nth(P) \in [1..c -> P]
      /\ \A n \in 1..c : t[n] = s[Nth(P)[n]]
  BY <1>0, <1>2, PickedIs
<1> HIDE DEF t, c
<1>4. ASSUME NEW n \in 1..c PROVE t[n] \in 1..m
  <2>1. t[n] # 0 /\ t[n] \in 0..m
    BY <1>2, <1>3
  <2> DEFINE x == t[n]
  <2> HIDE DEF x
  <2>2. x # 0 /\ x \in 0..m
    BY <2>1 DEF x
  <2>3. x \in 1..m
    BY <2>2
  <2> QED
    BY <2>3 DEF x
<1>5. DOMAIN t = 1..c /\ t = [n \in 1..c |-> t[n]] /\ c \in Nat
  BY <1>3, LenProperties
<1>6. t \in [1..c -> 1..m]
  BY <1>4, <1>5
<1> QED
  BY <1>1, <1>5, <1>6, SeqDef

(* A beginning of a sequence. *)
LEMMA BeginningOf ==
  ASSUME NEW T, NEW s \in Seq(T), NEW n \in 0..(Len(s) - 1)
  PROVE  SubSeq(s, 1, n) \in Seq(T)
<1>1. Len(s) \in Nat
  BY LenProperties
<1>2. \A i \in 1..n : i \in 1..Len(s)
  BY <1>1
<1>3. \A i \in 1..n : s[i] \in T
  BY <1>2, ElementOfSeq
<1> QED
  BY <1>1, <1>3, SubSeqProperties

(* What a write makes of a file, done or not. *)
LEMMA FileAfter ==
  ASSUME NEW m \in Nat, NEW f \in [lines : Seq(0..m), torn : BOOLEAN], NEW w, w.lines \in Seq(0..m),
         w.how = "append" => w.lines[1] \in 0..m
  PROVE  /\ Written(f, w) \in [lines : Seq(0..m), torn : BOOLEAN]
         /\ \A g \in Leftovers(f, w) : g \in [lines : Seq(0..m), torn : BOOLEAN]
<1> DEFINE File == [lines : Seq(0..m), torn : BOOLEAN]
<1>0. f.lines \in Seq(0..m) /\ 0 \in 0..m
  OBVIOUS
<1>1. \A s \in Seq(0..m) : Whole(s) \in File /\ [lines |-> s, torn |-> TRUE] \in File
  BY DEF Whole
<1>2. \A s \in Seq(0..m), x \in 0..m : Append(s, x) \in Seq(0..m)
  BY AppendProperties
<1>3. \A x \in 0..m : Added(f, x) \in File
  BY <1>0, <1>1, <1>2 DEF Added
<1>4. \A n \in 0..(Len(w.lines) - 1) : SubSeq(w.lines, 1, n) \in Seq(0..m)
  BY BeginningOf
<1> HIDE DEF File
<1>5. Written(f, w) \in File
  <2>1. f \in File
    BY DEF File
  <2>2. CASE w.how = "append"
    BY <1>3, <2>2 DEF Written
  <2>3. CASE w.how \in {"clear", "rewrite", "truncated"}
    BY <1>1, <2>3 DEF Written
  <2>4. CASE w.how \notin {"append", "clear", "rewrite", "truncated"}
    BY <2>1, <2>4 DEF Written
  <2> QED
    BY <2>2, <2>3, <2>4
<1>6. ASSUME NEW g \in Leftovers(f, w) PROVE g \in File
  <2>1. f \in File
    BY DEF File
  <2>2. CASE w.how = "append"
    <3>1. g = f \/ g = Added(f, w.lines[1]) \/ g = [lines |-> Append(f.lines, 0), torn |-> TRUE]
      BY <2>2 DEF Leftovers
    <3> QED
      BY <1>0, <1>1, <1>2, <1>3, <2>1, <2>2, <3>1
  <2>3. CASE w.how = "truncated"
    <3>1. \/ g = Whole(w.lines)
          \/ \E n \in 0..(Len(w.lines) - 1) :
               \/ g = Whole(SubSeq(w.lines, 1, n))
               \/ g = [lines |-> Append(SubSeq(w.lines, 1, n), 0), torn |-> TRUE]
      BY <2>3 DEF Leftovers
    <3> QED
      BY <1>0, <1>1, <1>2, <1>4, <3>1
  <2>4. CASE w.how \notin {"append", "truncated"}
    <3>1. g = f
      BY <2>4 DEF Leftovers
    <3> QED
      BY <2>1, <3>1
  <2> QED
    BY <2>2, <2>3, <2>4
<1> QED
  BY <1>5, <1>6 DEF File

(* An empty logbook is as it should be. *)
LEMMA LogbookStarts == BInit => LogbookInv
<1> SUFFICES ASSUME BInit PROVE LogbookInv
  OBVIOUS
<1>1. job \in [how : LogHows, lines : LogLines] /\ job.how = "none"
  BY EmptySeq DEF BInit, NoWrite, LogHows, LogLines
<1>2. log \in LogFile
  BY EmptySeq DEF BInit, Whole, LogFile, LogLines
<1>3. bstarts \in 1..MaxBStarts /\ nextRecord \in 1..(MaxRecords + 1) /\ fileLines \in Nat
  BY LogbookSizesAre DEF BInit
<1>4. /\ records \in Seq(1..MaxRecords) /\ Len(records) = 0
      /\ queued \in Seq(1..MaxRecords) /\ Len(queued) = 0
  BY EmptySeq DEF BInit
<1>5. Len(records) <= RingSize /\ Len(queued) <= MaxQueued
  BY <1>4, LogbookSizesAre
<1> QED
  BY <1>1, <1>2, <1>3, <1>4, <1>5 DEF LogbookInv, BInit

(* What the file keeps of the ring is a text. *)
LEMMA KeptIs ==
  ASSUME LogbookInv
  PROVE  Kept(records) \in LogLines /\ Len(Kept(records)) \in Nat
<1>1. Kept(records) \in Seq(1..MaxRecords)
  BY LogbookSizesAre, NewerIs DEF Kept, LogbookInv
<1>2. \A i \in 1..MaxRecords : i \in 0..MaxRecords
  BY LogbookSizesAre
<1>3. Seq(1..MaxRecords) \subseteq LogLines
  <2>1. 1..MaxRecords \subseteq 0..MaxRecords
    BY <1>2
  <2>2. ASSUME NEW s \in Seq(1..MaxRecords) PROVE s \in Seq(0..MaxRecords)
    <3>1. Len(s) \in Nat /\ DOMAIN s = 1..Len(s) /\ s = [i \in 1..Len(s) |-> s[i]] /\ \A i \in 1..Len(s) : s[i] \in 1..MaxRecords
      BY LenProperties, ElementOfSeq
    <3>2. s \in [1..Len(s) -> 0..MaxRecords]
      BY <2>1, <3>1
    <3> DEFINE n == Len(s)
    <3> HIDE DEF n
    <3>3. n \in Nat /\ s \in [1..n -> 0..MaxRecords]
      BY <3>1, <3>2 DEF n
    <3>4. Seq(0..MaxRecords) = UNION {[1..k -> 0..MaxRecords] : k \in Nat}
      BY SeqDef
    <3> QED
      BY <3>3, <3>4
  <2> QED
    BY <2>2 DEF LogLines
<1> QED
  BY <1>1, <1>3, LenProperties

(* A write under way, and a kill in it, leave a text. *)
LEMMA LogAppends ==
  ASSUME LogbookInv
  PROVE  /\ job.how = "append" => job.lines[1] \in 0..MaxRecords
         /\ Written(log, job) \in LogFile
         /\ \A g \in Leftovers(log, job) : g \in LogFile
<1>1. job.how = "append" => job.lines[1] \in 0..MaxRecords
  <2> SUFFICES ASSUME job.how = "append" PROVE job.lines[1] \in 0..MaxRecords
    OBVIOUS
  <2>1. Len(job.lines) = 1 /\ job.lines \in Seq(0..MaxRecords)
    BY DEF LogbookInv, LogLines
  <2>2. 1 \in 1..Len(job.lines)
    BY <2>1
  <2> QED
    BY <2>1, <2>2, ElementOfSeq
<1>2. log \in [lines : Seq(0..MaxRecords), torn : BOOLEAN] /\ job.lines \in Seq(0..MaxRecords)
  BY DEF LogbookInv, LogFile, LogLines
<1> QED
  BY <1>1, <1>2, FileAfter, LogbookSizesAre DEF LogFile, LogLines

(* Every step keeps the logbook's types. *)
LEMMA LogbookKeepsInv ==
  ASSUME LogbookInv, BNext \/ UNCHANGED bvars
  PROVE  LogbookInv'
<1>a. /\ RingSize \in Nat /\ FileEntries \in Nat /\ MaxRecords \in Nat /\ MaxQueued \in Nat
      /\ MaxBStarts \in Nat /\ MaxBStarts > 0
  BY LogbookSizesAre
<1>1. CASE UNCHANGED bvars
  BY <1>1 DEF bvars, LogbookInv
<1>2. CASE AppendRecord
  <2>1. /\ nextRecord <= MaxRecords /\ Len(queued) < MaxQueued /\ nextRecord' = nextRecord + 1
        /\ records' = Newer(Append(records, nextRecord), RingSize)
        /\ queued' = Append(queued, nextRecord)
        /\ UNCHANGED <<fileLines, job, log, tornDown, missing, bstarts>>
    BY <1>2 DEF AppendRecord
  <2>2. nextRecord \in 1..MaxRecords /\ nextRecord' \in 1..(MaxRecords + 1)
    <3>1. nextRecord \in 1..(MaxRecords + 1)
      BY DEF LogbookInv
    <3> QED
      BY <1>a, <2>1, <3>1
  <2>3. Append(records, nextRecord) \in Seq(1..MaxRecords)
    BY <2>2, AppendProperties DEF LogbookInv
  <2>4. records' \in Seq(1..MaxRecords) /\ Len(records') <= RingSize
    <3> DEFINE s == Append(records, nextRecord)
    <3> HIDE DEF s
    <3>1. s \in Seq(1..MaxRecords)
      BY <2>3 DEF s
    <3>2. Newer(s, RingSize) \in Seq(1..MaxRecords) /\ Len(s) \in Nat
          /\ Len(Newer(s, RingSize)) = (IF Len(s) > RingSize THEN RingSize ELSE Len(s))
      BY <1>a, <3>1, NewerIs
    <3>3. Len(Newer(s, RingSize)) <= RingSize
      BY <1>a, <3>2
    <3> QED
      BY <2>1, <3>2, <3>3 DEF s
  <2>5. queued' \in Seq(1..MaxRecords) /\ Len(queued') <= MaxQueued
    <3>1. queued \in Seq(1..MaxRecords) /\ Len(queued) \in Nat
      BY LenProperties DEF LogbookInv
    <3>2. Append(queued, nextRecord) \in Seq(1..MaxRecords) /\ Len(Append(queued, nextRecord)) = Len(queued) + 1
      BY <2>2, <3>1, AppendProperties
    <3> QED
      BY <1>a, <2>1, <3>1, <3>2
  <2> QED
    BY <2>1, <2>2, <2>4, <2>5 DEF LogbookInv
<1>3. CASE TearDownLogbook
  <2>1. /\ tornDown' = TRUE /\ log' = Whole(Kept(records)) /\ fileLines' = Len(Kept(records))
        /\ UNCHANGED <<records, nextRecord, queued, job, missing, bstarts>>
    BY <1>3 DEF TearDownLogbook
  <2>2. log' \in LogFile /\ fileLines' \in Nat
    BY <2>1, KeptIs DEF Whole, LogFile
  <2> QED
    BY <2>1, <2>2 DEF LogbookInv
<1>4. CASE BeginAppend
  <2>1. /\ queued # <<>> /\ job' = Appending(Head(queued)) /\ queued' = Tail(queued)
        /\ UNCHANGED <<records, nextRecord, fileLines, log, tornDown, missing, bstarts>>
    BY <1>4 DEF BeginAppend
  <2>2. /\ queued \in Seq(1..MaxRecords) /\ Len(queued) \in Nat /\ Head(queued) \in 1..MaxRecords
        /\ Tail(queued) \in Seq(1..MaxRecords) /\ Len(Tail(queued)) = Len(queued) - 1
    BY <2>1, HeadTailProperties, LenProperties DEF LogbookInv
  <2>3. queued' \in Seq(1..MaxRecords) /\ Len(queued') <= MaxQueued
    <3>1. Len(queued) <= MaxQueued
      BY DEF LogbookInv
    <3> QED
      BY <1>a, <2>1, <2>2, <3>1
  <2>4. /\ job' \in [how : LogHows, lines : LogLines] /\ job'.how = "append"
        /\ Len(job'.lines) = 1 /\ job'.lines[1] # 0
    <3> DEFINE x == Head(queued)
    <3> HIDE DEF x
    <3>1. x \in 1..MaxRecords
      BY <2>2 DEF x
    <3>2. x \in 0..MaxRecords /\ x # 0
      BY <1>a, <3>1
    <3>3. <<x>> \in Seq(0..MaxRecords) /\ Len(<<x>>) = 1 /\ <<x>>[1] = x
      BY <3>2
    <3>4. job' = [how |-> "append", lines |-> <<x>>]
      BY <2>1 DEF Appending, x
    <3> QED
      BY <3>2, <3>3, <3>4 DEF LogHows, LogLines
  <2> QED
    BY <2>1, <2>3, <2>4 DEF LogbookInv
<1>5. CASE AppendLands
  <2>1. /\ log' = Written(log, job) /\ missing' = (missing \/ log.torn) /\ fileLines' = fileLines + 1
        /\ job' = Rewriting(Kept(records)) \/ job' = NoWrite
        /\ UNCHANGED <<records, nextRecord, queued, tornDown, bstarts>>
    BY <1>5 DEF AppendLands
  <2>2. log' \in LogFile
    BY <2>1, LogAppends
  <2>3. job' \in [how : LogHows, lines : LogLines] /\ job'.how # "append"
    <3>1. CASE job' = Rewriting(Kept(records))
      BY <3>1, KeptIs DEF Rewriting, LogHows
    <3>2. CASE job' = NoWrite
      BY <3>2, EmptySeq DEF NoWrite, LogHows, LogLines
    <3> QED
      BY <2>1, <3>1, <3>2
  <2>4. fileLines' \in Nat /\ missing' \in BOOLEAN
    <3>1. fileLines \in Nat /\ missing \in BOOLEAN /\ log.torn \in BOOLEAN
      BY DEF LogbookInv, LogFile
    <3>2. fileLines' \in Nat
      BY <2>1, <3>1
    <3> QED
      BY <2>1, <3>1, <3>2
  <2> QED
    BY <2>1, <2>2, <2>3, <2>4 DEF LogbookInv
<1>6. CASE LogTruncated
  <2>1. /\ job.how = "rewrite" /\ job' = [job EXCEPT !.how = "truncated"] /\ log' = Whole(<<>>)
        /\ UNCHANGED <<records, nextRecord, fileLines, queued, tornDown, missing, bstarts>>
    BY <1>6 DEF LogTruncated
  <2>2. job \in [how : LogHows, lines : LogLines]
    BY DEF LogbookInv
  <2>3. job' \in [how : LogHows, lines : LogLines] /\ job'.how = "truncated"
    BY <2>1, <2>2 DEF LogHows
  <2>4. log' \in LogFile
    BY <2>1, EmptySeq DEF Whole, LogFile, LogLines
  <2> QED
    BY <2>1, <2>3, <2>4 DEF LogbookInv
<1>7. CASE RewriteLands
  <2>1. /\ log' = Written(log, job) /\ fileLines' = Len(job.lines) /\ job' = NoWrite
        /\ UNCHANGED <<records, nextRecord, queued, tornDown, missing, bstarts>>
    BY <1>7 DEF RewriteLands
  <2>2. log' \in LogFile
    BY <2>1, LogAppends
  <2>3. fileLines' \in Nat
    <3>1. job.lines \in Seq(0..MaxRecords)
      BY DEF LogbookInv, LogLines
    <3> QED
      BY <2>1, <3>1, LenProperties
  <2>4. job' \in [how : LogHows, lines : LogLines] /\ job'.how # "append"
    BY <2>1, EmptySeq DEF NoWrite, LogHows, LogLines
  <2> QED
    BY <2>1, <2>2, <2>3, <2>4 DEF LogbookInv
<1>8. CASE JobFails
  <2>1. /\ missing' = TRUE /\ job' = NoWrite
        /\ UNCHANGED <<records, nextRecord, fileLines, queued, log, tornDown, bstarts>>
    BY <1>8 DEF JobFails
  <2>2. job' \in [how : LogHows, lines : LogLines] /\ job'.how # "append"
    BY <2>1, EmptySeq DEF NoWrite, LogHows, LogLines
  <2> QED
    BY <2>1, <2>2 DEF LogbookInv
<1>9. CASE LogbookRestarts
  <2>1. /\ bstarts < MaxBStarts /\ bstarts' = bstarts + 1 /\ log' \in Leftovers(log, job)
        /\ LoadLogbook(log') /\ queued' = <<>> /\ job' = NoWrite /\ tornDown' = FALSE /\ missing' = FALSE
    BY <1>9 DEF LogbookRestarts
  <2>2. log' \in LogFile
    BY <2>1, LogAppends
  <2> DEFINE seed == Newer(Readable(log'), FileEntries)
  <2>3. records' = Newer(seed, RingSize) /\ nextRecord' = 1 + Max(ToSet(seed) \cup {0}) /\ fileLines' = Len(seed)
    BY <2>1 DEF LoadLogbook
  <2>4. Readable(log') \in Seq(1..MaxRecords)
    BY <1>a, <2>2, ReadableLines DEF LogFile, LogLines
  <2>5. seed \in Seq(1..MaxRecords)
    BY <1>a, <2>4, NewerIs
  <2> HIDE DEF seed
  <2>6. fileLines' \in Nat
    BY <2>3, <2>5, LenProperties
  <2>7. records' \in Seq(1..MaxRecords) /\ Len(records') <= RingSize
    <3>1. Newer(seed, RingSize) \in Seq(1..MaxRecords) /\ Len(seed) \in Nat
          /\ Len(Newer(seed, RingSize)) = (IF Len(seed) > RingSize THEN RingSize ELSE Len(seed))
      BY <1>a, <2>5, NewerIs
    <3>2. Len(Newer(seed, RingSize)) <= RingSize
      BY <1>a, <3>1
    <3> QED
      BY <2>3, <3>1, <3>2
  <2>8. nextRecord' \in 1..(MaxRecords + 1)
    <3> DEFINE S == ToSet(seed) \cup {0}
               g == Max(S)
    <3>1. ToSet(seed) = {seed[n] : n \in 1..Len(seed)} /\ \A n \in 1..Len(seed) : seed[n] \in 1..MaxRecords
      BY <2>5, LenProperties, ElementOfSeq DEF ToSet
    <3>2. S \in SUBSET (0..MaxRecords) /\ S # {}
      BY <1>a, <3>1
    <3> HIDE DEF S
    <3>3. g \in S
      BY <1>a, <3>2, GreatestOf
    <3>4. nextRecord' = 1 + g
      BY <2>3 DEF S
    <3> HIDE DEF g
    <3>5. g \in 0..MaxRecords
      BY <3>2, <3>3
    <3> QED
      BY <1>a, <3>4, <3>5
  <2>9. queued' \in Seq(1..MaxRecords) /\ Len(queued') <= MaxQueued
    BY <1>a, <2>1, EmptySeq
  <2>10. job' \in [how : LogHows, lines : LogLines] /\ job'.how # "append"
    BY <2>1, EmptySeq DEF NoWrite, LogHows, LogLines
  <2>11. bstarts' \in 1..MaxBStarts
    <3>1. bstarts \in 1..MaxBStarts
      BY DEF LogbookInv
    <3> QED
      BY <1>a, <2>1, <3>1
  <2> QED
    BY <2>1, <2>2, <2>6, <2>7, <2>8, <2>9, <2>10, <2>11 DEF LogbookInv
<1> QED
  BY <1>1, <1>2, <1>3, <1>4, <1>5, <1>6, <1>7, <1>8, <1>9 DEF BNext

(***************************************************************************)
(* What the logbook's file will have.                                      *)

(* Of what a ring keeps of itself and one more, all but that it kept before. *)
LEMMA NewerOfMore ==
  ASSUME NEW T, NEW s \in Seq(T), NEW x \in T, NEW m \in Nat, NEW n \in Nat,
         NEW t, NEW u, t = Newer(Newer(Append(s, x), m), n), u = Newer(s, n)
  PROVE  \A i \in 1..Len(t) : t[i] = x \/ \E k \in 1..Len(u) : u[k] = t[i]
<1> DEFINE a == Append(s, x)
           b == Newer(a, m)
           la == Len(a)
           lb == Len(b)
           lt == Len(t)
           lu == Len(u)
           ls == Len(s)
<1>1. a \in Seq(T) /\ la = ls + 1 /\ (\A i \in 1..ls : a[i] = s[i]) /\ a[ls + 1] = x
  BY AppendProperties
<1> HIDE DEF a
<1>2. /\ b \in Seq(T) /\ lb = (IF la > m THEN m ELSE la) /\ lb \in Nat /\ la \in Nat
      /\ \A j \in 0..(lb - 1) : b[lb - j] = a[la - j]
  BY <1>1, NewerFromEnd
<1> HIDE DEF b
<1>c. t = Newer(b, n) /\ u = Newer(s, n)
  BY DEF b, a
<1>3. /\ t \in Seq(T) /\ lt = (IF lb > n THEN n ELSE lb) /\ lt \in Nat
      /\ \A j \in 0..(lt - 1) : t[lt - j] = b[lb - j]
  <2>1. b \in Seq(T)
    BY <1>2
  <2>2. /\ Newer(b, n) \in Seq(T) /\ Len(Newer(b, n)) = (IF Len(b) > n THEN n ELSE Len(b)) /\ Len(Newer(b, n)) \in Nat
        /\ \A j \in 0..(Len(Newer(b, n)) - 1) : Newer(b, n)[Len(Newer(b, n)) - j] = b[Len(b) - j]
    BY <2>1, NewerFromEnd
  <2> QED
    BY <1>c, <2>2
<1>4. /\ u \in Seq(T) /\ lu = (IF ls > n THEN n ELSE ls) /\ lu \in Nat /\ ls \in Nat
      /\ \A j \in 0..(lu - 1) : lu - j \in 1..lu /\ u[lu - j] = s[ls - j]
  BY <1>c, NewerFromEnd
<1> HIDE DEF la, lb, lt, lu, ls
<1>5. ASSUME NEW i \in 1..lt PROVE t[i] = x \/ \E k \in 1..lu : u[k] = t[i]
  <2> DEFINE j == lt - i
  <2>1. j \in 0..(lt - 1) /\ lt - j = i /\ j \in 0..(lb - 1) /\ j < n /\ j \in Nat
    BY <1>2, <1>3
  <2> HIDE DEF j
  <2>2. t[i] = a[la - j]
    <3>1. t[i] = b[lb - j]
      BY <1>3, <2>1
    <3>2. b[lb - j] = a[la - j]
      BY <1>2, <2>1
    <3> QED
      BY <3>1, <3>2
  <2>3. CASE j = 0
    <3>1. la - j = ls + 1
      BY <1>1, <1>2, <2>3
    <3> QED
      BY <1>1, <2>2, <3>1
  <2>4. CASE j # 0
    <3>1. j - 1 \in 0..(lu - 1) /\ ls - (j - 1) = la - j /\ la - j \in 1..ls
      BY <1>1, <1>2, <1>3, <1>4, <2>1, <2>4
    <3>2. a[la - j] = s[la - j]
      BY <1>1, <3>1
    <3>3. lu - (j - 1) \in 1..lu /\ u[lu - (j - 1)] = s[ls - (j - 1)]
      BY <1>4, <3>1
    <3> QED
      BY <2>2, <3>1, <3>2, <3>3
  <2> QED
    BY <2>3, <2>4
<1> QED
  BY <1>5 DEF lt, lu

(* How many lines are to be appended, and whether one of them will find the *)
(* file too long; what will be in it if none does.                          *)
PendingCount == (IF job.how = "append" THEN 1 ELSE 0) + Len(queued)
Due == PendingCount > 0 /\ BegunCount + PendingCount > 2 * FileEntries
InLog(r) ==
  \/ \E i \in 1..Len(Begun) : Begun[i] = r
  \/ job.how = "append" /\ job.lines[1] = r
  \/ \E i \in 1..Len(queued) : queued[i] = r

IsKept(r) == \E i \in 1..Len(Kept(records)) : Kept(records)[i] = r

(* What a rewrite would keep is in the file, or will be; and a rewrite     *)
(* begins on a whole one.                                                  *)
LogbookReplayInv ==
  /\ log.torn => ~Rewrites
  /\ ~missing /\ ~log.torn /\ ~Due => \A r : IsKept(r) => InLog(r)

(* What is pending, counted and by its lines. *)
LEMMA PendingIs ==
  ASSUME LogbookInv
  PROVE  /\ TooMany <=> Due
         /\ ~TooMany => \A r : InLog(r) => r \in ToSet(AfterQueue)
         /\ PendingCount \in Nat /\ BegunCount \in Nat /\ Len(queued) \in Nat
<1> DEFINE first == IF job.how = "append" THEN job.lines ELSE <<>>
           a == Len(first)
           q == Len(queued)
<1>1. /\ queued \in Seq(0..MaxRecords) /\ q \in Nat /\ job.lines \in Seq(0..MaxRecords) /\ log.lines \in Seq(0..MaxRecords)
      /\ job.how = "append" => Len(job.lines) = 1
      /\ Len(job.lines) \in Nat /\ fileLines \in Nat
  <2>1. queued \in Seq(1..MaxRecords) /\ 1..MaxRecords \subseteq 0..MaxRecords
    BY LogbookSizesAre DEF LogbookInv
  <2>2. queued \in Seq(0..MaxRecords) /\ q \in Nat
    <3>1. q \in Nat /\ \A i \in 1..q : queued[i] \in 0..MaxRecords
      BY <2>1, LenProperties, ElementOfSeq
    <3>2. queued = [i \in 1..q |-> queued[i]]
      BY <2>1, LenProperties
    <3> HIDE DEF q
    <3>3. queued \in [1..q -> 0..MaxRecords]
      BY <3>1, <3>2
    <3>4. Seq(0..MaxRecords) = UNION {[1..n -> 0..MaxRecords] : n \in Nat}
      BY SeqDef
    <3> QED
      BY <3>1, <3>3, <3>4
  <2> QED
    BY <2>2, LenProperties DEF LogbookInv, LogFile, LogLines
<1>2. first \in Seq(0..MaxRecords) /\ a = (IF job.how = "append" THEN 1 ELSE 0) /\ a \in Nat
      /\ (job.how = "append" => first[1] = job.lines[1])
  <2>1. CASE job.how = "append"
    BY <1>1, <2>1
  <2>2. CASE job.how # "append"
    <3>1. first = <<>>
      BY <2>2
    <3> HIDE DEF first
    <3> QED
      BY <2>2, <3>1, EmptySeq
  <2> QED
    BY <2>1, <2>2
<1>3. Pending = first \o queued
  BY DEF Pending
<1> HIDE DEF first, a, q
<1>4. /\ Pending \in Seq(0..MaxRecords) /\ Len(Pending) = a + q
      /\ \A i \in 1..(a + q) : Pending[i] = IF i <= a THEN first[i] ELSE queued[i - a]
  BY <1>1, <1>2, <1>3, ConcatProperties DEF a, q
<1>5. PendingCount = a + q /\ PendingCount \in Nat
  BY <1>1, <1>2 DEF PendingCount, q
<1>6. Begun \in Seq(0..MaxRecords) /\ BegunCount \in Nat
  BY <1>1 DEF Begun, BegunCount
<1>7. Pending # <<>> <=> PendingCount > 0
  <2>1. Pending = <<>> <=> Len(Pending) = 0
    BY <1>4, EmptySeq
  <2> QED
    BY <1>4, <1>5, <2>1
<1>8. TooMany <=> Due
  BY <1>4, <1>5, <1>7 DEF TooMany, Due
<1>9. ASSUME ~TooMany, NEW r, InLog(r) PROVE r \in ToSet(AfterQueue)
  <2> DEFINE b == Len(Begun)
             w == Begun \o Pending
  <2>1. w \in Seq(0..MaxRecords) /\ Len(w) = b + (a + q) /\ b \in Nat
        /\ \A i \in 1..(b + (a + q)) : w[i] = IF i <= b THEN Begun[i] ELSE Pending[i - b]
    <3> DEFINE p == Pending
    <3> HIDE DEF p
    <3>1. p \in Seq(0..MaxRecords) /\ Len(p) = a + q
      BY <1>4 DEF p
    <3>2. /\ Begun \o p \in Seq(0..MaxRecords) /\ Len(Begun \o p) = Len(Begun) + Len(p) /\ Len(Begun) \in Nat
          /\ \A i \in 1..(Len(Begun) + Len(p)) : (Begun \o p)[i] = IF i <= Len(Begun) THEN Begun[i] ELSE p[i - Len(Begun)]
      BY <1>6, <3>1, ConcatProperties, LenProperties
    <3> QED
      BY <3>1, <3>2 DEF p
  <2>2. AfterQueue = w
    BY <1>9 DEF AfterQueue
  <2> HIDE DEF b, w
  <2>3. \A i \in 1..(b + (a + q)) : w[i] \in ToSet(w)
    <3>1. DOMAIN w = 1..(b + (a + q))
      BY <2>1, LenProperties
    <3> QED
      BY <3>1 DEF ToSet
  <2>4. CASE \E i \in 1..Len(Begun) : Begun[i] = r
    <3>1. PICK i \in 1..b : Begun[i] = r
      BY <2>4 DEF b
    <3>2. i \in 1..(b + (a + q)) /\ i <= b
      BY <1>1, <1>2, <2>1 DEF q
    <3> QED
      BY <2>1, <2>2, <2>3, <3>1, <3>2
  <2>5. CASE job.how = "append" /\ job.lines[1] = r
    <3>1. b + 1 \in 1..(b + (a + q)) /\ ~(b + 1 <= b) /\ (b + 1) - b = 1 /\ 1 \in 1..(a + q) /\ 1 <= a
      BY <1>1, <1>2, <2>1, <2>5 DEF q
    <3>2. w[b + 1] = Pending[1] /\ Pending[1] = first[1] /\ first[1] = r
      BY <1>2, <1>4, <2>1, <2>5, <3>1
    <3> QED
      BY <2>2, <2>3, <3>1, <3>2
  <2>6. CASE \E i \in 1..Len(queued) : queued[i] = r
    <3>1. PICK i \in 1..q : queued[i] = r
      BY <2>6 DEF q
    <3>2. /\ b + (a + i) \in 1..(b + (a + q)) /\ ~(b + (a + i) <= b) /\ (b + (a + i)) - b = a + i
          /\ a + i \in 1..(a + q) /\ ~(a + i <= a) /\ (a + i) - a = i
      BY <1>1, <1>2, <2>1 DEF q
    <3>3. w[b + (a + i)] = Pending[a + i] /\ Pending[a + i] = queued[i]
      BY <1>4, <2>1, <3>2
    <3> QED
      BY <2>2, <2>3, <3>1, <3>2, <3>3
  <2> QED
    BY <1>9, <2>4, <2>5, <2>6 DEF InLog
<1> QED
  BY <1>1, <1>5, <1>6, <1>8, <1>9 DEF q

(* The invariant gives what the property says. *)
LEMMA LogbookReplays == ASSUME LogbookInv, LogbookReplayInv PROVE LogbookKeeps
<1> DEFINE k == Kept(records)
<1>1. DOMAIN k = 1..Len(k)
  BY KeptIs, LenProperties DEF LogLines
<1> HIDE DEF k
<1>2. ASSUME ~missing, ~log.torn, NEW r \in ToSet(k) PROVE r \in ToSet(AfterQueue)
  <2>1. CASE TooMany
    BY <1>2, <2>1 DEF AfterQueue, k
  <2>2. CASE ~TooMany
    <3>1. PICK i \in 1..Len(k) : k[i] = r
      BY <1>1, <1>2 DEF ToSet
    <3>2. InLog(r)
      BY <1>2, <2>2, <3>1, PendingIs DEF LogbookReplayInv, IsKept, k
    <3> QED
      BY <2>2, <3>2, PendingIs
  <2> QED
    BY <2>1, <2>2
<1> QED
  BY <1>2 DEF LogbookKeeps, k

(* What is newly begun is what was queued. *)
LEMMA LogbookReplayStarts == BInit => LogbookReplayInv
<1> SUFFICES ASSUME BInit PROVE LogbookReplayInv
  OBVIOUS
<1>1. LogbookInv
  BY LogbookStarts
<1>2. job.how = "none" /\ log.torn = FALSE /\ records = <<>>
  BY DEF BInit, NoWrite, Whole
<1>3. Len(Kept(records)) = 0
  <2>1. records \in Seq(1..MaxRecords) /\ Len(records) = 0
    BY <1>2, EmptySeq
  <2>2. Len(Newer(records, FileEntries)) = (IF Len(records) > FileEntries THEN FileEntries ELSE Len(records)) /\ FileEntries \in Nat
    BY <2>1, NewerFromEnd, LogbookSizesAre
  <2> QED
    BY <2>1, <2>2 DEF Kept
<1>4. \A i \in 1..Len(Kept(records)) : FALSE
  BY <1>3
<1> QED
  BY <1>2, <1>4 DEF LogbookReplayInv, IsKept

(* Every step keeps what is to be in the file. *)
LEMMA LogbookReplayStays ==
  ASSUME LogbookInv, LogbookInv', LogbookReplayInv, BNext \/ UNCHANGED bvars
  PROVE  LogbookReplayInv'
<1>a. /\ PendingCount \in Nat /\ BegunCount \in Nat /\ Len(queued) \in Nat /\ fileLines \in Nat
      /\ FileEntries \in Nat /\ FileEntries > 0
      /\ log.lines \in LogLines /\ Len(log.lines) \in Nat
  BY PendingIs, LogbookSizesAre, LenProperties DEF LogbookInv, LogFile, LogLines
<1>1. CASE UNCHANGED bvars
  <2>1. /\ records' = records /\ fileLines' = fileLines /\ queued' = queued /\ job' = job /\ log' = log /\ missing' = missing
    BY <1>1 DEF bvars
  <2>2. Begun' = Begun /\ BegunCount' = BegunCount /\ PendingCount' = PendingCount /\ Rewrites' = Rewrites
    BY <2>1 DEF Begun, BegunCount, PendingCount, Rewrites
  <2>3. \A r : InLog(r)' = InLog(r) /\ IsKept(r)' = IsKept(r)
    BY <2>1, <2>2 DEF InLog, IsKept, Kept
  <2>4. Due' = Due
    BY <2>2 DEF Due
  <2> QED
    BY <2>1, <2>2, <2>3, <2>4 DEF LogbookReplayInv
<1>2. CASE AppendRecord
  <2>1. /\ nextRecord' = nextRecord + 1
        /\ records' = Newer(Append(records, nextRecord), RingSize)
        /\ queued' = Append(queued, nextRecord)
        /\ log' = log /\ job' = job /\ missing' = missing /\ fileLines' = fileLines
        /\ nextRecord \in 1..MaxRecords /\ records \in Seq(1..MaxRecords) /\ queued \in Seq(1..MaxRecords)
    <3>1. nextRecord <= MaxRecords /\ nextRecord \in 1..(MaxRecords + 1)
      BY <1>2 DEF AppendRecord, LogbookInv
    <3>2. nextRecord \in 1..MaxRecords
      BY <3>1, LogbookSizesAre
    <3> QED
      BY <1>2, <3>2 DEF AppendRecord, LogbookInv
  <2>2. /\ Len(queued') = Len(queued) + 1 /\ queued'[Len(queued) + 1] = nextRecord
        /\ \A i \in 1..Len(queued) : queued'[i] = queued[i]
    BY <2>1, AppendProperties
  <2>3. PendingCount' = PendingCount + 1 /\ BegunCount' = BegunCount /\ Rewrites' = Rewrites /\ Begun' = Begun
    BY <1>a, <2>1, <2>2 DEF PendingCount, BegunCount, Rewrites, Begun
  <2>4. Due => Due'
    BY <1>a, <2>3 DEF Due
  <2>5. \A r : InLog(r) \/ r = nextRecord => InLog(r)'
    <3>1. Len(queued) + 1 \in 1..Len(queued') /\ \A i \in 1..Len(queued) : i \in 1..Len(queued')
      BY <1>a, <2>2
    <3>2. \E i \in 1..Len(queued') : queued'[i] = nextRecord
      BY <2>2, <3>1
    <3>3. ASSUME NEW r, NEW i \in 1..Len(queued), queued[i] = r PROVE \E k \in 1..Len(queued') : queued'[k] = r
      BY <2>2, <3>1, <3>3
    <3> QED
      BY <2>1, <2>3, <3>2, <3>3 DEF InLog
  <2>6. \A r : IsKept(r)' => IsKept(r) \/ r = nextRecord
    <3> DEFINE t == Newer(Newer(Append(records, nextRecord), RingSize), FileEntries)
               u == Newer(records, FileEntries)
    <3>1. \A i \in 1..Len(t) : t[i] = nextRecord \/ \E k \in 1..Len(u) : u[k] = t[i]
      <4> DEFINE T == 1..MaxRecords
      <4>1. records \in Seq(T) /\ nextRecord \in T /\ RingSize \in Nat /\ FileEntries \in Nat
        BY <2>1, LogbookSizesAre
      <4>2. t = Newer(Newer(Append(records, nextRecord), RingSize), FileEntries) /\ u = Newer(records, FileEntries)
        OBVIOUS
      <4> HIDE DEF T, t, u
      <4> QED
        BY <4>1, <4>2, NewerOfMore
    <3>2. Kept(records)' = t /\ Kept(records) = u
      BY <2>1 DEF Kept
    <3> HIDE DEF t, u
    <3> QED
      BY <3>1, <3>2 DEF IsKept
  <2>7. log'.torn => ~Rewrites'
    BY <2>1, <2>3 DEF LogbookReplayInv
  <2>8. ASSUME ~missing', ~log'.torn, ~Due' PROVE \A r : IsKept(r)' => InLog(r)'
    <3>1. ~missing /\ ~log.torn /\ ~Due
      BY <2>1, <2>4, <2>8
    <3> QED
      BY <2>5, <2>6, <3>1 DEF LogbookReplayInv
  <2> QED
    BY <2>7, <2>8 DEF LogbookReplayInv
<1>3. CASE TearDownLogbook
  <2>1. /\ log' = Whole(Kept(records)) /\ fileLines' = Len(Kept(records))
        /\ records' = records /\ queued' = queued /\ job' = job /\ missing' = missing
    BY <1>3 DEF TearDownLogbook
  <2>2. log'.torn = FALSE /\ log'.lines = Kept(records) /\ Rewrites' = Rewrites /\ \A r : IsKept(r)' = IsKept(r)
    BY <2>1 DEF Whole, Rewrites, IsKept, Kept
  <2>3. CASE Rewrites
    <3>1. Begun' = Begun /\ BegunCount' = BegunCount /\ PendingCount' = PendingCount
      BY <2>1, <2>2, <2>3 DEF Begun, BegunCount, PendingCount
    <3>2. \A r : InLog(r)' = InLog(r)
      BY <2>1, <3>1 DEF InLog
    <3>3. Due' = Due /\ ~log.torn
      BY <2>3, <3>1 DEF Due, LogbookReplayInv
    <3> QED
      BY <2>1, <2>2, <3>2, <3>3 DEF LogbookReplayInv
  <2>4. CASE ~Rewrites
    <3>1. Begun' = Kept(records)
      BY <2>2, <2>4 DEF Begun
    <3>2. \A r : IsKept(r)' => InLog(r)'
      BY <2>2, <3>1 DEF InLog, IsKept
    <3> QED
      BY <2>2, <3>2 DEF LogbookReplayInv
  <2> QED
    BY <2>3, <2>4
<1>4. CASE BeginAppend
  <2>1. /\ job = NoWrite /\ queued # <<>> /\ job' = Appending(Head(queued)) /\ queued' = Tail(queued)
        /\ records' = records /\ log' = log /\ missing' = missing /\ fileLines' = fileLines
        /\ queued \in Seq(1..MaxRecords)
    BY <1>4 DEF BeginAppend, LogbookInv
  <2>2. job.how = "none" /\ job'.how = "append" /\ job'.lines[1] = Head(queued) /\ ~Rewrites /\ ~Rewrites'
    BY <2>1 DEF NoWrite, Appending, Rewrites
  <2>3. /\ Len(queued') = Len(queued) - 1 /\ Head(queued) = queued[1] /\ Len(queued) > 0
        /\ \A i \in 1..(Len(queued) - 1) : queued'[i] = queued[i + 1]
    <3>1. Len(queued) # 0
      BY <2>1, EmptySeq
    <3> QED
      BY <1>a, <2>1, <3>1, HeadTailProperties
  <2>4. Begun' = Begun /\ BegunCount' = BegunCount /\ PendingCount' = PendingCount
    BY <1>a, <2>1, <2>2, <2>3 DEF Begun, BegunCount, PendingCount
  <2>5. ASSUME NEW r, InLog(r) PROVE InLog(r)'
    <3>1. CASE \E i \in 1..Len(queued) : queued[i] = r
      <4>1. PICK i \in 1..Len(queued) : queued[i] = r
        BY <3>1
      <4>2. CASE i = 1
        BY <2>2, <2>3, <4>1, <4>2 DEF InLog
      <4>3. CASE i # 1
        <5>1. i - 1 \in 1..(Len(queued) - 1) /\ (i - 1) + 1 = i
          BY <1>a, <4>3
        <5>2. queued'[i - 1] = r /\ i - 1 \in 1..Len(queued')
          BY <2>3, <4>1, <5>1
        <5> QED
          BY <5>2 DEF InLog
      <4> QED
        BY <4>2, <4>3
    <3>2. CASE \E i \in 1..Len(Begun) : Begun[i] = r
      BY <2>4, <3>2 DEF InLog
    <3> QED
      BY <2>2, <2>5, <3>1, <3>2 DEF InLog
  <2>6. Due' = Due /\ \A r : IsKept(r)' = IsKept(r)
    BY <2>1, <2>4 DEF Due, IsKept, Kept
  <2> QED
    BY <2>1, <2>2, <2>5, <2>6 DEF LogbookReplayInv
<1>5. CASE AppendLands
  <2>1. /\ job.how = "append" /\ log' = Written(log, job) /\ missing' = (missing \/ log.torn)
        /\ fileLines' = fileLines + 1
        /\ job' = IF fileLines' > 2 * FileEntries THEN Rewriting(Kept(records)) ELSE NoWrite
        /\ records' = records /\ queued' = queued
    BY <1>5 DEF AppendLands
  <2>2. ~Rewrites /\ log'.torn = FALSE
    BY <2>1 DEF Rewrites, Written, Added, Whole
  <2>3. \A r : IsKept(r)' = IsKept(r)
    BY <2>1 DEF IsKept, Kept
  <2>4. CASE fileLines' > 2 * FileEntries
    <3>1. job'.how = "rewrite" /\ job'.lines = Kept(records)
      BY <2>1, <2>4 DEF Rewriting
    <3>2. Begun' = Kept(records)
      BY <3>1 DEF Begun, Rewrites
    <3>3. \A r : IsKept(r)' => InLog(r)'
      BY <2>3, <3>2 DEF InLog, IsKept
    <3> QED
      BY <2>2, <3>3 DEF LogbookReplayInv
  <2>5. CASE ~(fileLines' > 2 * FileEntries)
    <3>1. job'.how = "none" /\ ~Rewrites'
      BY <2>1, <2>5 DEF NoWrite, Rewrites
    <3> SUFFICES ASSUME ~missing', ~Due' PROVE \A r : IsKept(r)' => InLog(r)'
      BY <2>2 DEF LogbookReplayInv
    <3>2. ~missing /\ ~log.torn
      BY <2>1
    <3>3. /\ log'.lines = Append(log.lines, job.lines[1]) /\ Len(log'.lines) = Len(log.lines) + 1
          /\ log'.lines[Len(log.lines) + 1] = job.lines[1]
          /\ \A i \in 1..Len(log.lines) : log'.lines[i] = log.lines[i]
      <4>1. log'.lines = Append(log.lines, job.lines[1])
        BY <2>1, <3>2 DEF Written, Added, Whole
      <4>2. job.lines[1] \in 0..MaxRecords
        BY <2>1, LogAppends
      <4> QED
        BY <1>a, <4>1, <4>2, AppendProperties DEF LogLines
    <3>4. Begun = log.lines /\ Begun' = log'.lines
      BY <2>2, <3>1 DEF Begun
    <3>5. ~Due
      <4>1. /\ PendingCount = 1 + Len(queued) /\ PendingCount' = Len(queued)
            /\ BegunCount = fileLines /\ BegunCount' = fileLines + 1
        BY <1>a, <2>1, <2>2, <3>1 DEF PendingCount, BegunCount
      <4>2. ~(Len(queued) > 0 /\ (fileLines + 1) + Len(queued) > 2 * FileEntries)
        BY <4>1 DEF Due
      <4>3. ~(fileLines + 1 > 2 * FileEntries)
        BY <2>1, <2>5
      <4>4. ~(fileLines + (1 + Len(queued)) > 2 * FileEntries)
        BY <1>a, <4>2, <4>3
      <4> QED
        BY <4>1, <4>4 DEF Due
    <3>6. ASSUME NEW r, InLog(r) PROVE InLog(r)'
      <4>1. Len(log.lines) + 1 \in 1..Len(log'.lines) /\ \A i \in 1..Len(log.lines) : i \in 1..Len(log'.lines)
        BY <1>a, <3>3
      <4>2. CASE \E i \in 1..Len(Begun) : Begun[i] = r
        <5>1. \E i \in 1..Len(Begun') : Begun'[i] = r
          BY <3>3, <3>4, <4>1, <4>2
        <5> QED
          BY <5>1 DEF InLog
      <4>3. CASE job.lines[1] = r
        <5>1. \E i \in 1..Len(Begun') : Begun'[i] = r
          BY <3>3, <3>4, <4>1, <4>3
        <5> QED
          BY <5>1 DEF InLog
      <4>4. CASE \E i \in 1..Len(queued) : queued[i] = r
        BY <2>1, <4>4 DEF InLog
      <4> QED
        BY <3>6, <4>2, <4>3, <4>4 DEF InLog
    <3> QED
      BY <2>3, <3>2, <3>5, <3>6 DEF LogbookReplayInv
  <2> QED
    BY <2>4, <2>5
<1>6. CASE LogTruncated
  <2>1. /\ job.how = "rewrite" /\ job' = [job EXCEPT !.how = "truncated"] /\ log' = Whole(<<>>)
        /\ records' = records /\ queued' = queued /\ missing' = missing /\ fileLines' = fileLines
    BY <1>6 DEF LogTruncated
  <2>2. job'.how = "truncated" /\ job'.lines = job.lines
    BY <2>1 DEF LogbookInv
  <2>3. log'.torn = FALSE /\ Rewrites /\ Rewrites' /\ ~log.torn
    BY <2>1, <2>2 DEF Whole, Rewrites, LogbookReplayInv
  <2>4. Begun' = Begun /\ BegunCount' = BegunCount /\ PendingCount' = PendingCount
    BY <2>1, <2>2, <2>3 DEF Begun, BegunCount, PendingCount
  <2>5. \A r : InLog(r)' = InLog(r) /\ IsKept(r)' = IsKept(r)
    BY <2>1, <2>2, <2>4 DEF InLog, IsKept, Kept
  <2>6. Due' = Due
    BY <2>4 DEF Due
  <2> QED
    BY <2>1, <2>3, <2>5, <2>6 DEF LogbookReplayInv
<1>7. CASE RewriteLands
  <2>1. /\ job.how = "truncated" /\ log' = Written(log, job) /\ fileLines' = Len(job.lines) /\ job' = NoWrite
        /\ records' = records /\ queued' = queued /\ missing' = missing
    BY <1>7 DEF RewriteLands
  <2>2. job'.how = "none" /\ log'.lines = job.lines /\ log'.torn = FALSE
    BY <2>1 DEF NoWrite, Written, Whole
  <2>3. Rewrites /\ ~Rewrites' /\ ~log.torn
    BY <2>1, <2>2 DEF Rewrites, LogbookReplayInv
  <2>4. Begun' = Begun /\ BegunCount' = BegunCount /\ PendingCount' = PendingCount
    BY <2>1, <2>2, <2>3 DEF Begun, BegunCount, PendingCount
  <2>5. \A r : InLog(r)' = InLog(r) /\ IsKept(r)' = IsKept(r)
    BY <2>1, <2>2, <2>4 DEF InLog, IsKept, Kept
  <2>6. Due' = Due
    BY <2>4 DEF Due
  <2> QED
    BY <2>1, <2>2, <2>3, <2>5, <2>6 DEF LogbookReplayInv
<1>8. CASE JobFails
  <2>1. missing' = TRUE /\ job' = NoWrite
    BY <1>8 DEF JobFails
  <2>2. ~Rewrites'
    BY <2>1 DEF NoWrite, Rewrites
  <2> QED
    BY <2>1, <2>2 DEF LogbookReplayInv
<1>9. CASE LogbookRestarts
  <2>1. /\ log' \in Leftovers(log, job) /\ LoadLogbook(log') /\ queued' = <<>> /\ job' = NoWrite
    BY <1>9 DEF LogbookRestarts
  <2>2. ~Rewrites' /\ Begun' = log'.lines
    BY <2>1 DEF NoWrite, Rewrites, Begun
  <2> DEFINE s == log'.lines
             P == {i \in DOMAIN s : s[i] # 0}
             t == Picked(s, P)
  <2>3. s \in Seq(0..MaxRecords) /\ DOMAIN s = 1..Len(s)
    BY LenProperties DEF LogbookInv, LogFile, LogLines
  <2>4. Readable(log') = t
    BY DEF Readable
  <2> HIDE DEF s
  <2>5. P \in SUBSET (1..Len(s))
    BY <2>3
  <2> HIDE DEF P
  <2>6. /\ t \in Seq(0..MaxRecords) /\ Len(t) = Cardinality(P)
        /\ Nth(P) \in [1..Cardinality(P) -> P]
        /\ \A n \in 1..Cardinality(P) : t[n] = s[Nth(P)[n]]
    BY <2>3, <2>5, PickedIs
  <2> HIDE DEF t
  <2>7. \A n \in 1..Len(t) : \E i \in 1..Len(s) : s[i] = t[n]
    BY <2>5, <2>6
  <2> DEFINE v == Newer(t, FileEntries)
             w == Newer(v, RingSize)
             x == Newer(w, FileEntries)
  <2>8. v \in Seq(0..MaxRecords) /\ \A n \in 1..Len(v) : \E i \in 1..Len(t) : v[n] = t[i]
    <3>1. t \in Seq(0..MaxRecords)
      BY <2>6
    <3> QED
      BY <3>1, NewerIs, LogbookSizesAre
  <2> HIDE DEF v
  <2>9. w \in Seq(0..MaxRecords) /\ \A n \in 1..Len(w) : \E i \in 1..Len(v) : w[n] = v[i]
    BY <2>8, NewerIs, LogbookSizesAre
  <2> HIDE DEF w
  <2>10. \A n \in 1..Len(x) : \E i \in 1..Len(w) : x[n] = w[i]
    BY <2>9, NewerIs, LogbookSizesAre
  <2>11. Kept(records)' = x
    BY <2>1, <2>4 DEF LoadLogbook, Kept, v, w
  <2> HIDE DEF x
  <2>12. \A r : IsKept(r)' => \E i \in 1..Len(s) : s[i] = r
    <3> SUFFICES ASSUME NEW n \in 1..Len(x) PROVE \E i \in 1..Len(s) : s[i] = x[n]
      BY <2>11 DEF IsKept
    <3>1. PICK a \in 1..Len(w) : x[n] = w[a]
      BY <2>10
    <3>2. PICK b \in 1..Len(v) : w[a] = v[b]
      BY <2>9
    <3>3. PICK c \in 1..Len(t) : v[b] = t[c]
      BY <2>8
    <3> QED
      BY <2>7, <3>1, <3>2, <3>3
  <2>13. \A r : IsKept(r)' => InLog(r)'
    BY <2>2, <2>12 DEF InLog, s
  <2> QED
    BY <2>2, <2>13 DEF LogbookReplayInv
<1> QED
  BY <1>1, <1>2, <1>3, <1>4, <1>5, <1>6, <1>7, <1>8, <1>9 DEF BNext

(***************************************************************************)
(* The fetches of the logbook.                                             *)

Outcomes == [ok : BOOLEAN, count : 0..Remembered]
Matching(p) == {i \in DOMAIN activity : Answers(p, activity[i])}

(* A fetch that was made has found what is in memory still. *)
FetchInv ==
  /\ activity \in Seq(Fetchable) /\ Len(activity) <= Remembered
  /\ outcomes \in Seq(Outcomes) /\ Len(outcomes) <= MaxHeld
  /\ \/ fetched = NoFetch
     \/ /\ fetched.made = TRUE /\ fetched.params \in Params /\ fetched.ok \in BOOLEAN
        /\ fetched.records = IF fetched.ok THEN Query(fetched.params) ELSE <<>>

(* The sizes of the fetches are numbers. *)
LEMMA FetchSizesAre ==
  /\ LastAt \in Nat /\ MaxEvents \in Nat /\ MaxFetches \in Nat
  /\ Remembered \in Nat /\ Remembered > 0 /\ DefaultLimit \in Nat /\ DefaultLimit > 0
  /\ FetchLimit \in Nat /\ FetchLimit > 0 /\ MaxHeld \in Nat /\ MaxHeld > 0
BY FetchAssumption

(* What may be left out, as a set. *)
LEMMA AtMostOne ==
  /\ ToSet(<<>>) = {}
  /\ \A x : ToSet(<<x>>) = {x} /\ <<x>> # <<>> /\ <<x>>[1] = x
<1>1. ToSet(<<>>) = {}
  BY DEF ToSet
<1>2. ASSUME NEW x PROVE ToSet(<<x>>) = {x} /\ <<x>> # <<>> /\ <<x>>[1] = x
  <2>1. DOMAIN <<x>> = {1} /\ <<x>>[1] = x
    <3>1. DOMAIN <<x>> = 1..1
      OBVIOUS
    <3>2. 1..1 = {1}
      OBVIOUS
    <3> QED
      BY <3>1, <3>2
  <2>2. ToSet(<<x>>) = {x}
    BY <2>1 DEF ToSet
  <2> QED
    BY <2>1, <2>2
<1> QED
  BY <1>1, <1>2

(* The lesser of two. *)
LEMMA LesserOf ==
  ASSUME NEW x \in Int, NEW y \in Int
  PROVE  Min({x, y}) = IF x <= y THEN x ELSE y
<1> DEFINE m == IF x <= y THEN x ELSE y
<1>1. m \in {x, y} /\ \A z \in {x, y} : m <= z
  OBVIOUS
<1>2. Min({x, y}) \in {x, y} /\ \A z \in {x, y} : Min({x, y}) <= z
  <2> HIDE DEF m
  <2> QED
    BY <1>1 DEF Min
<1>3. \A v \in {x, y} : (\A z \in {x, y} : v <= z) => v = m
  OBVIOUS
<1> QED
  BY <1>2, <1>3

(* What a fetch may ask for. *)
LEMMA ParamsAre ==
  ASSUME NEW p \in Params
  PROVE  /\ p.window.sinceMs = <<>> \/ p.window.sinceMs = <<0>>
         /\ p.window.fromTimestamp = <<>> \/ p.window.fromTimestamp = <<0>> \/ p.window.fromTimestamp = <<LastAt>>
         /\ p.window.untilTimestamp = <<>> \/ p.window.untilTimestamp = <<0>>
         /\ p.level = <<>> \/ p.level = <<"warn">>
         /\ p.ok = <<>> \/ p.ok = <<TRUE>>
         /\ p.limit = <<>> \/ p.limit = <<0>> \/ p.limit = <<1>> \/ p.limit = <<FetchLimit + 1>>
<1>1. p.window \in Windows /\ p.level \in {<<>>, <<"warn">>} /\ p.ok \in {<<>>, <<TRUE>>}
      /\ p.limit \in {<<>>, <<0>>, <<1>>, <<FetchLimit + 1>>}
  BY DEF Params
<1>2. /\ p.window.sinceMs = <<>> \/ p.window.sinceMs = <<0>>
      /\ p.window.fromTimestamp = <<>> \/ p.window.fromTimestamp = <<0>> \/ p.window.fromTimestamp = <<LastAt>>
      /\ p.window.untilTimestamp = <<>> \/ p.window.untilTimestamp = <<0>>
  BY <1>1 DEF Windows, Asked
<1> QED
  BY <1>1, <1>2

(* The records of the logbook that are asked for, said without its code. *)
Wanted(p) ==
  {i \in DOMAIN activity :
     /\ IF p.window.sinceMs # <<>> THEN activity[i].at >= Now - p.window.sinceMs[1]
        ELSE \A b \in ToSet(p.window.untilTimestamp) : activity[i].at <= b
     /\ p.window.sinceMs = <<>> =>
          \A b \in ToSet(p.window.fromTimestamp) : activity[i].at >= b
     /\ activity[i].type \in (IF p.types = {} THEN Type ELSE p.types)
     /\ ToSet(p.level) \subseteq ToSet(activity[i].level)
     /\ ToSet(p.ok) \subseteq ToSet(activity[i].ok)}
MostOf(p) == Min({FetchLimit} \cup (IF p.limit = <<>> THEN {DefaultLimit} ELSE ToSet(p.limit)))

(* The filter as the property states it, and as the code applies it. *)
LEMMA WantedIsMatching ==
  ASSUME FetchInv, NEW p \in Params
  PROVE  Wanted(p) = Matching(p)
<1>1. ASSUME NEW i \in DOMAIN activity
      PROVE  /\ activity[i].at \in 0..LastAt /\ activity[i].type \in Type
             /\ activity[i].ok \in {<<>>, <<TRUE>>, <<FALSE>>} /\ activity[i].level \in {<<>>, <<"warn">>}
  <2>1. activity[i] \in Fetchable
    BY LenProperties, ElementOfSeq DEF FetchInv
  <2> QED
    BY <2>1 DEF Fetchable
<1>2. ASSUME NEW i \in DOMAIN activity
      PROVE  activity[i].at \in Span(p.window) <=>
               /\ IF p.window.sinceMs # <<>> THEN activity[i].at >= Now - p.window.sinceMs[1]
                  ELSE \A b \in ToSet(p.window.untilTimestamp) : activity[i].at <= b
               /\ p.window.sinceMs = <<>> =>
                    \A b \in ToSet(p.window.fromTimestamp) : activity[i].at >= b
  <2> DEFINE t == activity[i].at
             w == p.window
  <2>1. t \in 0..LastAt
    BY <1>1
  <2>2. /\ w.sinceMs = <<>> \/ w.sinceMs = <<0>>
        /\ w.fromTimestamp = <<>> \/ w.fromTimestamp = <<0>> \/ w.fromTimestamp = <<LastAt>>
        /\ w.untilTimestamp = <<>> \/ w.untilTimestamp = <<0>>
    BY ParamsAre
  <2> HIDE DEF t, w
  <2>3. CASE w.sinceMs # <<>>
    <3>1. t <= Now
      BY <2>1, FetchSizesAre DEF Now
    <3> QED
      BY <2>1, <2>3, <3>1 DEF Span, t, w
  <2>4. CASE w.sinceMs = <<>>
    <3>1. (\A b \in ToSet(w.untilTimestamp) : t <= b) <=> (w.untilTimestamp # <<>> => t <= w.untilTimestamp[1])
      <4>1. CASE w.untilTimestamp = <<>>
        <5>1. ToSet(w.untilTimestamp) = {}
          BY <4>1, AtMostOne
        <5> QED
          BY <4>1, <5>1
      <4>2. CASE w.untilTimestamp = <<0>>
        <5>1. ToSet(w.untilTimestamp) = {0} /\ w.untilTimestamp # <<>> /\ w.untilTimestamp[1] = 0
          BY <4>2, AtMostOne
        <5> QED
          BY <5>1
      <4> QED
        BY <2>2, <4>1, <4>2
    <3>2. (\A b \in ToSet(w.fromTimestamp) : t >= b) <=> (w.fromTimestamp # <<>> => t >= w.fromTimestamp[1])
      <4>1. CASE w.fromTimestamp = <<>>
        <5>1. ToSet(w.fromTimestamp) = {}
          BY <4>1, AtMostOne
        <5> QED
          BY <4>1, <5>1
      <4>2. ASSUME NEW x, w.fromTimestamp = <<x>>
            PROVE  (\A b \in ToSet(w.fromTimestamp) : t >= b) <=> (w.fromTimestamp # <<>> => t >= w.fromTimestamp[1])
        <5>1. ToSet(w.fromTimestamp) = {x} /\ w.fromTimestamp # <<>> /\ w.fromTimestamp[1] = x
          BY <4>2, AtMostOne
        <5> QED
          BY <5>1
      <4> QED
        BY <2>2, <4>1, <4>2
    <3> QED
      BY <2>1, <2>4, <3>1, <3>2 DEF Span, t, w
  <2> QED
    BY <2>3, <2>4
<1>3. ASSUME NEW i \in DOMAIN activity
      PROVE  (p.types # {} => activity[i].type \in p.types) <=>
               activity[i].type \in (IF p.types = {} THEN Type ELSE p.types)
  BY <1>1
<1>4. ASSUME NEW i \in DOMAIN activity
      PROVE  /\ (p.level # <<>> => activity[i].level = p.level) <=> ToSet(p.level) \subseteq ToSet(activity[i].level)
             /\ (p.ok # <<>> => activity[i].ok = p.ok) <=> ToSet(p.ok) \subseteq ToSet(activity[i].ok)
  <2> DEFINE l == activity[i].level
             o == activity[i].ok
  <2>1. (l = <<>> \/ l = <<"warn">>) /\ (o = <<>> \/ o = <<TRUE>> \/ o = <<FALSE>>)
    BY <1>1
  <2> HIDE DEF l, o
  <2>2. p.level = <<>> \/ p.level = <<"warn">>
    BY ParamsAre
  <2>3. p.ok = <<>> \/ p.ok = <<TRUE>>
    BY ParamsAre
  <2>4. (p.level # <<>> => l = p.level) <=> ToSet(p.level) \subseteq ToSet(l)
    <3>1. CASE p.level = <<>>
      BY <3>1, AtMostOne
    <3>2. CASE p.level = <<"warn">>
      <4>1. p.level # <<>> /\ ToSet(p.level) = {"warn"}
        BY <3>2, AtMostOne
      <4>2. CASE l = <<>>
        BY <3>2, <4>1, <4>2, AtMostOne
      <4>3. CASE l = <<"warn">>
        BY <3>2, <4>1, <4>3, AtMostOne
      <4> QED
        BY <2>1, <4>2, <4>3
    <3> QED
      BY <2>2, <3>1, <3>2
  <2>5. (p.ok # <<>> => o = p.ok) <=> ToSet(p.ok) \subseteq ToSet(o)
    <3>1. CASE p.ok = <<>>
      BY <3>1, AtMostOne
    <3>2. CASE p.ok = <<TRUE>>
      <4>1. p.ok # <<>> /\ ToSet(p.ok) = {TRUE}
        BY <3>2, AtMostOne
      <4>2. CASE o = <<>>
        BY <3>2, <4>1, <4>2, AtMostOne
      <4>3. CASE o = <<TRUE>>
        BY <3>2, <4>1, <4>3, AtMostOne
      <4>4. CASE o = <<FALSE>>
        <5>1. ToSet(o) = {FALSE} /\ o[1] = FALSE /\ p.ok[1] = TRUE
          BY <3>2, <4>4, AtMostOne
        <5>2. o # p.ok
          BY <5>1
        <5> QED
          BY <4>1, <5>1, <5>2
      <4> QED
        BY <2>1, <4>2, <4>3, <4>4
    <3> QED
      BY <2>3, <3>1, <3>2
  <2> QED
    BY <2>4, <2>5 DEF l, o
<1> QED
  BY <1>2, <1>3, <1>4 DEF Wanted, Matching, Answers

(* The same of the limit. *)
LEMMA MostIsLimit ==
  ASSUME NEW p \in Params
  PROVE  MostOf(p) = Limit(p) /\ Limit(p) \in Nat
<1> DEFINE a == IF p.limit = <<>> THEN DefaultLimit ELSE p.limit[1]
<1>1. p.limit = <<>> \/ p.limit = <<0>> \/ p.limit = <<1>> \/ p.limit = <<FetchLimit + 1>>
  BY ParamsAre
<1>2. a \in Nat
  BY <1>1, AtMostOne, FetchSizesAre
<1>3. {FetchLimit} \cup (IF p.limit = <<>> THEN {DefaultLimit} ELSE ToSet(p.limit)) = {FetchLimit, a}
  <2>1. CASE p.limit = <<>>
    BY <2>1
  <2>2. ASSUME NEW x, p.limit = <<x>>
        PROVE  {FetchLimit} \cup (IF p.limit = <<>> THEN {DefaultLimit} ELSE ToSet(p.limit)) = {FetchLimit, a}
    <3>1. ToSet(p.limit) = {x} /\ p.limit # <<>> /\ p.limit[1] = x
      BY <2>2, AtMostOne
    <3> QED
      BY <3>1
  <2> QED
    BY <1>1, <2>1, <2>2
<1>4. Limit(p) = IF a > FetchLimit THEN FetchLimit ELSE a
  BY DEF Limit
<1> HIDE DEF a
<1>5. Min({FetchLimit, a}) = IF FetchLimit <= a THEN FetchLimit ELSE a
  BY <1>2, FetchSizesAre, LesserOf
<1>6. MostOf(p) = Min({FetchLimit, a})
  BY <1>3 DEF MostOf
<1> QED
  BY <1>2, <1>4, <1>5, <1>6, FetchSizesAre

(* What a query gives are the newest of those that match, in order. *)
LEMMA QueryIs ==
  ASSUME FetchInv, NEW p \in Params
  PROVE  /\ Query(p) \in Seq(Fetchable) /\ Len(Query(p)) \in 0..Remembered
         /\ Cardinality(Matching(p)) \in Nat
         /\ \E taken \in SUBSET Matching(p) :
              /\ Cardinality(taken) = (IF Limit(p) <= Cardinality(Matching(p)) THEN Limit(p) ELSE Cardinality(Matching(p)))
              /\ \A i \in taken, j \in Matching(p) \ taken : j < i
              /\ Query(p) = Picked(activity, taken)
<1> DEFINE P == Matching(p)
           c == Cardinality(P)
           l == Limit(p)
           s == Picked(activity, P)
           k == IF l <= c THEN l ELSE c
           h == [n \in 1..k |-> Nth(P)[n + (c - k)]]
           taken == {Nth(P)[n] : n \in (c - k + 1)..c}
<1>1. activity \in Seq(Fetchable) /\ Len(activity) \in Nat /\ DOMAIN activity = 1..Len(activity) /\ Len(activity) <= Remembered
  BY LenProperties DEF FetchInv
<1>2. P \in SUBSET (1..Len(activity))
  BY <1>1 DEF Matching
<1>3. l \in Nat
  BY MostIsLimit
<1>4. Query(p) = Newer(s, l)
  BY DEF Query, Matching
<1> HIDE DEF P, l
<1>5. /\ s \in Seq(Fetchable) /\ Len(s) = c /\ c \in 0..Len(activity)
      /\ Nth(P) \in [1..c -> P] /\ Ascending(Nth(P), c)
      /\ \A i \in P : \E n \in 1..c : Nth(P)[n] = i
      /\ \A n \in 1..c : s[n] = activity[Nth(P)[n]]
  BY <1>1, <1>2, PickedIs
<1>6. /\ Newer(s, l) \in Seq(Fetchable) /\ Len(Newer(s, l)) = (IF Len(s) > l THEN l ELSE Len(s))
      /\ \A i \in 1..Len(Newer(s, l)) : /\ i + (Len(s) - Len(Newer(s, l))) \in 1..Len(s)
                                         /\ Newer(s, l)[i] = s[i + (Len(s) - Len(Newer(s, l)))]
  BY <1>3, <1>5, NewerIs
<1> DEFINE q == Newer(s, l)
<1> HIDE DEF s, q
<1>7. c \in Nat /\ k \in Nat /\ k <= c /\ k <= l /\ Len(q) = k
  <2>1. Len(q) = (IF c > l THEN l ELSE c)
    BY <1>5, <1>6 DEF q
  <2> HIDE DEF c
  <2>2. c \in Nat
    BY <1>1, <1>5
  <2> QED
    BY <1>3, <2>1, <2>2
<1>8. q \in Seq(Fetchable) /\ \A i \in 1..k : i + (c - k) \in 1..c /\ q[i] = s[i + (c - k)]
  BY <1>5, <1>6, <1>7 DEF q
<1> HIDE DEF c, k
<1>9. \A n \in 1..k : h[n] = Nth(P)[n + (c - k)] /\ h[n] \in taken
  <2>1. ASSUME NEW n \in 1..k PROVE n + (c - k) \in (c - k + 1)..c
    BY <1>7
  <2> QED
    BY <2>1
<1>10. taken \in SUBSET P
  <2>1. \A n \in (c - k + 1)..c : n \in 1..c
    BY <1>7
  <2> QED
    BY <1>5, <2>1
<1>11. \A i \in taken : \E n \in 1..k : h[n] = i
  <2> SUFFICES ASSUME NEW m \in (c - k + 1)..c PROVE \E n \in 1..k : h[n] = Nth(P)[m]
    OBVIOUS
  <2>1. m - (c - k) \in 1..k /\ m - (c - k) + (c - k) = m
    BY <1>7
  <2>2. h[m - (c - k)] = Nth(P)[m]
    BY <1>9, <2>1
  <2> QED
    BY <2>1, <2>2
<1>12. Ascending(h, k)
  <2> SUFFICES ASSUME NEW i \in 1..k, NEW m \in 1..k, i < m PROVE h[i] < h[m]
    BY DEF Ascending
  <2>1. i + (c - k) < m + (c - k) /\ i + (c - k) \in 1..c /\ m + (c - k) \in 1..c
    BY <1>7, <1>8
  <2>2. Nth(P)[i + (c - k)] < Nth(P)[m + (c - k)]
    BY <1>5, <2>1 DEF Ascending
  <2> QED
    BY <1>9, <2>2
<1>13. h \in [1..k -> taken]
  BY <1>9
<1>14. taken \in SUBSET (1..Len(activity))
  BY <1>2, <1>10
<1>15. ASSUME NEW i \in taken, NEW j \in P \ taken PROVE j < i
  <2>1. PICK m \in (c - k + 1)..c : Nth(P)[m] = i
    BY <1>15
  <2>2. PICK n \in 1..c : Nth(P)[n] = j
    BY <1>5, <1>15
  <2>3. n \notin (c - k + 1)..c
    BY <1>15, <2>2
  <2>4. n < m /\ m \in 1..c
    BY <1>7, <2>3
  <2> QED
    BY <1>5, <2>1, <2>2, <2>4 DEF Ascending
<1> HIDE DEF h, taken
<1>16. Cardinality(taken) = k /\ Nth(taken) = h
  BY <1>1, <1>7, <1>11, <1>12, <1>13, <1>14, NthOnly
<1>17. Picked(activity, taken) = [n \in 1..k |-> activity[h[n]]]
  BY <1>16, PickedSame
<1>18. \A n \in 1..k : q[n] = activity[h[n]]
  BY <1>5, <1>8, <1>9
<1>19. q = [n \in 1..k |-> q[n]]
  BY <1>7, <1>8, LenProperties
<1>20. q = Picked(activity, taken)
  BY <1>17, <1>18, <1>19
<1>21. Len(q) \in 0..Remembered
  <2>1. c <= Len(activity)
    BY <1>1, <1>5
  <2> QED
    BY <1>1, <1>7, <2>1, FetchSizesAre
<1>22. taken \in SUBSET P /\ Cardinality(taken) = (IF l <= c THEN l ELSE c)
  BY <1>10, <1>16 DEF k
<1>23. Query(p) = q
  BY <1>4 DEF q
<1>24. \E t \in SUBSET P : /\ Cardinality(t) = (IF l <= c THEN l ELSE c)
                           /\ \A i \in t, j \in P \ t : j < i
                           /\ Query(p) = Picked(activity, t)
  <2> WITNESS taken \in SUBSET P
  <2> QED
    BY <1>15, <1>20, <1>22, <1>23
<1>25. Query(p) \in Seq(Fetchable) /\ Len(Query(p)) \in 0..Remembered
  BY <1>8, <1>21, <1>23
<1>26. c \in Nat
  BY <1>7
<1> QED
  BY <1>24, <1>25, <1>26 DEF P, l, c

(* The invariant of the fetches is what is promised of them. *)
LEMMA FetchesFind == FetchInv => FetchTypeOK /\ FetchFinds
<1> SUFFICES ASSUME FetchInv PROVE FetchTypeOK /\ FetchFinds
  OBVIOUS
<1>1. ASSUME fetched.made, fetched.ok
      PROVE  /\ fetched.params \in Params /\ fetched.records = Query(fetched.params)
  <2>1. ~NoFetch.made
    BY DEF NoFetch
  <2> QED
    BY <1>1, <2>1 DEF FetchInv
<1>2. FetchTypeOK
  <2>1. fetched.made /\ fetched.ok => fetched.records \in Seq(Fetchable)
    BY <1>1, QueryIs
  <2> QED
    BY <2>1 DEF FetchInv, FetchTypeOK, Outcomes
<1>3. ASSUME fetched.made, fetched.ok
      PROVE  \E taken \in SUBSET Wanted(fetched.params) :
               /\ Cardinality(taken) = Min({MostOf(fetched.params), Cardinality(Wanted(fetched.params))})
               /\ \A i \in taken, j \in Wanted(fetched.params) \ taken : j < i
               /\ fetched.records = Picked(activity, taken)
  <2> DEFINE p == fetched.params
             A == Wanted(p)
             m == MostOf(p)
  <2>1. p \in Params /\ fetched.records = Query(p)
    BY <1>1, <1>3
  <2>2. A = Matching(p) /\ m = Limit(p) /\ Limit(p) \in Nat
    BY <2>1, WantedIsMatching, MostIsLimit
  <2> HIDE DEF p
  <2>3. Cardinality(Matching(p)) \in Nat
    BY <2>1, QueryIs
  <2>4. Min({Limit(p), Cardinality(Matching(p))})
          = IF Limit(p) <= Cardinality(Matching(p)) THEN Limit(p) ELSE Cardinality(Matching(p))
    BY <2>2, <2>3, LesserOf
  <2>5. PICK taken \in SUBSET Matching(p) :
          /\ Cardinality(taken) = (IF Limit(p) <= Cardinality(Matching(p)) THEN Limit(p) ELSE Cardinality(Matching(p)))
          /\ \A i \in taken, j \in Matching(p) \ taken : j < i
          /\ Query(p) = Picked(activity, taken)
    BY <2>1, QueryIs
  <2>6. Cardinality(taken) = Min({m, Cardinality(A)})
    BY <2>2, <2>4, <2>5
  <2>7. taken \in SUBSET A /\ \A i \in taken, j \in A \ taken : j < i
    BY <2>2, <2>5
  <2>8. fetched.records = Picked(activity, taken)
    BY <2>1, <2>5
  <2> HIDE DEF A, m
  <2>9. \E t \in SUBSET A : /\ Cardinality(t) = Min({m, Cardinality(A)})
                            /\ \A i \in t, j \in A \ t : j < i
                            /\ fetched.records = Picked(activity, t)
    BY <2>6, <2>7, <2>8
  <2> QED
    BY <2>9 DEF A, m, p
<1>4. FetchFinds
  BY <1>3 DEF FetchFinds, Wanted, MostOf, Picked
<1> QED
  BY <1>2, <1>4

(* What is recorded, and what is told. *)
LEMMA CapturesKeeps ==
  ASSUME FetchInv, NEW event, NEW at \in 0..LastAt, event \in Event \/ (event.type = "tool.result" /\
         event.ok \in {<<TRUE>>, <<FALSE>>} /\ event.level = <<>>), Captures(event, at)
  PROVE  activity' \in Seq(Fetchable) /\ Len(activity') <= Remembered
<1>1. activity \in Seq(Fetchable) /\ Len(activity) <= Remembered
  BY DEF FetchInv
<1>2. event.type \in Type /\ event.ok \in {<<>>, <<TRUE>>, <<FALSE>>} /\ event.level \in {<<>>, <<"warn">>}
  BY DEF Event, Type
<1> DEFINE rec == BuildRecord(event, at)
           s == Append(activity, rec)
<1>3. rec \in Fetchable
  BY <1>2 DEF BuildRecord, Fetchable
<1>4. activity' = activity \/ activity' = Newer(s, Remembered)
  BY DEF Captures
<1> HIDE DEF rec
<1>5. s \in Seq(Fetchable)
  BY <1>1, <1>3, AppendProperties
<1> HIDE DEF s
<1>6. /\ Newer(s, Remembered) \in Seq(Fetchable) /\ Len(s) \in Nat
      /\ Len(Newer(s, Remembered)) = (IF Len(s) > Remembered THEN Remembered ELSE Len(s))
  BY <1>5, FetchSizesAre, NewerIs
<1>7. Len(Newer(s, Remembered)) <= Remembered
  BY <1>6, FetchSizesAre
<1> QED
  BY <1>1, <1>4, <1>6, <1>7

(* A ring holds the newest. *)
LEMMA PushResultIs ==
  ASSUME NEW T, NEW holding \in Seq(T), NEW entry \in T, NEW max \in Nat
  PROVE  PushResult(holding, entry, max) \in Seq(T) /\ Len(PushResult(holding, entry, max)) <= max
<1> DEFINE next == Append(holding, entry)
           over == IF Len(next) > max THEN Len(next) - max ELSE 0
           rest == SubSeq(next, over + 1, Len(next))
<1>1. PushResult(holding, entry, max) = rest
  BY DEF PushResult
<1>2. next \in Seq(T) /\ Len(next) \in Nat
  BY AppendProperties, LenProperties
<1> HIDE DEF next
<1>3. over \in Nat /\ Len(next) - over <= max /\ over <= Len(next)
  BY <1>2
<1> HIDE DEF over
<1>4. \A i \in (over + 1)..Len(next) : i \in 1..Len(next)
  BY <1>2, <1>3
<1>5. \A i \in (over + 1)..Len(next) : next[i] \in T
  BY <1>2, <1>4, ElementOfSeq
<1>6. rest \in Seq(T) /\ Len(rest) = (IF over + 1 <= Len(next) THEN Len(next) - (over + 1) + 1 ELSE 0)
  BY <1>2, <1>3, <1>5, SubSeqProperties
<1> HIDE DEF rest
<1>7. Len(rest) <= max
  BY <1>2, <1>3, <1>6
<1> QED
  BY <1>1, <1>6, <1>7

(* Every step keeps what a fetch has found. *)
LEMMA FetchKeeps ==
  ASSUME FetchInv, FetchNext \/ UNCHANGED fetchVars
  PROVE  FetchInv'
<1>0. /\ activity \in Seq(Fetchable) /\ Len(activity) <= Remembered
      /\ outcomes \in Seq(Outcomes) /\ Len(outcomes) <= MaxHeld
  BY DEF FetchInv
<1>1. CASE UNCHANGED fetchVars
  BY <1>1 DEF fetchVars, FetchInv, Query
<1>2. ASSUME NEW e \in Event, NEW at \in 0..LastAt, Happens(e, at) PROVE FetchInv'
  <2>1. ~fetched.made /\ Captures(e, at) /\ fetched' = fetched /\ outcomes' = outcomes
    BY <1>2 DEF Happens
  <2>2. fetched' = NoFetch
    BY <2>1 DEF FetchInv
  <2>3. activity' \in Seq(Fetchable) /\ Len(activity') <= Remembered
    BY <2>1, CapturesKeeps
  <2> QED
    BY <1>0, <2>1, <2>2, <2>3 DEF FetchInv
<1>3. ASSUME NEW p \in Params, Fetches(p) PROVE FetchInv'
  <2>1. /\ fetched' = [made |-> TRUE, ok |-> ~BadParams(p), params |-> p,
                       records |-> IF BadParams(p) THEN <<>> ELSE Query(p)]
        /\ activity' = activity /\ outcomes' = outcomes
    BY <1>3 DEF Fetches
  <2>2. /\ fetched'.made = TRUE /\ fetched'.params = p /\ fetched'.params \in Params
        /\ fetched'.ok = ~BadParams(p)
        /\ fetched'.records = IF BadParams(p) THEN <<>> ELSE Query(p)
    BY <2>1
  <2>3. fetched'.ok \in BOOLEAN /\ fetched'.records = IF fetched'.ok THEN Query(p) ELSE <<>>
    BY <2>2
  <2>4. (fetched.records = IF fetched.ok THEN Query(fetched.params) ELSE <<>>)'
    BY <2>1, <2>2, <2>3 DEF Query
  <2> QED
    BY <1>0, <2>1, <2>2, <2>3, <2>4 DEF FetchInv
<1>4. CASE Told
  <2> DEFINE event == [type |-> "tool.result", ok |-> <<fetched.ok>>, level |-> <<>>, own |-> FALSE]
             outcome == [ok |-> fetched.ok, count |-> Len(fetched.records)]
  <2>1. /\ fetched.made /\ Captures(event, Now)
        /\ outcomes' = PushResult(outcomes, outcome, MaxHeld) /\ fetched' = NoFetch
    BY <1>4 DEF Told
  <2>2. /\ fetched.params \in Params /\ fetched.ok \in BOOLEAN
        /\ fetched.records = IF fetched.ok THEN Query(fetched.params) ELSE <<>>
    BY <2>1 DEF FetchInv, NoFetch
  <2>3. event.type = "tool.result" /\ event.ok \in {<<TRUE>>, <<FALSE>>} /\ event.level = <<>>
    BY <2>2
  <2>4. Now \in 0..LastAt
    BY FetchSizesAre DEF Now
  <2>5. activity' \in Seq(Fetchable) /\ Len(activity') <= Remembered
    <3> HIDE DEF event
    <3> QED
      BY <2>1, <2>3, <2>4, CapturesKeeps
  <2>6. outcome \in Outcomes
    <3>1. Len(Query(fetched.params)) \in 0..Remembered
      BY <2>2, QueryIs
    <3>2. Len(<<>>) = 0 /\ 0 \in 0..Remembered
      BY FetchSizesAre
    <3>3. Len(fetched.records) \in 0..Remembered
      BY <2>2, <3>1, <3>2
    <3> QED
      BY <2>2, <3>3 DEF Outcomes
  <2> HIDE DEF outcome
  <2>7. outcomes' \in Seq(Outcomes) /\ Len(outcomes') <= MaxHeld
    BY <1>0, <2>1, <2>6, FetchSizesAre, PushResultIs
  <2> QED
    BY <2>1, <2>5, <2>7 DEF FetchInv
<1>5. CASE ShedFetch
  <2>1. outcomes # <<>> /\ outcomes' = Tail(outcomes) /\ activity' = activity /\ fetched' = fetched
    BY <1>5 DEF ShedFetch
  <2>2. Tail(outcomes) \in Seq(Outcomes) /\ Len(Tail(outcomes)) = Len(outcomes) - 1 /\ Len(outcomes) \in Nat
    BY <1>0, <2>1, HeadTailProperties, LenProperties
  <2>3. Len(outcomes') <= MaxHeld
    BY <1>0, <2>1, <2>2, FetchSizesAre
  <2> QED
    BY <1>0, <2>1, <2>2, <2>3 DEF FetchInv, Query
<1>6. CASE ClearFetches
  <2>1. outcomes' = <<>> /\ activity' = activity /\ fetched' = fetched
    BY <1>6 DEF ClearFetches
  <2>2. outcomes' \in Seq(Outcomes) /\ Len(outcomes') = 0
    BY <2>1, EmptySeq
  <2>3. Len(outcomes') <= MaxHeld
    BY <2>2, FetchSizesAre
  <2> QED
    BY <1>0, <2>1, <2>2, <2>3 DEF FetchInv, Query
<1> QED
  BY <1>1, <1>2, <1>3, <1>4, <1>5, <1>6 DEF FetchNext

(* Every logbook that the run starts with is as it should be. *)
LEMMA FetchStarts == FetchInit \/ AnyLogbook => FetchInv
<1>1. ASSUME FetchInit PROVE FetchInv
  <2>1. activity = <<>> /\ outcomes = <<>> /\ fetched = NoFetch
    BY <1>1 DEF FetchInit
  <2>2. /\ activity \in Seq(Fetchable) /\ Len(activity) = 0
        /\ outcomes \in Seq(Outcomes) /\ Len(outcomes) = 0
    BY <2>1, EmptySeq
  <2> QED
    BY <2>1, <2>2, FetchSizesAre DEF FetchInv
<1>2. ASSUME AnyLogbook, ~FetchInit PROVE FetchInv
  <2> DEFINE old == [at |-> 0, type |-> "clock.tick", ok |-> <<>>, level |-> <<>>]
  <2>1. activity = [i \in 1..Remembered |-> old] /\ outcomes = <<>> /\ fetched = NoFetch
    BY <1>2 DEF AnyLogbook
  <2>2. old \in Fetchable
    BY FetchSizesAre DEF Fetchable, Type
  <2> HIDE DEF old
  <2>3. activity \in [1..Remembered -> Fetchable] /\ Remembered \in Nat
    BY <2>1, <2>2, FetchSizesAre
  <2>4. activity \in Seq(Fetchable)
    BY <2>3, SeqDef
  <2>5. Len(activity) = Remembered
    <3>1. Len(activity) \in Nat /\ DOMAIN activity = 1..Len(activity) /\ DOMAIN activity = 1..Remembered
      BY <2>3, <2>4, LenProperties
    <3>2. \A k, m \in Nat : 1..k = 1..m => k = m
      OBVIOUS
    <3> QED
      BY <2>3, <3>1, <3>2
  <2>6. outcomes \in Seq(Outcomes) /\ Len(outcomes) = 0
    BY <2>1, EmptySeq
  <2>7. Len(activity) <= Remembered /\ Len(outcomes) <= MaxHeld
    BY <2>5, <2>6, FetchSizesAre
  <2> QED
    BY <2>1, <2>4, <2>6, <2>7 DEF FetchInv
<1> QED
  BY <1>1, <1>2

=============================================================================
