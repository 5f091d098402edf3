------------------------- MODULE MemoryJobStoreProofs -------------------------
(***************************************************************************)
(* The memory job store: its binary search finds the place of a job in any *)
(* sorted list, so the list stays sorted and matches the index, and every  *)
(* operation is one of JobStore's.                                         *)
(***************************************************************************)
EXTENDS MemoryJobStore, SequenceTheorems, WellFoundedInduction, TLAPS

-----------------------------------------------------------------------------
(* Induction over sets of naturals                                           *)

LEMMA LeastNatural ==
    ASSUME NEW S \in SUBSET Nat, S # {}
    PROVE  \E m \in S : \A x \in S : m <= x
<1> DEFINE R == OpToRel(<, Nat)
<1>1. IsWellFoundedOn(R, Nat)
    BY NatLessThanWellFounded
<1> HIDE DEF R
<1>2. PICK m \in S : \A x \in S : <<x, m>> \notin R
    BY <1>1, WFMin, Zenon
<1>3. ASSUME NEW x \in S, x < m PROVE FALSE
    <2>1. <<x, m>> \in R
        BY <1>3 DEF R, OpToRel
    <2> QED BY <2>1, <1>2
<1>4. \A x \in S : m <= x
    BY <1>3
<1> QED BY <1>4

\* A set that holds 0 and with every number the next one holds all of them.
LEMMA SetInduction ==
    ASSUME NEW S, 0 \in S, \A n \in Nat : n \in S => n + 1 \in S
    PROVE  Nat \subseteq S
<1> DEFINE T == Nat \ S
<1>1. CASE T # {}
    <2>1. PICK m \in T : \A x \in T : m <= x
        BY <1>1, LeastNatural
    <2>2. m # 0 /\ m - 1 \in Nat /\ m - 1 \notin T
        BY <2>1
    <2>3. m - 1 + 1 \in S
        BY <2>2
    <2> QED BY <2>1, <2>3
<1> QED BY <1>1

-----------------------------------------------------------------------------
(* The order of the list                                                     *)

LEMMA BeforeIsOrder ==
    ASSUME NEW t \in TimeStamp, NEW u \in TimeStamp, NEW v \in TimeStamp,
           NEW j \in JobIds, NEW k \in JobIds, NEW l \in JobIds
    PROVE  /\ Before(t, j, u, k) => ~Before(u, k, t, j)
           /\ ~Before(t, j, u, k) /\ ~Before(u, k, t, j) => t = u /\ j = k
           /\ Before(t, j, u, k) /\ Before(u, k, v, l) => Before(t, j, v, l)
BY MemoryAssumption DEF Before, Earlier, TimeStamp

\* An entry as the order sees it.
Precedes(d, e) == Before(d.timestamp, d.id, e.timestamp, e.id)

LEMMA PrecedesIsOrder ==
    ASSUME NEW d \in Entry, NEW e \in Entry, NEW f \in Entry
    PROVE  /\ Precedes(d, e) => ~Precedes(e, d)
           /\ ~Precedes(d, e) /\ ~Precedes(e, d) => d = e
           /\ Precedes(d, e) /\ Precedes(e, f) => Precedes(d, f)
<1>1. \A x \in {d, e, f} : x.timestamp \in TimeStamp /\ x.id \in JobIds
    BY DEF Entry
<1>2. d.timestamp = e.timestamp /\ d.id = e.id => d = e
    BY DEF Entry
<1> QED BY <1>1, <1>2, BeforeIsOrder DEF Precedes

Sorted(s) == \A m, n \in 1 .. Len(s) : m < n => Precedes(s[m], s[n])

-----------------------------------------------------------------------------
(* The binary search                                                         *)

\* f is the recursive function of JobIndex.
Searches(s, t, j, f) == f = [range \in Ranges(s) |-> Probe(s, t, j, range, f)]

\* The recursion of JobIndex stops, so that there is a function that does what
\* it says: one for ranges of width n extends to ranges of width n + 1.
LEMMA SearchExists ==
    ASSUME NEW s \in Seq(Entry), NEW t, NEW j
    PROVE  \E f : Searches(s, t, j, f)
<1> DEFINE R == Ranges(s)
           Solves(f, n) == \A r \in R : r[2] - r[1] <= n => f[r] = Probe(s, t, j, r, f)
           Solved == {n \in Nat : \E f : Solves(f, n)}
<1>0. Len(s) \in Nat
    OBVIOUS
<1>1. 0 \in Solved
    <2> DEFINE f == [r \in R |-> r[1]]
    <2>1. ASSUME NEW r \in R, r[2] - r[1] <= 0 PROVE f[r] = Probe(s, t, j, r, f)
        BY <1>0, <2>1 DEF Probe, Ranges
    <2> HIDE DEF f, R
    <2> QED BY <2>1
<1>2. ASSUME NEW n \in Nat, n \in Solved PROVE n + 1 \in Solved
    <2>1. PICK f : Solves(f, n)
        BY <1>2
    <2> DEFINE g == [r \in R |-> IF r[2] - r[1] <= n THEN f[r] ELSE Probe(s, t, j, r, f)]
    <2>2. ASSUME NEW r \in R, r[2] - r[1] <= n + 1 PROVE g[r] = Probe(s, t, j, r, g)
        <3> DEFINE lo == r[1]  hi == r[2]  mid == (lo + hi) \div 2
        <3>1. lo \in 0 .. Len(s) /\ hi \in 0 .. Len(s)
            BY DEF Ranges
        <3>2. CASE lo >= hi
            <4>1. Probe(s, t, j, r, g) = lo /\ Probe(s, t, j, r, f) = lo
                BY <3>2 DEF Probe
            <4>2. g[r] = Probe(s, t, j, r, f)
                BY <2>1
            <4> QED BY <4>1, <4>2
        <3>3. CASE lo < hi
            <4>1. mid \in lo .. hi - 1
                BY <3>1, <3>3
            <4> DEFINE left == <<lo, mid>>  right == <<mid + 1, hi>>
            <4>2. left \in R /\ right \in R
                BY <1>0, <3>1, <4>1 DEF Ranges
            <4>3. g[left] = f[left] /\ g[right] = f[right]
                <5>1. left[2] - left[1] <= n /\ right[2] - right[1] <= n
                    BY <2>2, <3>1, <4>1
                <5> HIDE DEF left, right
                <5> QED BY <4>2, <5>1
            <4>4. Probe(s, t, j, r, g) = Probe(s, t, j, r, f)
                BY <4>3 DEF Probe
            <4>5. g[r] = Probe(s, t, j, r, f)
                BY <2>1
            <4> QED BY <4>4, <4>5
        <3> QED BY <3>1, <3>2, <3>3
    <2>3. Solves(g, n + 1)
        BY <2>2
    <2> HIDE DEF g, Solves
    <2> QED BY <2>3
<1> HIDE DEF Solved
<1>3. Len(s) \in Solved
    BY <1>0, <1>1, <1>2, SetInduction
<1>4. PICK f : Solves(f, Len(s))
    BY <1>3 DEF Solved
<1> DEFINE g == [r \in R |-> Probe(s, t, j, r, f)]
<1>5. \A r \in R : g[r] = f[r]
    <2>1. ASSUME NEW r \in R PROVE r[2] - r[1] <= Len(s)
        BY <1>0 DEF Ranges
    <2> QED BY <1>4, <2>1
<1>6. ASSUME NEW r \in R PROVE Probe(s, t, j, r, f) = Probe(s, t, j, r, g)
    <2> DEFINE lo == r[1]  hi == r[2]  mid == (lo + hi) \div 2
    <2>1. lo \in 0 .. Len(s) /\ hi \in 0 .. Len(s)
        BY DEF Ranges
    <2>2. CASE lo >= hi
        BY <2>2 DEF Probe
    <2>3. CASE lo < hi
        <3>1. mid \in lo .. hi - 1
            BY <2>1, <2>3
        <3>2. <<lo, mid>> \in R /\ <<mid + 1, hi>> \in R
            BY <1>0, <2>1, <3>1 DEF Ranges
        <3> HIDE DEF g
        <3> QED BY <1>5, <3>2 DEF Probe
    <2> QED BY <2>1, <2>2, <2>3
<1>7. g = [r \in R |-> Probe(s, t, j, r, g)]
    BY <1>6
<1> QED BY <1>7 DEF Searches

\* p is where the entries of s that come before e end.
Divides(s, p, e) ==
    /\ p \in 1 .. Len(s) + 1
    /\ \A m \in 1 .. Len(s) : Precedes(s[m], e) <=> m < p

\* The search in a range outside which everything is on its side of e.
LEMMA SearchDivides ==
    ASSUME NEW s \in Seq(Entry), Sorted(s), NEW t \in TimeStamp, NEW j \in JobIds,
           NEW f, \A range \in Ranges(s) : f[range] = Probe(s, t, j, range, f)
    PROVE  Divides(s, f[<<0, Len(s)>>] + 1, [id |-> j, timestamp |-> t])
<1> DEFINE e == [id |-> j, timestamp |-> t]
           Outside(lo, hi) ==
               /\ \A m \in 1 .. lo : Precedes(s[m], e)
               /\ \A m \in hi + 1 .. Len(s) : Precedes(e, s[m])
           Right(n) ==
               \A lo, hi \in 0 .. Len(s) :
                   lo <= hi /\ hi - lo <= n /\ Outside(lo, hi) => Divides(s, f[<<lo, hi>>] + 1, e)
           Proved == {n \in Nat : Right(n)}
<1>e. e \in Entry
    BY DEF Entry
<1>0. Len(s) \in Nat /\ e \in Entry /\ \A m \in 1 .. Len(s) : s[m] \in Entry
    BY <1>e
<1>a. ASSUME NEW lo \in 0 .. Len(s), NEW hi \in 0 .. Len(s)
      PROVE  f[<<lo, hi>>] = Probe(s, t, j, <<lo, hi>>, f)
    <2>1. <<lo, hi>> \in Ranges(s)
        BY DEF Ranges
    <2> QED BY <2>1
<1>b. \A m \in 1 .. Len(s) : Precedes(e, s[m]) => ~Precedes(s[m], e)
    <2> HIDE DEF e
    <2> QED BY <1>0, PrecedesIsOrder
\* An empty range: everything is on its side.
<1>c. ASSUME NEW lo \in 0 .. Len(s), Outside(lo, lo)
      PROVE  Divides(s, f[<<lo, lo>>] + 1, e)
    <2>p. Probe(s, t, j, <<lo, lo>>, f) = lo
        BY DEF Probe
    <2>1. f[<<lo, lo>>] = lo
        BY <1>a, <2>p
    <2> HIDE DEF e
    <2>2. \A m \in 1 .. Len(s) : Precedes(s[m], e) <=> m < lo + 1
        BY <1>0, <1>b, <1>c
    <2> QED BY <1>0, <2>1, <2>2 DEF Divides
<1>1. 0 \in Proved
    <2>1. ASSUME NEW lo \in 0 .. Len(s), NEW hi \in 0 .. Len(s), lo <= hi, hi - lo <= 0,
                 Outside(lo, hi)
          PROVE  Divides(s, f[<<lo, hi>>] + 1, e)
        <3>1. lo = hi
            BY <2>1
        <3> HIDE DEF Outside, e
        <3> QED BY <1>c, <2>1, <3>1
    <2> HIDE DEF Outside, e
    <2> QED BY <2>1
<1>2. ASSUME NEW n \in Nat, n \in Proved PROVE n + 1 \in Proved
    <2>1. ASSUME NEW lo \in 0 .. Len(s), NEW hi \in 0 .. Len(s), lo <= hi, hi - lo <= n + 1,
                 Outside(lo, hi)
          PROVE  Divides(s, f[<<lo, hi>>] + 1, e)
        <3>1. CASE lo = hi
            <4> HIDE DEF Outside, e
            <4> QED BY <1>c, <2>1, <3>1
        <3>2. CASE lo < hi
            <4> DEFINE mid == (lo + hi) \div 2
                       d   == s[mid + 1]
            <4>1. mid \in lo .. hi - 1 /\ mid \in 0 .. Len(s) /\ mid + 1 \in 1 .. Len(s)
                BY <1>0, <3>2
            <4>2. d \in Entry
                BY <1>0, <4>1
            <4>p. Probe(s, t, j, <<lo, hi>>, f) = IF Precedes(e, d) THEN f[<<lo, mid>>]
                                                  ELSE IF Precedes(d, e) THEN f[<<mid + 1, hi>>]
                                                  ELSE mid
                BY <3>2 DEF Probe, Precedes
            <4>3. f[<<lo, hi>>] = IF Precedes(e, d) THEN f[<<lo, mid>>]
                                  ELSE IF Precedes(d, e) THEN f[<<mid + 1, hi>>]
                                  ELSE mid
                BY <1>a, <4>p
            <4> HIDE DEF mid, e
            <4>4. CASE Precedes(e, d)
                <5>1. ASSUME NEW m \in mid + 1 .. Len(s) PROVE Precedes(e, s[m])
                    <6>1. m = mid + 1 \/ Precedes(d, s[m])
                        BY <1>0, <4>1 DEF Sorted
                    <6>2. s[m] \in Entry
                        BY <1>0, <4>1
                    <6> QED BY <1>0, <4>2, <4>4, <6>1, <6>2, PrecedesIsOrder
                <5>2. Outside(lo, mid)
                    BY <2>1, <5>1
                <5>3. lo <= mid /\ mid - lo <= n
                    BY <2>1, <4>1
                <5>4. Divides(s, f[<<lo, mid>>] + 1, e)
                    BY <1>2, <4>1, <5>2, <5>3
                <5> QED BY <4>3, <4>4, <5>4
            <4>5. CASE ~Precedes(e, d) /\ Precedes(d, e)
                <5>1. ASSUME NEW m \in 1 .. mid + 1 PROVE Precedes(s[m], e)
                    <6>1. m = mid + 1 \/ Precedes(s[m], d)
                        BY <1>0, <4>1 DEF Sorted
                    <6>2. s[m] \in Entry
                        BY <1>0, <4>1
                    <6> QED BY <1>0, <4>2, <4>5, <6>1, <6>2, PrecedesIsOrder
                <5>2. Outside(mid + 1, hi)
                    BY <2>1, <5>1
                <5>3. mid + 1 \in 0 .. Len(s) /\ mid + 1 <= hi /\ hi - (mid + 1) <= n
                    BY <1>0, <2>1, <4>1
                <5>4. Divides(s, f[<<mid + 1, hi>>] + 1, e)
                    BY <1>2, <5>2, <5>3
                <5> QED BY <4>3, <4>5, <5>4
            <4>6. CASE ~Precedes(e, d) /\ ~Precedes(d, e)
                <5>1. d = e
                    BY <1>0, <4>2, <4>6, PrecedesIsOrder
                <5>2. \A m \in 1 .. Len(s) : Precedes(s[m], e) <=> m < mid + 1
                    <6> TAKE m \in 1 .. Len(s)
                    <6>1. m < mid + 1 => Precedes(s[m], e)
                        BY <4>1, <5>1 DEF Sorted
                    <6>2. m > mid + 1 => ~Precedes(s[m], e)
                        BY <1>0, <1>b, <4>1, <5>1 DEF Sorted
                    <6>3. m = mid + 1 => ~Precedes(s[m], e)
                        BY <4>6
                    <6> QED BY <4>1, <6>1, <6>2, <6>3
                <5>3. f[<<lo, hi>>] = mid
                    BY <4>3, <4>6
                <5> QED BY <1>0, <4>1, <5>2, <5>3 DEF Divides
            <4> QED BY <4>4, <4>5, <4>6
        <3> QED BY <2>1, <3>1, <3>2
    <2> HIDE DEF Outside, e
    <2> QED BY <2>1
<1> HIDE DEF Proved
<1>3. Len(s) \in Proved
    BY <1>0, <1>1, <1>2, SetInduction
<1>4. Outside(0, Len(s))
    BY <1>0
<1> HIDE DEF Outside, e
<1>5. Divides(s, f[<<0, Len(s)>>] + 1, e)
    BY <1>0, <1>3, <1>4 DEF Proved
<1> QED BY <1>5 DEF e

\* In a sorted list the search finds the place that divides it.
LEMMA JobIndexDivides ==
    ASSUME NEW s \in Seq(Entry), Sorted(s), NEW t \in TimeStamp, NEW j \in JobIds
    PROVE  Divides(s, JobIndex(s, t, j), [id |-> j, timestamp |-> t])
<1> DEFINE search == CHOOSE f : Searches(s, t, j, f)
<1>1. \E f : Searches(s, t, j, f)
    BY SearchExists
<1>2. Searches(s, t, j, search)
    BY <1>1
<1>3. JobIndex(s, t, j) = search[<<0, Len(s)>>] + 1
    BY DEF JobIndex, Searches
<1> HIDE DEF search
<1>4. \A range \in Ranges(s) : search[range] = Probe(s, t, j, range, search)
    <2>1. search = [range \in Ranges(s) |-> Probe(s, t, j, range, search)]
        BY <1>2 DEF Searches
    <2> QED BY <2>1
<1>5. Divides(s, search[<<0, Len(s)>>] + 1, [id |-> j, timestamp |-> t])
    BY <1>4, SearchDivides
<1> QED BY <1>3, <1>5

\* Where a job is in a sorted list, the search finds it.
LEMMA JobIndexFinds ==
    ASSUME NEW s \in Seq(Entry), Sorted(s), NEW n \in 1 .. Len(s)
    PROVE  JobIndex(s, s[n].timestamp, s[n].id) = n
<1>0. s[n] \in Entry
    OBVIOUS
<1>1. /\ s[n] \in Entry /\ s[n].timestamp \in TimeStamp /\ s[n].id \in JobIds
      /\ s[n] = [id |-> s[n].id, timestamp |-> s[n].timestamp]
    BY <1>0 DEF Entry
<1>2. Divides(s, JobIndex(s, s[n].timestamp, s[n].id), s[n])
    BY <1>1, JobIndexDivides
<1>3. \A m \in 1 .. Len(s) : Precedes(s[m], s[n]) <=> m < n
    <2> TAKE m \in 1 .. Len(s)
    <2>1. s[m] \in Entry
        OBVIOUS
    <2>2. m < n => Precedes(s[m], s[n])
        BY DEF Sorted
    <2>3. m > n => Precedes(s[n], s[m])
        BY DEF Sorted
    <2>4. Precedes(s[n], s[m]) => ~Precedes(s[m], s[n])
        BY <1>1, <2>1, PrecedesIsOrder
    <2>5. m = n => ~Precedes(s[m], s[n])
        BY <1>1, PrecedesIsOrder
    <2> QED BY <2>2, <2>3, <2>4, <2>5
<1> DEFINE p == JobIndex(s, s[n].timestamp, s[n].id)
<1> HIDE DEF p
<1>4. p \in 1 .. Len(s) + 1 /\ \A m \in 1 .. Len(s) : m < p <=> m < n
    BY <1>2, <1>3 DEF Divides, p
<1>5. p = n
    <2>1. CASE p < n
        BY <1>4, <2>1
    <2>2. CASE p > n
        BY <1>4, <2>2
    <2> QED BY <1>4, <2>1, <2>2
<1> QED BY <1>5 DEF p

-----------------------------------------------------------------------------
(* What the operations make of the list                                      *)

LEMMA InsertElements ==
    ASSUME NEW s \in Seq(Entry), NEW p \in 1 .. Len(s) + 1, NEW e \in Entry
    PROVE  LET r == InsertAt(s, p, e)
           IN  /\ r \in Seq(Entry) /\ Len(r) = Len(s) + 1
               /\ \A n \in 1 .. Len(s) + 1 :
                     r[n] = IF n < p THEN s[n] ELSE IF n = p THEN e ELSE s[n - 1]
<1> DEFINE a == SubSeq(s, 1, p - 1)
           b == SubSeq(s, p, Len(s))
<1>0. Len(s) \in Nat /\ p \in Nat
    OBVIOUS
<1>1. a \in Seq(Entry) /\ Len(a) = p - 1 /\ \A n \in 1 .. p - 1 : a[n] = s[n]
    BY <1>0, SubSeqProperties
<1>2. /\ b \in Seq(Entry) /\ Len(b) = Len(s) - p + 1
      /\ \A n \in 1 .. Len(s) - p + 1 : b[n] = s[p + n - 1]
    BY <1>0, SubSeqProperties
<1> DEFINE d == <<e>>
<1>3. d \in Seq(Entry) /\ Len(d) = 1 /\ d[1] = e
    OBVIOUS
<1> HIDE DEF a, b, d
<1>4. /\ a \o d \in Seq(Entry) /\ Len(a \o d) = p
      /\ \A n \in 1 .. p - 1 : (a \o d)[n] = s[n]
      /\ (a \o d)[p] = e
    <2>1. /\ a \o d \in Seq(Entry) /\ Len(a \o d) = Len(a) + Len(d)
          /\ \A n \in 1 .. Len(a) + Len(d) :
                (a \o d)[n] = IF n <= Len(a) THEN a[n] ELSE d[n - Len(a)]
        BY <1>1, <1>3, ConcatProperties
    <2>2. p - Len(a) = 1 /\ p \in 1 .. Len(a) + Len(d) /\ Len(a) + Len(d) = p
        BY <1>0, <1>1, <1>3
    <2>3. (a \o d)[p] = d[p - Len(a)]
        BY <1>0, <1>1, <2>1, <2>2
    <2>4. \A n \in 1 .. p - 1 : (a \o d)[n] = a[n]
        BY <1>0, <1>1, <2>1, <2>2
    <2> QED BY <1>1, <1>3, <2>1, <2>2, <2>3, <2>4
<1> DEFINE c == a \o d
           r == c \o b
<1> HIDE DEF c
<1>5. /\ r \in Seq(Entry) /\ Len(r) = Len(s) + 1
      /\ \A n \in 1 .. p : r[n] = c[n]
      /\ \A n \in p + 1 .. Len(s) + 1 : r[n] = b[n - p]
    <2>1. c \in Seq(Entry) /\ Len(c) = p
        BY <1>4 DEF c
    <2>2. /\ r \in Seq(Entry) /\ Len(r) = Len(c) + Len(b)
          /\ \A n \in 1 .. Len(c) + Len(b) : r[n] = IF n <= Len(c) THEN c[n] ELSE b[n - Len(c)]
        BY <1>2, <2>1, ConcatProperties
    <2>3. Len(c) + Len(b) = Len(s) + 1
        BY <1>0, <1>2, <2>1
    <2> HIDE DEF r
    <2> QED BY <1>0, <2>1, <2>2, <2>3
<1>6. ASSUME NEW n \in p + 1 .. Len(s) + 1 PROVE b[n - p] = s[n - 1]
    <2>1. n - p \in 1 .. Len(s) - p + 1 /\ p + (n - p) - 1 = n - 1
        BY <1>0
    <2> QED BY <1>2, <2>1
<1>7. InsertAt(s, p, e) = r
    BY DEF InsertAt, a, b, c, d
<1> HIDE DEF r
<1>8. ASSUME NEW n \in 1 .. Len(s) + 1
      PROVE  r[n] = IF n < p THEN s[n] ELSE IF n = p THEN e ELSE s[n - 1]
    <2>1. CASE n < p
        <3>1. n \in 1 .. p - 1 /\ n \in 1 .. p
            BY <1>0, <2>1
        <3>2. r[n] = s[n]
            BY <1>4, <1>5, <3>1 DEF c
        <3> QED BY <2>1, <3>2
    <2>2. CASE n = p
        BY <1>0, <1>4, <1>5, <2>2 DEF c
    <2>3. CASE n > p
        BY <1>0, <1>5, <1>6, <2>3
    <2> QED BY <1>0, <2>1, <2>2, <2>3
<1> QED BY <1>5, <1>7, <1>8

LEMMA RemoveElements ==
    ASSUME NEW s \in Seq(Entry), NEW p \in 1 .. Len(s)
    PROVE  LET r == RemoveAt(s, p)
           IN  /\ r \in Seq(Entry) /\ Len(r) = Len(s) - 1
               /\ \A n \in 1 .. Len(s) - 1 : r[n] = IF n < p THEN s[n] ELSE s[n + 1]
<1> DEFINE a == SubSeq(s, 1, p - 1)
           b == SubSeq(s, p + 1, Len(s))
<1>0. Len(s) \in Nat /\ p \in Nat
    OBVIOUS
<1>1. a \in Seq(Entry) /\ Len(a) = p - 1 /\ \A n \in 1 .. p - 1 : a[n] = s[n]
    BY <1>0, SubSeqProperties
<1>2. /\ b \in Seq(Entry) /\ Len(b) = Len(s) - p
      /\ \A n \in 1 .. Len(s) - p : b[n] = s[p + n]
    BY <1>0, SubSeqProperties
<1> HIDE DEF a, b
<1> DEFINE r == a \o b
<1>3. /\ r \in Seq(Entry) /\ Len(r) = Len(s) - 1
      /\ \A n \in 1 .. p - 1 : r[n] = a[n]
      /\ \A n \in p .. Len(s) - 1 : r[n] = b[n - (p - 1)]
    <2>1. /\ r \in Seq(Entry) /\ Len(r) = Len(a) + Len(b)
          /\ \A n \in 1 .. Len(a) + Len(b) : r[n] = IF n <= Len(a) THEN a[n] ELSE b[n - Len(a)]
        BY <1>1, <1>2, ConcatProperties
    <2>2. Len(a) = p - 1 /\ Len(a) + Len(b) = Len(s) - 1
        BY <1>0, <1>1, <1>2
    <2> HIDE DEF r
    <2>3. ASSUME NEW n \in 1 .. p - 1 PROVE r[n] = a[n]
        <3>1. n \in 1 .. Len(a) + Len(b) /\ n <= Len(a)
            BY <1>0, <2>2
        <3> QED BY <2>1, <3>1
    <2>4. ASSUME NEW n \in p .. Len(s) - 1 PROVE r[n] = b[n - (p - 1)]
        <3>1. n \in 1 .. Len(a) + Len(b) /\ ~(n <= Len(a))
            BY <1>0, <2>2
        <3> QED BY <2>1, <2>2, <3>1
    <2> QED BY <2>1, <2>2, <2>3, <2>4
<1>4. ASSUME NEW n \in p .. Len(s) - 1 PROVE b[n - (p - 1)] = s[n + 1]
    <2>1. n - (p - 1) \in 1 .. Len(s) - p /\ p + (n - (p - 1)) = n + 1
        BY <1>0
    <2> QED BY <1>2, <2>1
<1>5. RemoveAt(s, p) = r
    BY DEF RemoveAt, a, b
<1> HIDE DEF r
<1>6. ASSUME NEW n \in 1 .. Len(s) - 1 PROVE r[n] = IF n < p THEN s[n] ELSE s[n + 1]
    <2>1. CASE n < p
        BY <1>0, <1>1, <1>3, <2>1
    <2>2. CASE n >= p
        BY <1>0, <1>3, <1>4, <2>2
    <2> QED BY <1>0, <2>1, <2>2
<1> QED BY <1>3, <1>5, <1>6

\* An entry put where it divides a sorted list leaves the list sorted.
LEMMA InsertSorted ==
    ASSUME NEW s \in Seq(Entry), Sorted(s), NEW e \in Entry, e \notin ToSet(s),
           NEW p, Divides(s, p, e)
    PROVE  /\ InsertAt(s, p, e) \in Seq(Entry)
           /\ Sorted(InsertAt(s, p, e))
           /\ ToSet(InsertAt(s, p, e)) = ToSet(s) \cup {e}
<1> DEFINE r == InsertAt(s, p, e)
<1>0. Len(s) \in Nat /\ p \in 1 .. Len(s) + 1 /\ \A m \in 1 .. Len(s) : s[m] \in Entry
    BY DEF Divides
<1>1. /\ r \in Seq(Entry) /\ Len(r) = Len(s) + 1
      /\ \A n \in 1 .. Len(s) + 1 :
            r[n] = IF n < p THEN s[n] ELSE IF n = p THEN e ELSE s[n - 1]
    BY InsertElements DEF Divides
<1>2. \A m \in 1 .. Len(s) : (m < p => Precedes(s[m], e)) /\ (m >= p => Precedes(e, s[m]))
    <2> TAKE m \in 1 .. Len(s)
    <2>1. s[m] # e
        BY DEF ToSet
    <2> QED BY <1>0, <2>1, PrecedesIsOrder DEF Divides
<1> HIDE DEF r
<1>3. ASSUME NEW m \in 1 .. Len(r), NEW n \in 1 .. Len(r), m < n PROVE Precedes(r[m], r[n])
    <2>0. m \in 1 .. Len(s) + 1 /\ n \in 1 .. Len(s) + 1
        BY <1>1
    <2>1. CASE n < p
        <3>1. r[m] = s[m] /\ r[n] = s[n] /\ m \in 1 .. Len(s) /\ n \in 1 .. Len(s)
            BY <1>0, <1>1, <1>3, <2>0, <2>1
        <3> QED BY <1>3, <3>1 DEF Sorted
    <2>2. CASE n = p
        <3>1. r[m] = s[m] /\ r[n] = e /\ m \in 1 .. Len(s) /\ m < p
            BY <1>0, <1>1, <1>3, <2>0, <2>2
        <3> QED BY <1>2, <3>1
    <2>3. CASE n > p /\ m < p
        <3>1. r[m] = s[m] /\ r[n] = s[n - 1] /\ m \in 1 .. Len(s) /\ n - 1 \in 1 .. Len(s) /\ m < n - 1
            BY <1>0, <1>1, <2>0, <2>3
        <3> QED BY <3>1 DEF Sorted
    <2>4. CASE n > p /\ m = p
        <3>1. r[m] = e /\ r[n] = s[n - 1] /\ n - 1 \in 1 .. Len(s) /\ n - 1 >= p
            BY <1>0, <1>1, <2>0, <2>4
        <3> QED BY <1>2, <3>1
    <2>5. CASE n > p /\ m > p
        <3>1. /\ r[m] = s[m - 1] /\ r[n] = s[n - 1]
              /\ m - 1 \in 1 .. Len(s) /\ n - 1 \in 1 .. Len(s) /\ m - 1 < n - 1
            BY <1>0, <1>1, <1>3, <2>0, <2>5
        <3> QED BY <3>1 DEF Sorted
    <2> QED BY <1>0, <1>3, <2>0, <2>1, <2>2, <2>3, <2>4, <2>5
<1>4. ToSet(r) = ToSet(s) \cup {e}
    <2>1. DOMAIN s = 1 .. Len(s) /\ DOMAIN r = 1 .. Len(s) + 1
        BY <1>1
    <2>2. ASSUME NEW x \in ToSet(s) PROVE x \in ToSet(r)
        <3>1. PICK m \in 1 .. Len(s) : x = s[m]
            BY <2>1 DEF ToSet
        <3>2. CASE m < p
            BY <1>0, <1>1, <2>1, <3>1, <3>2 DEF ToSet
        <3>3. CASE m >= p
            <4>1. m + 1 \in 1 .. Len(s) + 1 /\ r[m + 1] = x
                BY <1>0, <1>1, <3>1, <3>3
            <4> QED BY <2>1, <4>1 DEF ToSet
        <3> QED BY <1>0, <3>2, <3>3
    <2>3. e \in ToSet(r)
        BY <1>0, <1>1, <2>1 DEF ToSet
    <2>4. ASSUME NEW n \in 1 .. Len(s) + 1 PROVE r[n] \in ToSet(s) \cup {e}
        <3>1. CASE n < p
            BY <1>0, <1>1, <2>1, <3>1 DEF ToSet
        <3>2. CASE n = p
            BY <1>0, <1>1, <3>2
        <3>3. CASE n > p
            <4>1. n - 1 \in 1 .. Len(s) /\ r[n] = s[n - 1]
                BY <1>0, <1>1, <3>3
            <4> QED BY <2>1, <4>1 DEF ToSet
        <3> QED BY <1>0, <3>1, <3>2, <3>3
    <2>5. \A x \in ToSet(r) : x \in ToSet(s) \cup {e}
        BY <2>1, <2>4 DEF ToSet
    <2> QED BY <2>2, <2>3, <2>5
<1> QED BY <1>1, <1>3, <1>4 DEF Sorted, r

LEMMA RemoveSorted ==
    ASSUME NEW s \in Seq(Entry), Sorted(s), NEW p \in 1 .. Len(s)
    PROVE  /\ RemoveAt(s, p) \in Seq(Entry)
           /\ Sorted(RemoveAt(s, p))
           /\ ToSet(RemoveAt(s, p)) = ToSet(s) \ {s[p]}
<1> DEFINE r == RemoveAt(s, p)
<1>0. Len(s) \in Nat /\ p \in Nat /\ \A m \in 1 .. Len(s) : s[m] \in Entry
    OBVIOUS
<1>1. /\ r \in Seq(Entry) /\ Len(r) = Len(s) - 1
      /\ \A n \in 1 .. Len(s) - 1 : r[n] = IF n < p THEN s[n] ELSE s[n + 1]
    BY <1>0, RemoveElements
<1>2. \A m \in 1 .. Len(s) : m # p => s[m] # s[p]
    <2> TAKE m \in 1 .. Len(s)
    <2>1. m < p => Precedes(s[m], s[p])
        BY DEF Sorted
    <2>2. m > p => Precedes(s[p], s[m])
        BY DEF Sorted
    <2>3. ~Precedes(s[p], s[p])
        BY <1>0, PrecedesIsOrder
    <2> QED BY <1>0, <2>1, <2>2, <2>3
<1> HIDE DEF r
<1>3. ASSUME NEW m \in 1 .. Len(r), NEW n \in 1 .. Len(r), m < n PROVE Precedes(r[m], r[n])
    <2>0. m \in 1 .. Len(s) - 1 /\ n \in 1 .. Len(s) - 1
        BY <1>1
    <2>1. CASE n < p
        <3>1. r[m] = s[m] /\ r[n] = s[n] /\ m \in 1 .. Len(s) /\ n \in 1 .. Len(s)
            BY <1>0, <1>1, <1>3, <2>0, <2>1
        <3> QED BY <1>3, <3>1 DEF Sorted
    <2>2. CASE n >= p /\ m < p
        <3>1. r[m] = s[m] /\ r[n] = s[n + 1] /\ m \in 1 .. Len(s) /\ n + 1 \in 1 .. Len(s) /\ m < n + 1
            BY <1>0, <1>1, <1>3, <2>0, <2>2
        <3> QED BY <3>1 DEF Sorted
    <2>3. CASE n >= p /\ m >= p
        <3>1. /\ r[m] = s[m + 1] /\ r[n] = s[n + 1]
              /\ m + 1 \in 1 .. Len(s) /\ n + 1 \in 1 .. Len(s) /\ m + 1 < n + 1
            BY <1>0, <1>1, <1>3, <2>0, <2>3
        <3> QED BY <3>1 DEF Sorted
    <2> QED BY <1>0, <1>3, <2>0, <2>1, <2>2, <2>3
<1>4. ToSet(r) = ToSet(s) \ {s[p]}
    <2>1. DOMAIN s = 1 .. Len(s) /\ DOMAIN r = 1 .. Len(s) - 1
        BY <1>1
    <2>2. ASSUME NEW m \in 1 .. Len(s), m # p PROVE s[m] \in ToSet(r)
        <3>1. CASE m < p
            BY <1>0, <1>1, <2>1, <3>1 DEF ToSet
        <3>2. CASE m > p
            <4>1. m - 1 \in 1 .. Len(s) - 1 /\ r[m - 1] = s[m]
                BY <1>0, <1>1, <3>2
            <4> QED BY <2>1, <4>1 DEF ToSet
        <3> QED BY <1>0, <2>2, <3>1, <3>2
    <2>3. ASSUME NEW n \in 1 .. Len(s) - 1 PROVE r[n] \in ToSet(s) \ {s[p]}
        <3>1. PICK m \in 1 .. Len(s) : r[n] = s[m] /\ m # p
            BY <1>0, <1>1
        <3> QED BY <1>2, <2>1, <3>1 DEF ToSet
    <2>4. \A x \in ToSet(r) : x \in ToSet(s) \ {s[p]}
        BY <2>1, <2>3 DEF ToSet
    <2>5. \A x \in ToSet(s) \ {s[p]} : x \in ToSet(r)
        BY <2>1, <2>2 DEF ToSet
    <2> QED BY <2>4, <2>5
<1> QED BY <1>1, <1>3, <1>4 DEF Sorted, r

-----------------------------------------------------------------------------
(* The invariant: the list is sorted, by more than neighbours, and is what   *)
(* the index says                                                            *)

Stored(index, j) == [id |-> j, timestamp |-> index[j]]

\* The entries that an index stands for.
Indexed(index) == {Stored(index, j) : j \in {k \in JobIds : index[k] # Absent}}

IInv ==
    /\ jobs \in Seq(Entry)
    /\ Sorted(jobs)
    /\ jobsIndex \in [JobIds -> TimeStamp \cup {Absent}]
    /\ ToSet(jobs) = Indexed(jobsIndex)

LEMMA IndexedPut ==
    ASSUME NEW index \in [JobIds -> TimeStamp \cup {Absent}], NEW j \in JobIds, NEW t \in TimeStamp
    PROVE  Indexed([index EXCEPT ![j] = t])
               = (Indexed(index) \ {Stored(index, j)}) \cup {[id |-> j, timestamp |-> t]}
<1> DEFINE next == [index EXCEPT ![j] = t]
           e == [id |-> j, timestamp |-> t]
<1>0. t # Absent
    BY MemoryAssumption DEF TimeStamp
<1>1. next[j] = t /\ \A k \in JobIds : k # j => next[k] = index[k]
    OBVIOUS
<1> HIDE DEF next
<1>2. ASSUME NEW x \in Indexed(next) PROVE x \in (Indexed(index) \ {Stored(index, j)}) \cup {e}
    <2>1. PICK k \in JobIds : next[k] # Absent /\ x = [id |-> k, timestamp |-> next[k]]
        BY DEF Indexed, Stored
    <2>2. CASE k = j
        BY <1>1, <2>1, <2>2
    <2>3. CASE k # j
        <3>1. x = Stored(index, k) /\ x.id = k
            BY <1>1, <2>1, <2>3 DEF Stored
        <3>2. x # Stored(index, j)
            BY <2>3, <3>1 DEF Stored
        <3>3. index[k] # Absent
            BY <1>1, <2>1, <2>3
        <3> QED BY <3>1, <3>2, <3>3 DEF Indexed
    <2> QED BY <2>2, <2>3
<1>3. ASSUME NEW x \in Indexed(index), x # Stored(index, j) PROVE x \in Indexed(next)
    <2>1. PICK k \in JobIds : index[k] # Absent /\ x = Stored(index, k)
        BY DEF Indexed
    <2>2. k # j
        BY <1>3, <2>1
    <2>3. next[k] = index[k] /\ Stored(next, k) = Stored(index, k)
        BY <1>1, <2>2 DEF Stored
    <2> QED BY <2>1, <2>3 DEF Indexed
<1>4. e \in Indexed(next)
    <2>1. e = Stored(next, j) /\ next[j] # Absent
        BY <1>0, <1>1 DEF Stored
    <2> QED BY <2>1 DEF Indexed
<1> HIDE DEF e
<1>5. Indexed(next) = (Indexed(index) \ {Stored(index, j)}) \cup {e}
    BY <1>2, <1>3, <1>4
<1> QED BY <1>5 DEF next, e

LEMMA IndexedDelete ==
    ASSUME NEW index \in [JobIds -> TimeStamp \cup {Absent}], NEW j \in JobIds
    PROVE  Indexed([index EXCEPT ![j] = Absent]) = Indexed(index) \ {Stored(index, j)}
<1> DEFINE next == [index EXCEPT ![j] = Absent]
<1>1. next[j] = Absent /\ \A k \in JobIds : k # j => next[k] = index[k]
    OBVIOUS
<1> HIDE DEF next
<1>2. ASSUME NEW x \in Indexed(next) PROVE x \in Indexed(index) \ {Stored(index, j)}
    <2>1. PICK k \in JobIds : next[k] # Absent /\ x = [id |-> k, timestamp |-> next[k]]
        BY DEF Indexed, Stored
    <2>2. k # j /\ index[k] # Absent
        BY <1>1, <2>1
    <2>3. x = Stored(index, k) /\ x.id = k
        BY <1>1, <2>1, <2>2 DEF Stored
    <2>4. x # Stored(index, j)
        BY <2>2, <2>3 DEF Stored
    <2> QED BY <2>2, <2>3, <2>4 DEF Indexed
<1>3. ASSUME NEW x \in Indexed(index), x # Stored(index, j) PROVE x \in Indexed(next)
    <2>1. PICK k \in JobIds : index[k] # Absent /\ x = Stored(index, k)
        BY DEF Indexed
    <2>2. k # j
        BY <1>3, <2>1
    <2>3. next[k] = index[k] /\ Stored(next, k) = Stored(index, k)
        BY <1>1, <2>2 DEF Stored
    <2> QED BY <2>1, <2>3 DEF Indexed
<1>4. Indexed(next) = Indexed(index) \ {Stored(index, j)}
    BY <1>2, <1>3
<1> QED BY <1>4 DEF next

\* An entry of the list is found by its id.
LEMMA EntryOfJob ==
    ASSUME IInv, NEW j \in JobIds, Known(j)
    PROVE  /\ jobsIndex[j] \in TimeStamp
           /\ JobIndex(jobs, jobsIndex[j], j) \in 1 .. Len(jobs)
           /\ jobs[JobIndex(jobs, jobsIndex[j], j)] = Stored(jobsIndex, j)
<1>1. jobsIndex[j] \in TimeStamp
    BY DEF IInv, Known
<1>2. Stored(jobsIndex, j) \in ToSet(jobs)
    BY DEF IInv, Indexed, Known
<1>3. PICK n \in 1 .. Len(jobs) : jobs[n] = Stored(jobsIndex, j)
    BY <1>2 DEF IInv, ToSet
<1>4. jobs[n].timestamp = jobsIndex[j] /\ jobs[n].id = j
    BY <1>3 DEF Stored
<1>5. JobIndex(jobs, jobs[n].timestamp, jobs[n].id) = n
    BY JobIndexFinds DEF IInv
<1>6. JobIndex(jobs, jobsIndex[j], j) = n
    BY <1>4, <1>5
<1> QED BY <1>1, <1>3, <1>6

LEMMA IdsOfEntries ==
    ASSUME NEW index, NEW x \in Indexed(index)
    PROVE  x.id \in JobIds /\ index[x.id] # Absent /\ x = Stored(index, x.id)
<1>1. PICK k \in JobIds : index[k] # Absent /\ x = Stored(index, k)
    BY DEF Indexed
<1>2. x.id = k
    BY <1>1 DEF Stored
<1> QED BY <1>1, <1>2

LEMMA InitInvariant == Init => IInv
<1> SUFFICES ASSUME Init PROVE IInv
    OBVIOUS
<1>1. jobs = <<>> /\ jobsIndex = [j \in JobIds |-> Absent]
    BY DEF Init
<1>2. jobs \in Seq(Entry) /\ Sorted(jobs) /\ ToSet(jobs) = {}
    BY <1>1 DEF Sorted, ToSet
<1>3. Indexed(jobsIndex) = {}
    BY <1>1 DEF Indexed
<1> QED BY <1>1, <1>2, <1>3 DEF IInv

LEMMA AddInvariant ==
    ASSUME IInv, NEW j \in JobIds, NEW t \in TimeStamp, AddJob(j, t)
    PROVE  IInv'
<1>1. CASE Known(j)
    BY <1>1 DEF AddJob, Raise, IInv
<1>2. CASE ~Known(j)
    <2> DEFINE e == [id |-> j, timestamp |-> t]
               p == JobIndex(jobs, t, j)
    <2>1. jobs' = InsertAt(jobs, p, e) /\ jobsIndex' = [jobsIndex EXCEPT ![j] = t]
        BY <1>2 DEF AddJob
    <2>2. Divides(jobs, p, e)
        BY JobIndexDivides DEF IInv
    <2>3. e \in Entry /\ e.id = j
        BY DEF Entry
    <2> HIDE DEF e, p
    <2>4. \A x \in ToSet(jobs) : x.id # j
        BY <1>2, IdsOfEntries DEF IInv, Known
    <2>5. e \notin ToSet(jobs) /\ Stored(jobsIndex, j) \notin ToSet(jobs)
        BY <2>3, <2>4 DEF Stored
    <2>6. jobs' \in Seq(Entry) /\ Sorted(jobs') /\ ToSet(jobs') = ToSet(jobs) \cup {e}
        BY <2>1, <2>2, <2>3, <2>5, InsertSorted DEF IInv
    <2>7. Indexed(jobsIndex') = (Indexed(jobsIndex) \ {Stored(jobsIndex, j)}) \cup {e}
        BY <2>1, IndexedPut DEF IInv, e
    <2>8. ToSet(jobs') = Indexed(jobsIndex')
        BY <2>5, <2>6, <2>7 DEF IInv
    <2>9. jobsIndex' \in [JobIds -> TimeStamp \cup {Absent}]
        BY <2>1 DEF IInv
    <2> QED BY <2>6, <2>8, <2>9 DEF IInv
<1> QED BY <1>1, <1>2

\* The list without the job j.
LEMMA WithoutJob ==
    ASSUME IInv, NEW j \in JobIds, Known(j),
           NEW rest, rest = RemoveAt(jobs, JobIndex(jobs, jobsIndex[j], j))
    PROVE  /\ rest \in Seq(Entry) /\ Sorted(rest)
           /\ ToSet(rest) = Indexed(jobsIndex) \ {Stored(jobsIndex, j)}
           /\ \A x \in ToSet(rest) : x.id # j
<1> DEFINE p == JobIndex(jobs, jobsIndex[j], j)
<1>1. p \in 1 .. Len(jobs) /\ jobs[p] = Stored(jobsIndex, j)
    BY EntryOfJob
<1> HIDE DEF p
<1>2. rest = RemoveAt(jobs, p)
    BY DEF p
<1>3. /\ rest \in Seq(Entry) /\ Sorted(rest)
      /\ ToSet(rest) = Indexed(jobsIndex) \ {Stored(jobsIndex, j)}
    BY <1>1, <1>2, RemoveSorted DEF IInv
<1>4. \A x \in ToSet(rest) : x.id # j
    BY <1>3, IdsOfEntries
<1> QED BY <1>3, <1>4

LEMMA UpdateInvariant ==
    ASSUME IInv, NEW j \in JobIds, NEW t \in TimeStamp, UpdateJob(j, t)
    PROVE  IInv'
<1> DEFINE e == [id |-> j, timestamp |-> t]
           old == JobIndex(jobs, jobsIndex[j], j)
           rest == RemoveAt(jobs, old)
           p == JobIndex(rest, t, j)
<1>0. Known(j) => /\ jobs' = IF jobsIndex[j] = t THEN ReplaceAt(jobs, old, e)
                              ELSE InsertAt(rest, p, e)
                  /\ jobsIndex' = [jobsIndex EXCEPT ![j] = t]
    BY DEF UpdateJob, OldIndex
<1>a. e \in Entry /\ e.id = j
    BY DEF Entry
<1>1. CASE ~Known(j)
    BY <1>1 DEF UpdateJob, Raise, IInv
<1>2. CASE Known(j) /\ jobsIndex[j] = t
    <2>1. old \in 1 .. Len(jobs) /\ jobs[old] = e
        BY <1>2, EntryOfJob DEF Stored
    <2>2. jobs' = [jobs EXCEPT ![old] = e]
        BY <1>0, <1>2 DEF ReplaceAt
    <2> HIDE DEF old, e
    <2>3. jobs' = jobs
        BY <2>1, <2>2 DEF IInv
    <2>4. jobsIndex' = jobsIndex
        BY <1>0, <1>2 DEF IInv
    <2> QED BY <2>3, <2>4 DEF IInv
<1>3. CASE Known(j) /\ jobsIndex[j] # t
    <2>1. /\ rest \in Seq(Entry) /\ Sorted(rest)
          /\ ToSet(rest) = Indexed(jobsIndex) \ {Stored(jobsIndex, j)}
          /\ \A x \in ToSet(rest) : x.id # j
        BY <1>3, WithoutJob
    <2> HIDE DEF rest
    <2>2. Divides(rest, p, e)
        BY <2>1, JobIndexDivides
    <2>3. jobs' = InsertAt(rest, p, e) /\ jobsIndex' = [jobsIndex EXCEPT ![j] = t]
        BY <1>0, <1>3
    <2>4. Indexed(jobsIndex') = (Indexed(jobsIndex) \ {Stored(jobsIndex, j)}) \cup {e}
        BY <2>3, IndexedPut DEF IInv
    <2> HIDE DEF p, e
    <2>5. e \notin ToSet(rest)
        BY <1>a, <2>1
    <2>6. jobs' \in Seq(Entry) /\ Sorted(jobs') /\ ToSet(jobs') = ToSet(rest) \cup {e}
        BY <1>a, <2>1, <2>2, <2>3, <2>5, InsertSorted
    <2>7. jobsIndex' \in [JobIds -> TimeStamp \cup {Absent}]
        BY <2>3 DEF IInv
    <2> QED BY <2>1, <2>4, <2>6, <2>7 DEF IInv
<1> QED BY <1>1, <1>2, <1>3

LEMMA RemoveInvariant ==
    ASSUME IInv, NEW j \in JobIds, RemoveJob(j)
    PROVE  IInv'
<1>1. CASE ~Known(j)
    BY <1>1 DEF RemoveJob, Raise, IInv
<1>2. CASE Known(j)
    <2>1. /\ jobs' = RemoveAt(jobs, JobIndex(jobs, jobsIndex[j], j))
          /\ jobsIndex' = [jobsIndex EXCEPT ![j] = Absent]
        BY <1>2 DEF RemoveJob
    <2>2. /\ jobs' \in Seq(Entry) /\ Sorted(jobs')
          /\ ToSet(jobs') = Indexed(jobsIndex) \ {Stored(jobsIndex, j)}
        BY <1>2, <2>1, WithoutJob
    <2>3. Indexed(jobsIndex') = Indexed(jobsIndex) \ {Stored(jobsIndex, j)}
        BY <2>1, IndexedDelete DEF IInv
    <2>4. jobsIndex' \in [JobIds -> TimeStamp \cup {Absent}]
        BY <2>1 DEF IInv
    <2> QED BY <2>2, <2>3, <2>4 DEF IInv
<1> QED BY <1>1, <1>2

LEMMA NextInvariant == IInv /\ [Next]_vars => IInv'
<1> SUFFICES ASSUME IInv, [Next]_vars PROVE IInv'
    OBVIOUS
<1>1. ASSUME NEW j \in JobIds, NEW t \in TimeStamp, AddJob(j, t) \/ UpdateJob(j, t)
      PROVE  IInv'
    BY <1>1, AddInvariant, UpdateInvariant
<1>2. ASSUME NEW j \in JobIds, RemoveJob(j)
      PROVE  IInv'
    BY <1>2, RemoveInvariant
<1>3. CASE RemoveAllJobs
    <2>1. jobs' = <<>> /\ jobsIndex' = [j \in JobIds |-> Absent]
        BY <1>3 DEF RemoveAllJobs
    <2>2. jobs' \in Seq(Entry) /\ Sorted(jobs') /\ ToSet(jobs') = {}
        BY <2>1 DEF Sorted, ToSet
    <2>3. Indexed(jobsIndex') = {}
        BY <2>1 DEF Indexed
    <2> QED BY <2>1, <2>2, <2>3 DEF IInv
<1>4. ASSUME UNCHANGED <<jobs, jobsIndex>>
      PROVE  IInv'
    BY <1>4 DEF IInv
<1>5. ASSUME \/ \E j \in JobIds : LookupJob(j)
             \/ \E now \in Times : GetDueJobs(now)
             \/ GetNextRunTime \/ GetAllJobs \/ UNCHANGED vars
      PROVE  UNCHANGED <<jobs, jobsIndex>>
    BY <1>5 DEF LookupJob, GetDueJobs, GetNextRunTime, GetAllJobs, Return, vars
<1> QED BY <1>1, <1>2, <1>3, <1>4, <1>5 DEF Next

THEOREM Invariant == Spec => []IInv
BY InitInvariant, NextInvariant, PTL DEF Spec

LEMMA InvariantSuffices == IInv => ListMatchesIndex
<1> SUFFICES ASSUME IInv PROVE ListMatchesIndex
    OBVIOUS
<1>1. ASSUME NEW n \in 1 .. Len(jobs) - 1
      PROVE  Before(jobs[n].timestamp, jobs[n].id, jobs[n + 1].timestamp, jobs[n + 1].id)
    <2>1. n \in 1 .. Len(jobs) /\ n + 1 \in 1 .. Len(jobs) /\ n < n + 1
        BY DEF IInv
    <2> QED BY <2>1 DEF IInv, Sorted, Precedes
<1>2. ToSet(jobs) = {[id |-> j, timestamp |-> jobsIndex[j]] : j \in {k \in JobIds : Known(k)}}
    BY DEF IInv, Indexed, Stored, Known
<1> QED BY <1>1, <1>2 DEF IInv, ListMatchesIndex

\* The memory store's list is strictly sorted and holds exactly the jobs and
\* run times of its index, whatever jobs are added, moved and removed: the
\* binary search of _get_job_index always finds the place.
THEOREM ListMatchesIndexHolds == Spec => []ListMatchesIndex
BY Invariant, InvariantSuffices, PTL

-----------------------------------------------------------------------------
(* Every operation is one of JobStore's                                      *)

Unpaused == {j \in JobIds : jobsIndex[j] # Absent /\ jobsIndex[j] # None}

LEMMA JobOfEntry ==
    ASSUME IInv, NEW n \in 1 .. Len(jobs)
    PROVE  /\ jobs[n].id \in JobIds /\ jobsIndex[jobs[n].id] # Absent
           /\ jobs[n].timestamp = jobsIndex[jobs[n].id]
           /\ jobs[n].timestamp \in TimeStamp
<1>1. jobs[n] \in Indexed(jobsIndex)
    BY DEF IInv, ToSet
<1>2. /\ jobs[n].id \in JobIds /\ jobsIndex[jobs[n].id] # Absent
      /\ jobs[n] = Stored(jobsIndex, jobs[n].id)
    BY <1>1, IdsOfEntries
<1>3. jobs[n].timestamp = jobsIndex[jobs[n].id]
    BY <1>2 DEF Stored
<1>4. jobs[n] \in Entry
    BY DEF IInv
<1>5. jobs[n].timestamp \in TimeStamp
    BY <1>4 DEF Entry
<1> QED BY <1>2, <1>3, <1>5

LEMMA EntryPlace ==
    ASSUME IInv, NEW j \in JobIds, jobsIndex[j] # Absent
    PROVE  \E n \in 1 .. Len(jobs) : jobs[n].id = j /\ jobs[n].timestamp = jobsIndex[j]
<1>1. Stored(jobsIndex, j) \in ToSet(jobs)
    BY DEF IInv, Indexed
<1>2. PICK n \in 1 .. Len(jobs) : jobs[n] = Stored(jobsIndex, j)
    BY <1>1 DEF IInv, ToSet
<1> QED BY <1>2 DEF Stored

LEMMA BeforeTimes ==
    ASSUME NEW t \in TimeStamp, NEW u \in TimeStamp, NEW j \in JobIds, NEW k \in JobIds,
           Before(t, j, u, k)
    PROVE  /\ t = u => j # k
           /\ u = None \/ (t # None /\ t <= u)
BY MemoryAssumption DEF Before, Earlier, TimeStamp

\* No two entries of the list are of one job, and none is earlier than one
\* before it.
LEMMA EntriesOrdered ==
    ASSUME IInv, NEW m \in 1 .. Len(jobs), NEW n \in 1 .. Len(jobs), m < n
    PROVE  /\ jobs[m].id # jobs[n].id
           /\ jobs[n].timestamp = None
              \/ (jobs[m].timestamp # None /\ jobs[m].timestamp <= jobs[n].timestamp)
<1>1. Precedes(jobs[m], jobs[n])
    BY DEF IInv, Sorted
<1>2. /\ jobs[m].timestamp \in TimeStamp /\ jobs[n].timestamp \in TimeStamp
      /\ jobs[m].id \in JobIds /\ jobs[n].id \in JobIds
      /\ jobs[m].timestamp = jobsIndex[jobs[m].id] /\ jobs[n].timestamp = jobsIndex[jobs[n].id]
    BY JobOfEntry
<1>3. /\ jobs[m].timestamp = jobs[n].timestamp => jobs[m].id # jobs[n].id
      /\ jobs[n].timestamp = None
         \/ (jobs[m].timestamp # None /\ jobs[m].timestamp <= jobs[n].timestamp)
    BY <1>1, <1>2, BeforeTimes DEF Precedes
<1>4. jobs[m].id # jobs[n].id
    BY <1>2, <1>3
<1> QED BY <1>3, <1>4

\* The head of the list lists its jobs, as JobStore asks.
LEMMA HeadLists ==
    ASSUME IInv, NEW head \in 0 .. Len(jobs),
           NEW S, S = {jobs[m].id : m \in 1 .. head}
    PROVE  Abstract!Lists(Ids(SubSeq(jobs, 1, head)), S)
<1> DEFINE h == SubSeq(jobs, 1, head)
           seq == Ids(h)
<1>0. Len(jobs) \in Nat /\ jobs \in Seq(Entry) /\ \A m \in 1 .. head : m \in 1 .. Len(jobs)
    BY DEF IInv
<1>1. /\ h \in Seq(Entry) /\ Len(h) = head
      /\ \A m \in 1 .. head : h[m] = jobs[m]
    BY <1>0, SubSeqProperties
<1> HIDE DEF h
<1>2. DOMAIN h = 1 .. head
    BY <1>1
<1>3. seq = [m \in 1 .. head |-> jobs[m].id]
    BY <1>1, <1>2 DEF Ids
<1> HIDE DEF seq
<1>4. DOMAIN seq = 1 .. head /\ \A m \in 1 .. head : seq[m] = jobs[m].id
    BY <1>3
<1>5. seq \in Seq(S)
    BY <1>0, <1>3
<1>6. S \subseteq Abstract!ToSet(seq)
    BY <1>4 DEF Abstract!ToSet
<1>7. ASSUME NEW m \in DOMAIN seq, NEW n \in DOMAIN seq, m < n
      PROVE  seq[m] # seq[n] /\ Abstract!NoLaterThan(jobsIndex[seq[m]], jobsIndex[seq[n]])
    <2>1. m \in 1 .. Len(jobs) /\ n \in 1 .. Len(jobs)
        BY <1>0, <1>4
    <2>2. seq[m] = jobs[m].id /\ seq[n] = jobs[n].id
        BY <1>4
    <2>3. jobs[m].timestamp = jobsIndex[seq[m]] /\ jobs[n].timestamp = jobsIndex[seq[n]]
        BY <2>1, <2>2, JobOfEntry
    <2> QED BY <1>7, <2>1, <2>2, <2>3, EntriesOrdered DEF Abstract!NoLaterThan
<1>8. \A m, n \in DOMAIN seq :
          m < n => seq[m] # seq[n] /\ Abstract!NoLaterThan(jobsIndex[seq[m]], jobsIndex[seq[n]])
    BY <1>7, Zenon
<1>9. Abstract!Lists(seq, S)
    BY <1>5, <1>6, <1>8, Zenon DEF Abstract!Lists
<1> QED BY <1>9 DEF seq, h

LEMMA KeepsJobs ==
    ASSUME IInv, UNCHANGED jobsIndex
    PROVE  \E gone \in SUBSET {} : Abstract!Delete(gone)
<1>1. Abstract!Delete({})
    BY DEF Abstract!Delete, IInv
<1> QED BY <1>1

LEMMA AddRefines ==
    ASSUME NEW j \in JobIds, NEW t \in TimeStamp, AddJob(j, t)
    PROVE  Abstract!Next
<1>1. Abstract!AddJob(j, t)
    BY DEF AddJob, Raise, Done, Known, Abstract!AddJob, Abstract!Raises, Abstract!Answer,
           Abstract!Stored, Abstract!Nothing, Abstract!Error
<1> QED BY <1>1 DEF Abstract!Next, TimeStamp

LEMMA UpdateRefines ==
    ASSUME NEW j \in JobIds, NEW t \in TimeStamp, UpdateJob(j, t)
    PROVE  Abstract!Next
<1>1. Abstract!UpdateJob(j, t)
    BY DEF UpdateJob, Raise, Done, Known, Abstract!UpdateJob, Abstract!Raises, Abstract!Answer,
           Abstract!Stored, Abstract!Nothing, Abstract!Error
<1> QED BY <1>1 DEF Abstract!Next, TimeStamp

LEMMA RemoveRefines ==
    ASSUME IInv, NEW j \in JobIds, RemoveJob(j)
    PROVE  Abstract!Next
<1>1. CASE ~Known(j)
    <2>1. Abstract!RemoveJob(j)
        BY <1>1 DEF RemoveJob, Raise, Known, Abstract!RemoveJob, Abstract!Raises,
               Abstract!Stored, Abstract!Error
    <2> QED BY <2>1 DEF Abstract!Next
<1>2. CASE Known(j)
    <2>1. jobsIndex' = [jobsIndex EXCEPT ![j] = Absent] /\ reply' = <<"none">>
        BY <1>2 DEF RemoveJob, Done
    <2>2. jobsIndex' = [k \in JobIds |-> IF k \in {j} THEN Absent ELSE jobsIndex[k]]
        BY <2>1 DEF IInv
    <2>3. Abstract!RemoveJob(j)
        BY <1>2, <2>1, <2>2 DEF Known, Abstract!RemoveJob, Abstract!Answer, Abstract!Delete,
               Abstract!Stored, Abstract!Nothing
    <2> QED BY <2>3 DEF Abstract!Next
<1> QED BY <1>1, <1>2

LEMMA RemoveAllRefines ==
    ASSUME RemoveAllJobs
    PROVE  Abstract!Next
<1>1. Abstract!RemoveAllJobs
    BY DEF RemoveAllJobs, Done, Abstract!RemoveAllJobs, Abstract!Delete, Abstract!Nothing
<1> QED BY <1>1 DEF Abstract!Next

\* get_due_jobs stops at the first job that is not due, and misses none.
LEMMA DueRefines ==
    ASSUME IInv, NEW now \in Times, GetDueJobs(now)
    PROVE  Abstract!Next
<1>1. PICK head \in 0 .. Len(jobs) :
          /\ \A m \in 1 .. head : jobs[m].timestamp # None /\ jobs[m].timestamp <= now
          /\ head < Len(jobs) => jobs[head + 1].timestamp = None \/ jobs[head + 1].timestamp > now
          /\ reply' = <<"jobs", Ids(SubSeq(jobs, 1, head))>> /\ UNCHANGED jobsIndex
    BY DEF GetDueJobs, Return
<1> DEFINE due == {j \in Unpaused : jobsIndex[j] <= now}
           seq == Ids(SubSeq(jobs, 1, head))
<1>0. Len(jobs) \in Nat /\ now \in Nat /\ None \notin Nat /\ Times \subseteq Nat
    BY MemoryAssumption DEF IInv
<1>2. ASSUME NEW m \in 1 .. head PROVE jobs[m].id \in due
    <2>1. m \in 1 .. Len(jobs)
        BY <1>0
    <2> QED BY <1>1, <2>1, JobOfEntry DEF Unpaused
<1>3. ASSUME NEW j \in due PROVE \E m \in 1 .. head : j = jobs[m].id
    <2>1. PICK n \in 1 .. Len(jobs) : jobs[n].id = j /\ jobs[n].timestamp = jobsIndex[j]
        BY EntryPlace DEF Unpaused
    <2>2. CASE n <= head
        BY <1>0, <2>1, <2>2
    <2>3. CASE n > head
        <3>1. head + 1 \in 1 .. Len(jobs) /\ head < Len(jobs)
            BY <1>0, <2>3
        <3>2. jobs[head + 1].timestamp = None \/ jobs[head + 1].timestamp > now
            BY <1>1, <3>1
        <3>3. jobs[head + 1].timestamp \in TimeStamp /\ jobs[n].timestamp \in TimeStamp
            BY <3>1, JobOfEntry
        <3>4. jobs[n].timestamp # None /\ jobs[n].timestamp <= now
            BY <2>1 DEF Unpaused
        <3>5. PICK t \in TimeStamp, u \in TimeStamp :
                  t = jobs[n].timestamp /\ u = jobs[head + 1].timestamp
            BY <3>3
        <3>6. t \in Nat /\ t <= now /\ (u = None \/ (u \in Nat /\ now < u))
            BY <1>0, <3>2, <3>4, <3>5 DEF TimeStamp
        <3>7. n # head + 1
            BY <1>0, <3>5, <3>6
        <3>8. head + 1 < n
            BY <1>0, <2>3, <3>7
        <3>9. u # None /\ u <= t
            BY <1>0, <3>1, <3>5, <3>6, <3>8, EntriesOrdered
        <3> QED BY <1>0, <3>6, <3>9
    <2> QED BY <1>0, <2>2, <2>3
<1>4. due = {jobs[m].id : m \in 1 .. head}
    BY <1>2, <1>3
<1> HIDE DEF due
<1>5. Abstract!Lists(seq, due)
    BY <1>4, HeadLists
<1> HIDE DEF seq
<1> DEFINE S == {j \in Abstract!Active : jobsIndex[j] <= now}
<1>6. S \ {} = due
    BY DEF Abstract!Active, Abstract!Stored, Unpaused, due
<1>7. reply' = <<"jobs", seq>>
    BY <1>1 DEF seq
<1> HIDE DEF S
<1>8. Abstract!Return("get_due_jobs", S)
    <2>1. \E gone \in SUBSET {} : Abstract!Delete(gone)
        BY <1>1, KeepsJobs
    <2>2. Abstract!Lists(seq, S \ {})
        BY <1>5, <1>6
    <2> QED BY <1>7, <2>1, <2>2 DEF Abstract!Return, Abstract!Jobs
<1>9. Abstract!GetDueJobs(now)
    BY <1>8 DEF Abstract!GetDueJobs, S
<1> QED BY <1>9 DEF Abstract!Next

LEMMA AllRefines ==
    ASSUME IInv, GetAllJobs
    PROVE  Abstract!Next
<1> DEFINE head == Len(jobs)
           seq == Ids(SubSeq(jobs, 1, head))
<1>0. head \in Nat /\ head \in 0 .. Len(jobs) /\ jobs \in Seq(Entry)
    BY DEF IInv
<1>1. SubSeq(jobs, 1, head) = jobs
    BY <1>0
<1>2. reply' = <<"jobs", seq>> /\ UNCHANGED jobsIndex
    BY <1>1 DEF GetAllJobs, Return
<1> HIDE DEF head
<1>3. Abstract!Stored = {jobs[m].id : m \in 1 .. head}
    BY JobOfEntry, EntryPlace DEF Abstract!Stored, head
<1>4. Abstract!Lists(seq, Abstract!Stored \ {})
    <2>1. Abstract!Stored \ {} = Abstract!Stored
        OBVIOUS
    <2> QED BY <1>0, <1>3, <2>1, HeadLists
<1> HIDE DEF seq
<1>5. Abstract!GetAllJobs
    BY <1>2, <1>4, KeepsJobs DEF Abstract!GetAllJobs, Abstract!Return, Abstract!Jobs
<1> QED BY <1>5 DEF Abstract!Next

\* The first job of the list has the smallest run time, and is paused only if
\* every job is.
LEMMA NextRunTimeRefines ==
    ASSUME IInv, GetNextRunTime
    PROVE  Abstract!Next
<1> DEFINE times == {jobsIndex[j] : j \in Unpaused}
           time == IF jobs = <<>> THEN None ELSE jobs[1].timestamp
<1>0. /\ Len(jobs) \in Nat /\ jobs \in Seq(Entry) /\ None \notin Nat /\ Times \subseteq Nat
      /\ times \subseteq Times
    <2>1. \A j \in Unpaused : jobsIndex[j] \in Times
        BY DEF IInv, Unpaused, TimeStamp
    <2> QED BY <2>1, MemoryAssumption DEF IInv
<1>1. reply' = <<"time", time>> /\ UNCHANGED jobsIndex
    BY DEF GetNextRunTime, Return
<1>2. time = IF times = {} THEN None ELSE Abstract!Min(times)
    <2>1. CASE jobs = <<>>
        <3>1. Unpaused = {}
            BY <2>1, EntryPlace DEF Unpaused
        <3> QED BY <2>1, <3>1
    <2>2. CASE jobs # <<>>
        <3>1. 1 \in 1 .. Len(jobs) /\ time = jobs[1].timestamp /\ time \in TimeStamp
            BY <1>0, <2>2, JobOfEntry
        <3> HIDE DEF time
        <3>2. ASSUME NEW j \in Unpaused PROVE time # None /\ time <= jobsIndex[j]
            <4>1. PICK n \in 1 .. Len(jobs) : jobs[n].timestamp = jobsIndex[j]
                BY EntryPlace DEF Unpaused
            <4>2. jobsIndex[j] \in Times /\ jobsIndex[j] # None
                BY <1>0 DEF Unpaused
            <4>3. CASE n = 1
                <5>1. time = jobsIndex[j]
                    BY <3>1, <4>1, <4>3
                <5>2. jobsIndex[j] \in Nat
                    BY <1>0, <4>2
                <5> QED BY <4>2, <5>1, <5>2
            <4>4. CASE 1 < n
                BY <3>1, <4>1, <4>2, <4>4, EntriesOrdered
            <4> QED BY <4>3, <4>4
        <3>3. CASE time = None
            BY <3>2, <3>3
        <3>4. CASE time # None
            <4>1. time \in times
                BY <3>1, <3>4, JobOfEntry DEF Unpaused
            <4>2. \A x \in times : time <= x
                BY <3>2
            <4> HIDE DEF times
            <4>3. \A x \in times : (\A y \in times : x <= y) => x = time
                BY <1>0, <4>1, <4>2
            <4>4. Abstract!Min(times) = time
                BY <4>1, <4>2, <4>3 DEF Abstract!Min
            <4> QED BY <4>1, <4>4
        <3> QED BY <3>3, <3>4
    <2> QED BY <2>1, <2>2
<1>3. times = {jobsIndex[j] : j \in Abstract!Active \ {}}
    BY DEF Abstract!Active, Abstract!Stored, Unpaused
<1> HIDE DEF time, times
<1>4. Abstract!GetNextRunTime
    <2>1. Abstract!Delete({})
        BY <1>1 DEF Abstract!Delete, IInv
    <2>2. Abstract!Answer("get_next_run_time",
                          Abstract!RunTime(IF times = {} THEN None ELSE Abstract!Min(times)))
        BY <1>1, <1>2 DEF Abstract!Answer, Abstract!RunTime
    <2> QED BY <1>3, <2>1, <2>2 DEF Abstract!GetNextRunTime
<1> QED BY <1>4 DEF Abstract!Next

LEMMA LookupRefines ==
    ASSUME NEW j \in JobIds, LookupJob(j)
    PROVE  Abstract!Next
<1>1. Abstract!LookupJob(j)
    BY DEF LookupJob, Return, Abstract!LookupJob, Abstract!RunTime
<1> QED BY <1>1 DEF Abstract!Next

LEMMA NextRefines == IInv /\ [Next]_vars => [Abstract!Next]_<<jobsIndex, reply>>
<1> SUFFICES ASSUME IInv, [Next]_vars PROVE [Abstract!Next]_<<jobsIndex, reply>>
    OBVIOUS
<1>1. CASE Next
    BY <1>1, AddRefines, UpdateRefines, RemoveRefines, LookupRefines, DueRefines,
       RemoveAllRefines, NextRunTimeRefines, AllRefines DEF Next
<1>2. CASE UNCHANGED vars
    BY <1>2 DEF vars
<1> QED BY <1>1, <1>2

\* MemoryJobStore is a job store: every operation is one that JobStore allows,
\* and the lists and the next run time read off the head of its own list are
\* those of the jobs it holds.
THEOREM Implements == Spec => ListImplementsJobStore
<1>1. Init => Abstract!Init
    BY DEF Init, Abstract!Init, Abstract!Nothing
<1> QED BY <1>1, Invariant, NextRefines, PTL DEF Spec, ListImplementsJobStore, Abstract!Spec

=============================================================================
