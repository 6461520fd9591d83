---------------------- MODULE SegmentCoordinatorProofs ----------------------
(***************************************************************************)
(* Proofs about SegmentCoordinator, for any file size, number of workers,  *)
(* thresholds, faults and sessions.                                        *)
(***************************************************************************)
EXTENDS SegmentCoordinator, FiniteSetTheorems, FunctionTheorems,
        SequenceTheorems, WellFoundedInduction, TLAPS

-----------------------------------------------------------------------------
(* Numbers *)

(* A non-empty set of naturals has a least element; one with a bound has a  *)
(* greatest.                                                                *)
LEMMA LeastNat ==
  ASSUME NEW S \in SUBSET Nat, S # {}
  PROVE  \E m \in S : \A x \in S : m <= x
<1> DEFINE R == {p \in Nat \X Nat : p[1] < p[2]}
<1>1. IsWellFoundedOn(R, Nat)
  BY NatLessThanWellFounded DEF OpToRel
<1>2. \A x, y \in Nat : x < y => <<x, y>> \in R
  OBVIOUS
<1> HIDE DEF R
<1>3. PICK m \in S : \A x \in S : <<x, m>> \notin R
  BY <1>1, WFMin
<1>4. ASSUME NEW x \in S PROVE m <= x
  <2>1. x \in Nat /\ m \in Nat /\ <<x, m>> \notin R
    BY <1>3
  <2>2. ~(x < m)
    BY <1>2, <2>1
  <2> QED BY <2>1, <2>2
<1> QED BY <1>4

(* Min and Max of such sets. *)
LEMMA MinFact ==
  ASSUME NEW S \in SUBSET Nat, S # {}
  PROVE  Min(S) \in S /\ \A x \in S : Min(S) <= x
BY LeastNat DEF Min

LEMMA MaxFact ==
  ASSUME NEW n \in Nat, NEW S \in SUBSET (0 .. n), S # {}
  PROVE  Max(S) \in S /\ \A x \in S : x <= Max(S)
<1> DEFINE T == {m \in Nat : \A x \in S : x <= m}
<1>1. n \in T /\ T \in SUBSET Nat
  OBVIOUS
<1>2. PICK m \in T : \A x \in T : m <= x
  <2> HIDE DEF T
  <2> QED BY <1>1, LeastNat
<1>3. m \in S
  <2> SUFFICES ASSUME m \notin S PROVE FALSE
    OBVIOUS
  <2>1. \A x \in S : x <= m - 1
    OBVIOUS
  <2>2. PICK x \in S : TRUE
    OBVIOUS
  <2>3. m - 1 \in T
    BY <2>1, <2>2
  <2> QED BY <2>3, <1>2
<1> QED BY <1>2, <1>3 DEF Max

-----------------------------------------------------------------------------
(* Plans *)

Ranges(S) == \A i \in DOMAIN S : S[i].start \in Int /\ S[i].end \in Int
SameRange(a, b) == a.start = b.start /\ a.end = b.end
Same(R, S) == DOMAIN R = DOMAIN S /\ \A i \in DOMAIN R : SameRange(R[i], S[i])

(* Coverage speaks of the ranges only. *)
LEMMA CoverSame ==
  ASSUME NEW R, NEW S, Same(R, S), NEW t \in Int, validate_coverage(S, t)
  PROVE  validate_coverage(R, t)
BY DEF Same, SameRange, validate_coverage, Bytes

(* A segment is cut in two, and two neighbours are one again. *)
Halved(S, T, p, c, cut) ==
    /\ p \in DOMAIN S /\ c \notin DOMAIN S /\ DOMAIN T = DOMAIN S \cup {c}
    /\ S[p].start < cut /\ cut <= S[p].end
    /\ T[p].start = S[p].start /\ T[p].end = cut - 1
    /\ T[c].start = cut /\ T[c].end = S[p].end
    /\ \A i \in DOMAIN S \ {p} : SameRange(T[i], S[i])

(* A plan covers the file exactly if it does with one segment cut in two. *)
LEMMA CoverHalved ==
  ASSUME NEW S, NEW T, NEW p, NEW c, NEW cut \in Int, NEW t \in Int, Ranges(S), Halved(S, T, p, c, cut)
  PROVE  validate_coverage(S, t) <=> validate_coverage(T, t)
<1>1. ASSUME validate_coverage(S, t) PROVE validate_coverage(T, t)
  <2>1. \A i \in DOMAIN T : 0 <= T[i].start /\ T[i].start <= T[i].end /\ T[i].end < t
    BY <1>1 DEF Halved, SameRange, validate_coverage, Ranges
  <2>2. ASSUME NEW b \in 0 .. t - 1 PROVE \E i \in DOMAIN T : b \in Bytes(T[i])
    <3>1. PICK i \in DOMAIN S : b \in Bytes(S[i])
      BY <1>1 DEF validate_coverage
    <3>2. CASE i # p
      BY <3>1, <3>2 DEF Halved, SameRange, Bytes
    <3>3. CASE i = p
      BY <3>1, <3>3 DEF Halved, Bytes, Ranges
    <3> QED BY <3>2, <3>3
  <2>3. ASSUME NEW i \in DOMAIN T, NEW j \in DOMAIN T, i # j
        PROVE  T[i].end < T[j].start \/ T[j].end < T[i].start
    BY <1>1, <2>3 DEF Halved, SameRange, validate_coverage, Ranges
  <2> QED BY <2>1, <2>2, <2>3 DEF validate_coverage
<1>2. ASSUME validate_coverage(T, t) PROVE validate_coverage(S, t)
  <2>1. \A i \in DOMAIN S : 0 <= S[i].start /\ S[i].start <= S[i].end /\ S[i].end < t
    BY <1>2 DEF Halved, SameRange, validate_coverage, Ranges
  <2>2. ASSUME NEW b \in 0 .. t - 1 PROVE \E i \in DOMAIN S : b \in Bytes(S[i])
    <3>1. PICK i \in DOMAIN T : b \in Bytes(T[i])
      BY <1>2 DEF validate_coverage
    <3>2. CASE i \notin {p, c}
      BY <3>1, <3>2 DEF Halved, SameRange, Bytes
    <3>3. CASE i \in {p, c}
      BY <3>1, <3>3 DEF Halved, Bytes, Ranges
    <3> QED BY <3>2, <3>3
  <2>3. ASSUME NEW i \in DOMAIN S, NEW j \in DOMAIN S, i # j
        PROVE  S[i].end < S[j].start \/ S[j].end < S[i].start
    <3>1. i \in DOMAIN T /\ j \in DOMAIN T /\ c \in DOMAIN T /\ i # c /\ j # c
      BY DEF Halved
    <3>2. CASE i # p /\ j # p
      BY <1>2, <2>3, <3>1, <3>2 DEF Halved, SameRange, validate_coverage, Ranges
    <3>3. CASE i = p
      <4>1. T[j].start = S[j].start /\ T[j].end = S[j].end
        BY <2>3, <3>3 DEF Halved, SameRange
      <4>2. T[c].end < T[j].start \/ T[j].end < T[c].start
        BY <1>2, <3>1 DEF validate_coverage
      <4>3. T[p].end < T[j].start \/ T[j].end < T[p].start
        BY <1>2, <3>1, <3>3, <2>3 DEF validate_coverage
      <4>4. T[j].start <= T[j].end
        BY <1>2, <3>1 DEF validate_coverage
      <4> QED BY <4>1, <4>2, <4>3, <4>4, <3>3 DEF Halved, Ranges
    <3>4. CASE j = p
      <4>1. T[i].start = S[i].start /\ T[i].end = S[i].end
        BY <2>3, <3>4 DEF Halved, SameRange
      <4>2. T[c].end < T[i].start \/ T[i].end < T[c].start
        BY <1>2, <3>1 DEF validate_coverage
      <4>3. T[p].end < T[i].start \/ T[i].end < T[p].start
        BY <1>2, <3>1, <3>4, <2>3 DEF validate_coverage
      <4>4. T[i].start <= T[i].end
        BY <1>2, <3>1 DEF validate_coverage
      <4> QED BY <4>1, <4>2, <4>3, <4>4, <3>4 DEF Halved, Ranges
    <3> QED BY <3>2, <3>3, <3>4
  <2> QED BY <2>1, <2>2, <2>3 DEF validate_coverage
<1> QED BY <1>1, <1>2

(* A tail is added. *)
Extended(S, T, c, t, n) ==
    /\ c \notin DOMAIN S /\ DOMAIN T = DOMAIN S \cup {c}
    /\ T[c].start = t /\ T[c].end = n - 1 /\ 0 <= t /\ t < n
    /\ \A i \in DOMAIN S : SameRange(T[i], S[i])

(* A plan with a tail covers the longer file exactly if it covered the shorter. *)
LEMMA CoverExtended ==
  ASSUME NEW S, NEW T, NEW c, NEW t \in Int, NEW n \in Int, Ranges(S), Extended(S, T, c, t, n)
  PROVE  validate_coverage(S, t) <=> validate_coverage(T, n)
<1>1. ASSUME validate_coverage(S, t) PROVE validate_coverage(T, n)
  <2>1. \A i \in DOMAIN T : 0 <= T[i].start /\ T[i].start <= T[i].end /\ T[i].end < n
    BY <1>1 DEF Extended, SameRange, validate_coverage, Ranges
  <2>2. ASSUME NEW b \in 0 .. n - 1 PROVE \E i \in DOMAIN T : b \in Bytes(T[i])
    <3>1. CASE b < t
      BY <1>1, <3>1 DEF Extended, SameRange, validate_coverage, Bytes
    <3>2. CASE b >= t
      BY <3>2 DEF Extended, Bytes
    <3> QED BY <3>1, <3>2
  <2>3. ASSUME NEW i \in DOMAIN T, NEW j \in DOMAIN T, i # j
        PROVE  T[i].end < T[j].start \/ T[j].end < T[i].start
    BY <1>1, <2>3 DEF Extended, SameRange, validate_coverage, Ranges
  <2> QED BY <2>1, <2>2, <2>3 DEF validate_coverage
<1>2. ASSUME validate_coverage(T, n) PROVE validate_coverage(S, t)
  <2>1. ASSUME NEW i \in DOMAIN S
        PROVE  0 <= S[i].start /\ S[i].start <= S[i].end /\ S[i].end < t
    <3>1. T[i].end < T[c].start \/ T[c].end < T[i].start
      BY <1>2 DEF Extended, validate_coverage
    <3>2. 0 <= T[i].start /\ T[i].start <= T[i].end /\ T[i].end < n
      BY <1>2 DEF Extended, validate_coverage
    <3> QED BY <3>1, <3>2 DEF Extended, SameRange, Ranges
  <2>2. ASSUME NEW b \in 0 .. t - 1 PROVE \E i \in DOMAIN S : b \in Bytes(S[i])
    <3>1. PICK i \in DOMAIN T : b \in Bytes(T[i])
      BY <1>2 DEF validate_coverage, Extended
    <3> QED BY <3>1 DEF Extended, SameRange, Bytes, Ranges
  <2>3. ASSUME NEW i \in DOMAIN S, NEW j \in DOMAIN S, i # j
        PROVE  S[i].end < S[j].start \/ S[j].end < S[i].start
    BY <1>2, <2>3 DEF Extended, SameRange, validate_coverage, Ranges
  <2> QED BY <2>1, <2>2, <2>3 DEF validate_coverage
<1> QED BY <1>1, <1>2

(* Division leaves a rest that is smaller than the divisor. *)
LEMMA DivFact ==
  ASSUME NEW a \in Nat, NEW d \in Nat \ {0}
  PROVE  a \div d \in Nat /\ d * (a \div d) <= a /\ a < d * (a \div d) + d
OBVIOUS

LEMMA TimesMonotone ==
  ASSUME NEW a \in Nat, NEW b \in Nat, NEW q \in Nat, a < b
  PROVE  a * q + q <= b * q
<1>1. PICK d \in Nat : b = a + 1 + d
  <2>1. b - a - 1 \in Nat /\ b = a + 1 + (b - a - 1)
    OBVIOUS
  <2> QED BY <2>1
<1>2. b * q = a * q + q + d * q /\ d * q \in Nat /\ a * q \in Nat
  BY <1>1
<1> QED BY <1>2

(* Parts of q bytes that begin at M[0] = 0, M[1], ..., M[n], the last one   *)
(* with the rest, cover the file.                                           *)
Apart(M, q) == \A a, b \in Nat : a < b => M[a] + q <= M[b]
Dense(M, q) == \A b \in Nat : \E k \in Nat : M[k] <= b /\ b < M[k] + q
Parts(B, n, M, q, t) ==
    /\ DOMAIN B = 0 .. n
    /\ \A i \in 0 .. n : B[i].start = M[i] /\ B[i].end = IF i = n THEN t - 1 ELSE M[i] + q - 1

(* The general form of build_fresh_segments: n + 1 parts of q bytes. *)
LEMMA CoverParts ==
  ASSUME NEW n \in Nat, NEW q \in Nat, q # 0, NEW t \in Nat, NEW M \in [Nat -> Nat],
         Apart(M, q), Dense(M, q), M[n] + q <= t,
         NEW B, Parts(B, n, M, q, t)
  PROVE  /\ validate_coverage(B, t)
         /\ \A i \in 0 .. n : B[i].start \in Nat /\ B[i].end \in 0 .. t - 1
<1>1. ASSUME NEW i \in 0 .. n
      PROVE  /\ i \in Nat /\ M[i] \in Nat /\ B[i].start = M[i] /\ B[i].start <= B[i].end
             /\ B[i].end \in Int /\ B[i].end < t
             /\ i # n => i < n /\ B[i].end = M[i] + q - 1 /\ M[i] + q <= M[n]
             /\ i = n => B[i].end = t - 1
  <2>1. i \in Nat /\ M[i] \in Nat /\ M[n] \in Nat /\ (i # n => i < n)
    OBVIOUS
  <2>2. i # n => M[i] + q <= M[n]
    BY <2>1 DEF Apart
  <2>3. B[i].start = M[i] /\ B[i].end = IF i = n THEN t - 1 ELSE M[i] + q - 1
    BY DEF Parts
  <2> QED BY <2>1, <2>2, <2>3
<1>2. ASSUME NEW b \in 0 .. t - 1 PROVE \E i \in 0 .. n : b \in Bytes(B[i])
  <2>1. n \in 0 .. n /\ M[n] \in Nat
    OBVIOUS
  <2>2. CASE b >= M[n]
    <3>1. b \in Bytes(B[n])
      BY <2>1, <2>2, <1>1 DEF Bytes
    <3> QED BY <2>1, <3>1
  <2>3. CASE b < M[n]
    <3>1. PICK k \in Nat : M[k] <= b /\ b < M[k] + q
      BY DEF Dense
    <3>2. k < n
      <4>1. n < k => M[n] + q <= M[k]
        BY DEF Apart
      <4>2. M[k] \in Nat
        OBVIOUS
      <4> QED BY <4>1, <4>2, <3>1, <2>3, <2>1
    <3>3. k \in 0 .. n /\ M[k] \in Nat /\ k # n
      BY <3>2
    <3>4. b \in Bytes(B[k])
      BY <3>1, <3>3, <1>1 DEF Bytes
    <3> QED BY <3>3, <3>4
  <2> QED BY <2>1, <2>2, <2>3
<1>3. ASSUME NEW i \in 0 .. n, NEW j \in 0 .. n, i < j PROVE B[i].end < B[j].start
  <2>1. M[i] + q <= M[j] /\ i # n
    BY <1>3 DEF Apart
  <2>2. B[i].end = M[i] + q - 1 /\ B[j].start = M[j] /\ M[i] \in Nat /\ M[j] \in Nat
    BY <2>1, <1>1
  <2> QED BY <2>1, <2>2
<1>4. \A i, j \in 0 .. n : i # j => (B[i].end < B[j].start \/ B[j].end < B[i].start)
  <2>1. \A i, j \in 0 .. n : i # j => (i < j \/ j < i)
    OBVIOUS
  <2> QED BY <1>3, <2>1
<1>5. \A i \in 0 .. n : 0 <= B[i].start /\ B[i].start <= B[i].end /\ B[i].end < t
  BY <1>1
<1>6. \A i \in 0 .. n : B[i].start \in Nat /\ B[i].end \in 0 .. t - 1
  BY <1>1
<1>7. DOMAIN B = 0 .. n
  BY DEF Parts
<1> QED BY <1>2, <1>4, <1>5, <1>6, <1>7 DEF validate_coverage

(* build_fresh_segments covers the file: equal parts and a rest.            *)
LEMMA CoverFresh ==
  ASSUME NEW t \in Nat \ {0}, NEW count \in 1 .. t
  PROVE  /\ validate_coverage(build_fresh_segments(count, t), t)
         /\ DOMAIN build_fresh_segments(count, t) = 0 .. count - 1
         /\ \A i \in 0 .. count - 1 :
              build_fresh_segments(count, t)[i] \in [start : Nat, end : 0 .. t - 1, dl : Nat]
<1>1. PICK q \in Nat : q = t \div count /\ count * q <= t /\ t < count * q + count
  BY DivFact
<1>2. q # 0
  <2>1. q = 0 => count * q = 0
    OBVIOUS
  <2> QED BY <1>1, <2>1
<1>3. PICK M \in [Nat -> Nat] : \A k \in Nat : M[k] = k * q
  <2>1. [k \in Nat |-> k * q] \in [Nat -> Nat]
    OBVIOUS
  <2> QED BY <2>1
<1>4. ASSUME NEW k \in Nat PROVE M[k + 1] = M[k] + q
  BY <1>3
<1>5. Apart(M, q)
  BY <1>3, TimesMonotone DEF Apart
<1>6. ASSUME NEW b \in Nat PROVE \E k \in Nat : M[k] <= b /\ b < M[k] + q
  <2>1. b \div q \in Nat /\ q * (b \div q) <= b /\ b < q * (b \div q) + q
    BY <1>2, DivFact
  <2>2. M[b \div q] = q * (b \div q)
    BY <2>1, <1>3
  <2> QED BY <2>1, <2>2
<1>7. PICK n \in Nat : count = n + 1
  <2>1. count - 1 \in Nat /\ count = (count - 1) + 1
    OBVIOUS
  <2> QED BY <2>1
<1>8. M[n] + q <= t
  <2>1. M[count] = count * q
    BY <1>3
  <2>2. M[count] = M[n] + q
    BY <1>4, <1>7
  <2> QED BY <2>1, <2>2, <1>1
<1>9. PICK B : B = build_fresh_segments(count, t)
  OBVIOUS
<1>10. DOMAIN B = 0 .. n
  BY <1>7, <1>9 DEF build_fresh_segments
<1>11. ASSUME NEW i \in 0 .. n
       PROVE  /\ B[i] = [start |-> B[i].start, end |-> B[i].end, dl |-> 0]
              /\ B[i].start = M[i]
              /\ B[i].end = IF i = n THEN t - 1 ELSE M[i] + q - 1
  <2>1. i \in 0 .. count - 1 /\ i \in Nat /\ (i = count - 1 <=> i = n)
    BY <1>7
  <2>2. B[i] = [start |-> i * q, end |-> IF i = count - 1 THEN t - 1 ELSE (i + 1) * q - 1, dl |-> 0]
    BY <2>1, <1>1, <1>9 DEF build_fresh_segments
  <2>3. M[i] = i * q /\ M[i + 1] = (i + 1) * q /\ M[i + 1] = M[i] + q
    BY <2>1, <1>3, <1>4
  <2>4. B[i] = [start |-> M[i], end |-> IF i = n THEN t - 1 ELSE M[i] + q - 1, dl |-> 0]
    BY <2>1, <2>2, <2>3
  <2> QED BY <2>4
<1>12. /\ validate_coverage(B, t)
       /\ \A i \in 0 .. n : B[i].start \in Nat /\ B[i].end \in 0 .. t - 1
  <2>1. Parts(B, n, M, q, t)
    BY <1>10, <1>11 DEF Parts
  <2>2. Dense(M, q)
    BY <1>6 DEF Dense
  <2> QED BY <2>1, <2>2, <1>2, <1>5, <1>8, CoverParts
<1>13. ASSUME NEW i \in 0 .. n PROVE B[i] \in [start : Nat, end : 0 .. t - 1, dl : Nat]
  <2>1. B[i].start \in Nat /\ B[i].end \in 0 .. t - 1
    BY <1>12
  <2>2. B[i] = [start |-> B[i].start, end |-> B[i].end, dl |-> 0]
    BY <1>11
  <2> HIDE <1>12
  <2> QED BY <2>1, <2>2
<1> QED BY <1>7, <1>9, <1>10, <1>12, <1>13

(* The end of a plan is the end of the file. *)
LEMMA CoverMax ==
  ASSUME NEW R, NEW t \in Nat \ {0}, Ranges(R), validate_coverage(R, t)
  PROVE  /\ DOMAIN R # {}
         /\ {R[i].end : i \in DOMAIN R} \in SUBSET (0 .. t - 1)
         /\ Max({R[i].end : i \in DOMAIN R}) + 1 = t
<1> DEFINE E == {R[i].end : i \in DOMAIN R}
<1>1. E \in SUBSET (0 .. t - 1)
  BY DEF validate_coverage, Ranges
<1>2. PICK i \in DOMAIN R : t - 1 \in Bytes(R[i])
  BY DEF validate_coverage
<1>3. R[i].end = t - 1
  BY <1>2 DEF Bytes, validate_coverage, Ranges
<1>4. t - 1 \in E
  BY <1>3
<1> HIDE DEF E
<1>5. Max(E) \in E /\ t - 1 <= Max(E)
  <2>1. t - 1 \in Nat /\ E # {}
    BY <1>4
  <2> QED BY <2>1, <1>1, <1>4, MaxFact
<1>6. Max(E) = t - 1
  <2>1. Max(E) \in 0 .. t - 1
    BY <1>1, <1>5
  <2> QED BY <2>1, <1>5
<1> QED BY <1>6, <1>1, <1>2 DEF E

(* What an open stream absorbs fills the gap up to the new end, ...         *)
LEMMA AbsorbedFacts ==
  ASSUME NEW S, NEW t \in Nat \ {0}, NEW o, Ranges(S), validate_coverage(S, t), Absorbed(S, o) # {}
  PROVE  /\ o \in In(S, "Active") /\ Absorbed(S, o) \subseteq In(S, "Pending")
         /\ o \notin Absorbed(S, o)
         /\ \E k \in Absorbed(S, o) : NewEnd(S, o) = S[k].end
         /\ NewEnd(S, o) \in 0 .. t - 1
         /\ \A a \in Absorbed(S, o) : S[o].end < S[a].start /\ S[a].end <= NewEnd(S, o)
         /\ \A b \in S[o].end + 1 .. NewEnd(S, o) : \E a \in Absorbed(S, o) : b \in Bytes(S[a])
<1> DEFINE A == Absorbed(S, o)
           free == {i \in In(S, "Pending") : S[i].dl = 0}
           E == {S[i].end : i \in A}
<1>1. o \in In(S, "Active") /\ A \subseteq free
  BY DEF Absorbed
<1>2. ASSUME NEW i PROVE i \in A <=> /\ i \in free /\ S[i].start > S[o].end
                                     /\ \A b \in S[o].end + 1 .. S[i].start : \E j \in free : b \in Bytes(S[j])
  BY <1>1 DEF Absorbed
<1>3. free \subseteq DOMAIN S /\ o \in DOMAIN S /\ o \notin free
  BY <1>1 DEF In
<1> HIDE DEF free, A
<1>4. E \in SUBSET (0 .. t - 1) /\ E # {}
  <2>1. \A i \in A : i \in DOMAIN S
    BY <1>1, <1>3
  <2> QED BY <2>1 DEF validate_coverage, Ranges, A
<1> HIDE DEF E
<1>5. Max(E) \in E /\ \A x \in E : x <= Max(E)
  <2>1. t - 1 \in Nat
    OBVIOUS
  <2> QED BY <1>4, <2>1, MaxFact
<1>6. NewEnd(S, o) = Max(E)
  BY DEF NewEnd, E, A
<1>7. PICK k \in A : NewEnd(S, o) = S[k].end
  BY <1>5, <1>6 DEF E
<1>8. \A a \in A : S[a].end <= NewEnd(S, o)
  BY <1>5, <1>6 DEF E
<1>9. NewEnd(S, o) \in 0 .. t - 1
  BY <1>4, <1>5, <1>6
<1>10. ASSUME NEW b \in S[o].end + 1 .. NewEnd(S, o) PROVE \E a \in A : b \in Bytes(S[a])
  <2>0. k \in DOMAIN S /\ S[k].start \in Int /\ S[k].end \in Int /\ S[o].start \in Int /\ S[o].end \in Int
    BY <1>1, <1>3 DEF Ranges
  <2>1. CASE b > S[k].start
    BY <2>0, <2>1, <1>7 DEF Bytes
  <2>2. CASE b <= S[k].start
    <3>1. PICK j \in free : b \in Bytes(S[j])
      BY <1>2, <2>0, <2>2
    <3>2. j \in DOMAIN S /\ j # o /\ S[j].start \in Int /\ S[j].end \in Int
      BY <1>3 DEF Ranges
    <3>3. S[j].start > S[o].end
      BY <3>1, <3>2, <2>0, <1>3 DEF validate_coverage, Bytes
    <3>4. ASSUME NEW c \in S[o].end + 1 .. S[j].start PROVE \E l \in free : c \in Bytes(S[l])
      <4>1. c \in S[o].end + 1 .. S[k].start
        BY <3>1, <3>2, <2>0, <2>2 DEF Bytes
      <4> QED BY <4>1, <1>2
    <3>5. j \in A
      BY <3>3, <3>4, <1>2
    <3> QED BY <3>1, <3>5
  <2> QED BY <2>0, <2>1, <2>2
<1> QED BY <1>1, <1>2, <1>3, <1>7, <1>8, <1>9, <1>10 DEF A, free

(* ... so the plan still covers the file when it has been absorbed.         *)
LEMMA CoverMerge ==
  ASSUME NEW S, NEW T, NEW t \in Nat \ {0}, NEW o, Ranges(S), validate_coverage(S, t),
         Absorbed(S, o) # {}, Same(S, T),
         \A i \in DOMAIN T : "start" \in DOMAIN T[i] /\ "end" \in DOMAIN T[i]
  PROVE  /\ validate_coverage(Merge(S, T, o), t)
         /\ o \in DOMAIN Merge(S, T, o) /\ DOMAIN Merge(S, T, o) = DOMAIN S \ Absorbed(S, o)
<1> DEFINE A == Absorbed(S, o)
           M == Merge(S, T, o)
           e == NewEnd(S, o)
<1>1. /\ o \in DOMAIN S /\ o \notin A /\ A \subseteq DOMAIN S
      /\ e \in 0 .. t - 1
      /\ \A a \in A : S[o].end < S[a].start /\ S[a].end <= e
      /\ \A b \in S[o].end + 1 .. e : \E a \in A : b \in Bytes(S[a])
      /\ \E k \in A : e = S[k].end
  BY AbsorbedFacts DEF In
<1>2. /\ DOMAIN M = DOMAIN S \ A /\ o \in DOMAIN M
      /\ M[o].start = S[o].start /\ M[o].end = e
      /\ \A i \in DOMAIN M \ {o} : M[i].start = S[i].start /\ M[i].end = S[i].end
  <2>1. DOMAIN M = DOMAIN S \ A
    BY DEF Merge, Same
  <2>2. \A i \in DOMAIN M : M[i] = IF i = o THEN [T[i] EXCEPT !.end = e] ELSE T[i]
    BY DEF Merge
  <2>3. o \in DOMAIN M
    BY <2>1, <1>1
  <2>4. M[o].start = S[o].start /\ M[o].end = e
    <3>1. o \in DOMAIN T /\ "start" \in DOMAIN T[o] /\ "end" \in DOMAIN T[o]
      BY <1>1 DEF Same
    <3>2. M[o] = [T[o] EXCEPT !.end = e]
      BY <2>2, <2>3
    <3>3. M[o].start = T[o].start /\ M[o].end = e
      BY <3>1, <3>2
    <3> QED BY <3>3, <1>1 DEF Same, SameRange
  <2> QED BY <2>1, <2>2, <2>3, <2>4 DEF Same, SameRange
<1> HIDE DEF A, M, e
<1>3. \A i \in DOMAIN S : /\ S[i].start \in Int /\ S[i].end \in Int
                          /\ 0 <= S[i].start /\ S[i].start <= S[i].end /\ S[i].end < t
  BY DEF Ranges, validate_coverage
<1>4. \A i, j \in DOMAIN S : i # j => (S[i].end < S[j].start \/ S[j].end < S[i].start)
  BY DEF validate_coverage
<1>5. S[o].end < e
  BY <1>1, <1>3
<1>6. ASSUME NEW i \in DOMAIN S \ A, i # o
      PROVE  S[i].end < S[o].start \/ e < S[i].start
  <2> SUFFICES ASSUME S[o].end < S[i].start, S[i].start <= e PROVE FALSE
    BY <1>1, <1>3, <1>4, <1>6
  <2>1. PICK a \in A : S[i].start \in Bytes(S[a])
    BY <1>1, <1>3
  <2> QED BY <2>1, <1>1, <1>3, <1>4 DEF Bytes
<1>7. \A i \in DOMAIN M : 0 <= M[i].start /\ M[i].start <= M[i].end /\ M[i].end < t
  BY <1>1, <1>2, <1>3, <1>5
<1>8. ASSUME NEW b \in 0 .. t - 1 PROVE \E i \in DOMAIN M : b \in Bytes(M[i])
  <2>1. PICK i \in DOMAIN S : b \in Bytes(S[i])
    BY DEF validate_coverage
  <2>2. CASE i \in A \/ i = o
    <3>1. b \in Bytes(M[o])
      BY <2>1, <2>2, <1>1, <1>2, <1>3, <1>5 DEF Bytes
    <3> QED BY <3>1, <1>2
  <2>3. CASE i \notin A /\ i # o
    BY <2>1, <2>3, <1>2 DEF Bytes
  <2> QED BY <2>2, <2>3
<1>9. ASSUME NEW i \in DOMAIN M, NEW j \in DOMAIN M, i # j
      PROVE  M[i].end < M[j].start \/ M[j].end < M[i].start
  BY <1>9, <1>2, <1>4, <1>6
<1>10. validate_coverage(M, t)
  BY <1>7, <1>8, <1>9 DEF validate_coverage
<1> QED BY <1>10, <1>2 DEF A, M

-----------------------------------------------------------------------------
(* Finding work *)

PlanType(S, n) == DOMAIN S \subseteq 0 .. n - 1 /\ \A i \in DOMAIN S : S[i] \in Segment

LEMMA PlanRanges ==
  ASSUME NEW S, NEW n, PlanType(S, n)
  PROVE  Ranges(S) /\ \A i \in DOMAIN S : "start" \in DOMAIN S[i] /\ "end" \in DOMAIN S[i]
BY DEF PlanType, Ranges, Segment

(* The ways a search ends: nothing to do, a pending segment, a segment cut. *)
Nothing(S, nw) == nw.child = NoSeg /\ nw.parent = NoSeg /\ nw.segs = S
Picked(S, nw) ==
    /\ nw.child \in In(S, "Pending") /\ nw.parent = NoSeg
    /\ nw.segs = [S EXCEPT ![nw.child].state = "Active"]
CutAt(S, nw, state, cut) ==
    /\ nw.child = nextIndex /\ nw.parent \in In(S, "Active")
    /\ S[nw.parent].start + S[nw.parent].dl < cut /\ cut <= S[nw.parent].end
    /\ nw.segs = With([S EXCEPT ![nw.parent].end = cut - 1], nextIndex,
                      [start |-> cut, end |-> S[nw.parent].end, dl |-> 0, state |-> state])
Cut(S, nw, state) == \E cut \in Nat : CutAt(S, nw, state, cut)
Found(S, nw) == Nothing(S, nw) \/ Picked(S, nw) \/ Cut(S, nw, "Active")

(* find_next_pending_only finds nothing or a pending segment. *)
LEMMA PickFacts ==
  ASSUME NEW S, NEW n \in Nat, PlanType(S, n)
  PROVE  LET nw == find_next_pending_only(S) IN Nothing(S, nw) \/ Picked(S, nw)
<1>1. In(S, "Pending") \in SUBSET Nat
  BY DEF In, PlanType
<1>2. CASE In(S, "Pending") = {}
  BY <1>2 DEF find_next_pending_only, NoWork, Nothing
<1>3. CASE In(S, "Pending") # {}
  <2>1. Min(In(S, "Pending")) \in In(S, "Pending")
    BY <1>1, <1>3, MinFact
  <2> QED BY <1>3, <2>1 DEF find_next_pending_only, Picked
<1> QED BY <1>2, <1>3

(* SplitInHalf cuts behind what the parent has downloaded. *)
LEMMA HalfFacts ==
  ASSUME nextIndex \in Nat, NEW S, PlanType(S, nextIndex), NEW t \in Nat, validate_coverage(S, t),
         NEW m \in Nat \ {0}, CanSplit(S, m), NEW state
  PROVE  Cut(S, SplitInHalf(S, m, state), state)
<1> DEFINE X == Splittable(S, m)
           R == {remaining(S[i]) : i \in X}
           L == {i \in X : \A j \in X : remaining(S[j]) <= remaining(S[i])}
           p == Longest(S, m)
           cut == split_point(S[p])
<1>1. X # {} /\ X \subseteq In(S, "Active") /\ X \subseteq DOMAIN S /\ \A i \in X : remaining(S[i]) >= m
  BY DEF CanSplit, Splittable, In
<1>2. ASSUME NEW i \in X PROVE remaining(S[i]) \in 0 .. t
  <2>1. i \in DOMAIN S /\ S[i].start \in Nat /\ S[i].end \in Nat /\ S[i].dl \in Nat /\ S[i].end < t
    BY <1>1 DEF PlanType, Segment, validate_coverage
  <2> QED BY <2>1 DEF remaining, size, Larger
<1> HIDE DEF X
<1>3. L # {}
  <2>1. R \in SUBSET (0 .. t) /\ R # {}
    BY <1>1, <1>2
  <2> HIDE DEF R
  <2>2. Max(R) \in R /\ \A x \in R : x <= Max(R)
    BY <2>1, MaxFact
  <2>3. PICK i \in X : remaining(S[i]) = Max(R)
    BY <2>2 DEF R
  <2>4. i \in L
    BY <2>2, <2>3 DEF R
  <2> QED BY <2>4
<1>4. L \in SUBSET (0 .. nextIndex)
  BY <1>1 DEF PlanType
<1> HIDE DEF L
<1>5. Max(L) \in L
  BY <1>3, <1>4, MaxFact
<1>6. p \in X
  BY <1>5 DEF Longest, L, X
<1>7. cut > S[p].start + S[p].dl /\ cut <= S[p].end
  BY DEF CanSplit
<1>8. cut \in Nat
  <2>1. /\ p \in DOMAIN S /\ S[p].start \in Nat /\ S[p].end \in Nat /\ S[p].dl \in Nat
        /\ remaining(S[p]) >= m
    BY <1>1, <1>6 DEF PlanType, Segment
  <2>2. S[p].end - (S[p].start + S[p].dl) + 1 \in Nat
    BY <2>1 DEF remaining, size, Larger
  <2>3. (S[p].end - (S[p].start + S[p].dl) + 1) \div 2 \in Nat
    BY <2>2, DivFact
  <2> QED BY <2>1, <2>3 DEF split_point
<1>9. p \in In(S, "Active")
  BY <1>1, <1>6
<1> HIDE DEF p, cut
<1>10. SplitInHalf(S, m, state) =
         [segs |-> With([S EXCEPT ![p].end = cut - 1], nextIndex,
                        [start |-> cut, end |-> S[p].end, dl |-> 0, state |-> state]),
          child |-> nextIndex, parent |-> p]
  BY DEF SplitInHalf, p, cut
<1>11. CutAt(S, SplitInHalf(S, m, state), state, cut)
  BY <1>7, <1>9, <1>10 DEF CutAt
<1> QED BY <1>8, <1>11 DEF Cut

LEMMA SplitFacts ==
  ASSUME nextIndex \in Nat, NEW S, PlanType(S, nextIndex), NEW t \in Nat, validate_coverage(S, t),
         NEW m \in MinSplits, NEW state
  PROVE  LET nw == SplitLargest(S, m, state) IN Nothing(S, nw) \/ Cut(S, nw, state)
<1>1. m \in Nat \ {0} /\ TailMinSplit \in Nat \ {0}
  BY SplitAssumption
<1>2. CASE CanSplit(S, m)
  <2>1. SplitLargest(S, m, state) = SplitInHalf(S, m, state)
    BY <1>2 DEF SplitLargest
  <2> QED BY <2>1, <1>1, <1>2, HalfFacts
<1>3. CASE ~CanSplit(S, m) /\ Straggler(S, m) /\ CanSplit(S, TailMinSplit)
  <2>1. SplitLargest(S, m, state) = SplitInHalf(S, TailMinSplit, state)
    BY <1>3 DEF SplitLargest
  <2> QED BY <2>1, <1>1, <1>3, HalfFacts
<1>4. CASE ~CanSplit(S, m) /\ ~(Straggler(S, m) /\ CanSplit(S, TailMinSplit))
  BY <1>4 DEF SplitLargest, NoWork, Nothing
<1> QED BY <1>2, <1>3, <1>4

(* find_next_work picks, cuts or finds nothing. *)
LEMMA WorkFacts ==
  ASSUME nextIndex \in Nat, NEW S, PlanType(S, nextIndex), NEW t \in Nat, validate_coverage(S, t),
         NEW m \in MinSplits
  PROVE  Found(S, find_next_work(S, m)) /\ Found(S, SerialWork(S))
         /\ Found(S, find_next_pending_only(S)) /\ Found(S, NoWork(S))
<1>1. Found(S, find_next_pending_only(S))
  BY PickFacts DEF Found
<1>2. Found(S, SplitLargest(S, m, "Active"))
  BY SplitFacts DEF Found
<1>3. Found(S, NoWork(S))
  BY DEF Found, Nothing, NoWork
<1> QED BY <1>1, <1>2, <1>3 DEF find_next_work, SerialWork

(* What becomes of the plan. *)
LEMMA PickedPlan ==
  ASSUME nextIndex \in Nat, NEW S, PlanType(S, nextIndex), NEW nw, Picked(S, nw)
  PROVE  /\ PlanType(nw.segs, nextIndex) /\ Same(nw.segs, S)
         /\ nw.child \in DOMAIN S /\ nw.child # NoSeg /\ nw.parent = NoSeg
         /\ \A i \in DOMAIN S : /\ nw.segs[i].dl = S[i].dl
                                /\ nw.segs[i].state = IF i = nw.child THEN "Active" ELSE S[i].state
         /\ S[nw.child].state = "Pending"
<1>1. nw.child \in DOMAIN S /\ S[nw.child].state = "Pending"
  BY DEF Picked, In
<1>2. DOMAIN nw.segs = DOMAIN S
  BY DEF Picked
<1>3. \A i \in DOMAIN S : nw.segs[i] = IF i = nw.child THEN [S[i] EXCEPT !.state = "Active"] ELSE S[i]
  BY DEF Picked
<1>4. \A i \in DOMAIN S : S[i] \in Segment
  BY DEF PlanType
<1>5. ASSUME NEW i \in DOMAIN S
      PROVE  /\ nw.segs[i] \in Segment /\ SameRange(nw.segs[i], S[i]) /\ nw.segs[i].dl = S[i].dl
             /\ nw.segs[i].state = IF i = nw.child THEN "Active" ELSE S[i].state
  BY <1>3, <1>4 DEF Segment, SameRange
<1>6. nw.child # NoSeg
  BY <1>1 DEF PlanType, NoSeg
<1> QED BY <1>1, <1>2, <1>5, <1>6 DEF Picked, PlanType, Same

(* A plan stays well-formed and covers the file when a segment is cut, ... *)
LEMMA CutPlan ==
  ASSUME nextIndex \in Nat, NEW S, PlanType(S, nextIndex), NEW nw, NEW cut, NEW state,
         cut \in Nat /\ state \in {"Pending", "Active"} /\ CutAt(S, nw, state, cut)
  PROVE  /\ PlanType(nw.segs, nextIndex + 1) /\ Halved(S, nw.segs, nw.parent, nw.child, cut)
         /\ nw.child = nextIndex /\ nw.parent \in In(S, "Active")
         /\ nw.child # NoSeg /\ nw.parent # NoSeg /\ nw.parent # nw.child
         /\ nw.segs[nw.child].dl = 0 /\ nw.segs[nw.child].state = state
         /\ \A i \in DOMAIN S : i # nw.parent => nw.segs[i] = S[i]
         /\ \A i \in DOMAIN S : nw.segs[i].dl = S[i].dl
         /\ \A i \in DOMAIN S : nw.segs[i].state = S[i].state
<1> DEFINE p == nw.parent
           c == nw.child
           T == nw.segs
<1>1. c = nextIndex /\ c \notin DOMAIN S /\ p \in DOMAIN S /\ p # c /\ c # NoSeg /\ p # NoSeg
  BY DEF CutAt, PlanType, In, NoSeg
<1>2. DOMAIN T = DOMAIN S \cup {c}
  BY <1>1 DEF CutAt, With
<1>3. T[c] = [start |-> cut, end |-> S[p].end, dl |-> 0, state |-> state]
  BY <1>1 DEF CutAt, With
<1>4. T[p] = [S[p] EXCEPT !.end = cut - 1]
  BY <1>1 DEF CutAt, With
<1>5. \A i \in DOMAIN S : i # p => T[i] = S[i]
  BY <1>1 DEF CutAt, With
<1>6. \A i \in DOMAIN S : S[i] \in Segment
  BY DEF PlanType
<1>7. S[p].start + S[p].dl < cut /\ cut <= S[p].end /\ p \in In(S, "Active")
  BY DEF CutAt
<1>8. /\ T[p] \in Segment /\ T[p].start = S[p].start /\ T[p].end = cut - 1
      /\ T[p].dl = S[p].dl /\ T[p].state = S[p].state
  BY <1>1, <1>4, <1>6, <1>7 DEF Segment
<1>9. T[c] \in Segment /\ T[c].start = cut /\ T[c].end = S[p].end
  BY <1>1, <1>3, <1>6 DEF Segment
<1>10. PlanType(T, nextIndex + 1)
  BY <1>1, <1>2, <1>5, <1>6, <1>8, <1>9 DEF PlanType
<1>11. Halved(S, T, p, c, cut)
  <2>1. S[p].start < cut
    BY <1>1, <1>6, <1>7 DEF Segment
  <2> QED BY <1>1, <1>2, <1>5, <1>7, <1>8, <1>9, <2>1 DEF Halved, SameRange
<1>12. /\ T[c].dl = 0 /\ T[c].state = state
       /\ \A i \in DOMAIN S : T[i].dl = S[i].dl
       /\ \A i \in DOMAIN S : T[i].state = S[i].state
  BY <1>3, <1>5, <1>8
<1> QED BY <1>1, <1>5, <1>7, <1>10, <1>11, <1>12

(* sync_downloaded_from_shared changes no range and no state. *)
LEMMA SyncFacts ==
  ASSUME TypeOK
  PROVE  LET S == sync_downloaded_from_shared
         IN  /\ PlanType(S, nextIndex) /\ Same(S, segments) /\ Same(segments, S)
             /\ \A state : In(S, state) = In(segments, state)
             /\ \A i \in DOMAIN segments :
                  S[i] = IF segments[i].state = "Active" /\ i \in DOMAIN segStates
                         THEN [segments[i] EXCEPT !.dl = segStates[i].dl] ELSE segments[i]
<1> DEFINE S == sync_downloaded_from_shared
<1>1. DOMAIN S = DOMAIN segments
  BY DEF sync_downloaded_from_shared
<1>2. \A i \in DOMAIN segments :
         S[i] = IF segments[i].state = "Active" /\ i \in DOMAIN segStates
                THEN [segments[i] EXCEPT !.dl = segStates[i].dl] ELSE segments[i]
  BY DEF sync_downloaded_from_shared
<1> HIDE DEF S
<1>3. ASSUME NEW i \in DOMAIN segments
      PROVE  S[i] \in Segment /\ SameRange(S[i], segments[i]) /\ SameRange(segments[i], S[i])
             /\ S[i].state = segments[i].state
  <2>1. segments[i] \in Segment
    BY DEF TypeOK
  <2>2. i \in DOMAIN segStates => segStates[i].dl \in Nat
    BY DEF TypeOK
  <2> QED BY <2>1, <2>2, <1>2 DEF Segment, SameRange
<1>4. PlanType(S, nextIndex) /\ Same(S, segments) /\ Same(segments, S)
  BY <1>1, <1>3 DEF PlanType, Same, TypeOK
<1>5. \A state : In(S, state) = In(segments, state)
  BY <1>1, <1>3 DEF In
<1> QED BY <1>1, <1>2, <1>4, <1>5 DEF S

-----------------------------------------------------------------------------
(* The inductive invariant *)

Handling == {"assign", "persist", "publish", "redispatch", "merge", "merged", "retire"}
Looped == co \notin {"down", "drain"}
Reported(w) == w \in Workers /\ worker[w].pc = "reported"
HeldByOther(i) == \E w \in Alive \ {job.w} : worker[w].seg = i
Kept(i) == i \in In(segments, "Active") /\ ~HeldByOther(i)

(* What a handler in progress may rely on: the worker it answers waits for  *)
(* the answer, and what it is about to give away or to give back is held by *)
(* nobody else.                                                             *)
JobInv ==
    /\ co \notin Handling => job = NoJob
    /\ co \in {"assign", "redispatch", "retire"} => Reported(job.w)
    /\ co = "redispatch" => Kept(job.seg)
    /\ co \in {"persist", "publish"} =>
         /\ job.child \in DOMAIN segments
         /\ job.parent = NoSeg \/ job.parent \in DOMAIN segments
         /\ job.then # "retire"
         /\ job.then \in {"assign", "redispatch", "send"} => Reported(job.w)
         /\ job.then = "fill" => job.w \in Workers \ Alive
         /\ job.then = "idle" => job.w = NoSeg
         /\ job.then = "redispatch" => Kept(job.seg)
         /\ job.then \in {"send", "fill"} => Kept(job.child)
    /\ co \in {"merge", "merged"} =>
         /\ Absorbed(segments, openSeg) # {}
         /\ \/ job.then = "idle" /\ job = NoJob
            \/ job.then = "retire" /\ Reported(job.w)

(* Every worker but the one being answered holds an active segment, and no  *)
(* two hold the same.                                                       *)
Holding ==
    Looped =>
      /\ \A w \in Alive \ {job.w} : worker[w].seg \in In(segments, "Active")
      /\ \A v, w \in Alive \ {job.w} : v # w => worker[v].seg # worker[w].seg

(* A report in the channel is the only one of its worker, which waits.      *)
IsReport(k) == k \in 1 .. Len(events) /\ events[k].kind # "verdict"
Standing(k) ==
    Reported(events[k].w) /\ worker[events[k].w].seg = events[k].seg /\ events[k].w # job.w
Reports ==
    Looped =>
      /\ \A k : IsReport(k) => Standing(k)
      /\ \A k, l : IsReport(k) /\ IsReport(l) /\ k # l => events[k].w # events[l].w

(* Workers see the segment they work on; those that are not there hold      *)
(* nothing, and between two runs nothing is left.                           *)
Shared ==
    /\ \A w \in Workers : worker[w].pc = "off" => worker[w].seg = NoSeg
    /\ \A w \in Busy : worker[w].seg \in DOMAIN segStates
    /\ co = "down" => worker = [w \in Workers |-> Off] /\ events = <<>> /\ segments = <<>>

IInv == TypeOK /\ PlanCovers /\ JobInv /\ Holding /\ Reports /\ Shared

-----------------------------------------------------------------------------
(* Types *)

TypePlan == nextIndex \in Nat /\ total \in 1 .. FileSize /\ PlanType(segments, nextIndex)
TypeStates == \A i \in DOMAIN segStates : segStates[i] \in [end : 0 .. FileSize - 1, dl : Nat]
TypeRows ==
    \A i \in DOMAIN rows : i \in Nat /\ rows[i] \in [start : Nat, end : 0 .. FileSize - 1, dl : Nat]
TypeWritten == written \subseteq 0 .. FileSize - 1
Bounded(r) == /\ r \in WorkerRec /\ r.base <= r.req /\ r.base + r.off + r.left <= FileSize
              /\ r.pc # "write" => r.left = 0
TypeWorker == worker \in [Workers -> WorkerRec] /\ \A w \in Workers : Bounded(worker[w])
TypeEvents == events \in Seq(EventRec)
JobRec == [w : Workers \cup {NoSeg}, seg : Int, child : Int, parent : Int,
           then : {"idle", "assign", "redispatch", "send", "fill", "retire"},
           plain : BOOLEAN, kind : Kinds \cup {"none"}]
TypeCo ==
    /\ co \in {"down", "idle", "assign", "persist", "publish", "redispatch", "merge", "merged",
               "retire", "fill", "drain"}
    /\ job \in JobRec
TypeModes == /\ allowed \in 1 .. Cardinality(Workers) /\ serial \in BOOLEAN
             /\ strikes \in Nat /\ expansions \in Nat /\ openSeg \in Int
TypeNet == /\ verdict \in {"unknown", "yes", "no"}
           /\ sensitive \in BOOLEAN /\ served \in BOOLEAN /\ verified \in BOOLEAN
TypeEnd == /\ cancelled \in BOOLEAN
           /\ err \in {"none", "error", "fallback", "cancelled"}
           /\ result \in {"none", "ok", "error", "fallback", "cancelled"}
TypeBounds == faults \in Nat /\ sessions \in Nat

(* TypeOK, part by part. *)
LEMMA TypeParts ==
  TypeOK <=> /\ TypePlan /\ TypeStates /\ TypeRows /\ TypeWritten /\ TypeWorker /\ TypeEvents
             /\ TypeCo /\ TypeModes /\ TypeNet /\ TypeEnd /\ TypeBounds
<1>1. TypeOK => /\ TypePlan /\ TypeStates /\ TypeRows /\ TypeWritten /\ TypeWorker
  BY DEF TypeOK, TypePlan, PlanType, TypeStates, TypeRows, TypeWritten, TypeWorker, Bounded
<1>2. TypeOK => /\ TypeEvents /\ TypeCo /\ TypeModes /\ TypeNet /\ TypeEnd /\ TypeBounds
  BY DEF TypeOK, TypeEvents, EventRec, TypeCo, JobRec, TypeModes, TypeNet, TypeEnd, TypeBounds
<1>3. TypePlan /\ TypeStates /\ TypeRows /\ TypeWritten /\ TypeWorker /\ TypeEvents
        /\ TypeCo /\ TypeModes /\ TypeNet /\ TypeEnd /\ TypeBounds => TypeOK
  BY DEF TypeOK, TypePlan, PlanType, TypeStates, TypeRows, TypeWritten, TypeWorker, Bounded,
         TypeEvents, EventRec, TypeCo, JobRec, TypeModes, TypeNet, TypeEnd, TypeBounds
<1> QED BY <1>1, <1>2, <1>3

LEMMA TypePartsNext ==
  TypePlan' /\ TypeStates' /\ TypeRows' /\ TypeWritten' /\ TypeWorker' /\ TypeEvents'
    /\ TypeCo' /\ TypeModes' /\ TypeNet' /\ TypeEnd' /\ TypeBounds' => TypeOK'
BY TypeParts, PTL

(* A group that does not change keeps its types. *)
LEMMA TypeKept ==
  /\ UNCHANGED planVars /\ TypePlan => TypePlan'
  /\ UNCHANGED segStates /\ TypeStates => TypeStates'
  /\ UNCHANGED rows /\ TypeRows => TypeRows'
  /\ UNCHANGED written /\ TypeWritten => TypeWritten'
  /\ UNCHANGED worker /\ TypeWorker => TypeWorker'
  /\ UNCHANGED events /\ TypeEvents => TypeEvents'
  /\ UNCHANGED co /\ UNCHANGED job /\ TypeCo => TypeCo'
  /\ UNCHANGED modeVars /\ TypeModes => TypeModes'
  /\ UNCHANGED netVars /\ TypeNet => TypeNet'
  /\ UNCHANGED endVars /\ TypeEnd => TypeEnd'
  /\ UNCHANGED boundVars /\ TypeBounds => TypeBounds'
<1>1. UNCHANGED planVars /\ TypePlan => TypePlan'
  BY DEF planVars, TypePlan, PlanType
<1>2. UNCHANGED segStates /\ TypeStates => TypeStates'
  BY DEF TypeStates
<1>3. UNCHANGED rows /\ TypeRows => TypeRows'
  BY DEF TypeRows
<1>4. UNCHANGED written /\ TypeWritten => TypeWritten'
  BY DEF TypeWritten
<1>5. UNCHANGED worker /\ TypeWorker => TypeWorker'
  BY DEF TypeWorker
<1>6. UNCHANGED events /\ TypeEvents => TypeEvents'
  BY DEF TypeEvents
<1>7. UNCHANGED co /\ UNCHANGED job /\ TypeCo => TypeCo'
  BY DEF TypeCo
<1>8. UNCHANGED modeVars /\ TypeModes => TypeModes'
  BY DEF modeVars, TypeModes
<1>9. UNCHANGED netVars /\ TypeNet => TypeNet'
  BY DEF netVars, TypeNet
<1>10. UNCHANGED endVars /\ TypeEnd => TypeEnd'
  BY DEF endVars, TypeEnd
<1>11. UNCHANGED boundVars /\ TypeBounds => TypeBounds'
  BY DEF boundVars, TypeBounds
<1> QED BY <1>1, <1>2, <1>3, <1>4, <1>5, <1>6, <1>7, <1>8, <1>9, <1>10, <1>11

-----------------------------------------------------------------------------
(* The steps of a worker *)

BusyPcs == {"connect", "read", "write", "finish", "save", "retry"}

(* It goes on with its segment, gets lost, or reports and waits; a verdict  *)
(* on Range may go ahead of the report.                                     *)
Ahead(w, q) ==
    \/ q = events
    \/ \E n \in Nat : q = Append(events, [kind |-> "verdict", w |-> w, seg |-> worker[w].seg, n |-> n])
WorkerMove(w) ==
    \E r, q :
      /\ Bounded(r) /\ r.seg = worker[w].seg /\ worker' = [worker EXCEPT ![w] = r] /\ Ahead(w, q)
      /\ \/ r.pc \in BusyPcs \cup {"dead"} /\ events' = q
         \/ /\ r = [Off EXCEPT !.pc = "reported", !.seg = worker[w].seg]
            /\ \E kind \in Kinds \ {"verdict"}, n \in Nat :
                 /\ kind = "larger" => n \in 1 .. FileSize
                 /\ events' = Append(q, [kind |-> kind, w |-> w, seg |-> worker[w].seg, n |-> n])

(* A worker slot without a worker, and a worker that waits or is lost. *)
LEMMA OffFacts ==
  /\ Off \in WorkerRec /\ Bounded(Off) /\ Off.pc = "off" /\ Off.seg = NoSeg
  /\ \A s \in Int : \A pc \in {"reported", "dead"} :
       LET r == [Off EXCEPT !.pc = pc, !.seg = s]
       IN  r \in WorkerRec /\ Bounded(r) /\ r.pc = pc /\ r.seg = s
<1>1. 0 \in 0 .. FileSize - 1 /\ FileSize \in Nat
  BY FileAssumption
<1>2. Off \in WorkerRec /\ Off.pc = "off" /\ Off.seg = NoSeg /\ Off.base = 0 /\ Off.req = 0
      /\ Off.off = 0 /\ Off.left = 0
  BY <1>1 DEF Off, WorkerRec, NoSeg
<1>3. \A r \in WorkerRec : r.base = 0 /\ r.req = 0 /\ r.off = 0 /\ r.left = 0 => Bounded(r)
  BY <1>1 DEF Bounded
<1>4. ASSUME NEW s \in Int, NEW pc \in {"reported", "dead"}
      PROVE  LET r == [Off EXCEPT !.pc = pc, !.seg = s]
             IN  r \in WorkerRec /\ Bounded(r) /\ r.pc = pc /\ r.seg = s
  <2>1. PICK r : r = [Off EXCEPT !.pc = pc, !.seg = s]
    OBVIOUS
  <2>2. r \in WorkerRec /\ r.pc = pc /\ r.seg = s /\ r.base = 0 /\ r.req = 0 /\ r.off = 0 /\ r.left = 0
    BY <2>1, <1>1 DEF Off, WorkerRec
  <2>3. Bounded(r)
    BY <2>2, <1>3
  <2> QED BY <2>1, <2>2, <2>3
<1>5. Bounded(Off)
  BY <1>2, <1>3
<1> QED BY <1>2, <1>4, <1>5

LEMMA AppendType ==
  ASSUME NEW S, NEW q \in Seq(S), NEW e \in S
  PROVE  Append(q, e) \in Seq(S)
OBVIOUS

(* The channel keeps its type, whatever is sent ahead or reported. *)
LEMMA AheadType ==
  ASSUME TypeEvents, TypeWorker, NEW w \in Workers, NEW q, Ahead(w, q)
  PROVE  q \in Seq(EventRec)
<1>1. worker[w].seg \in Int
  BY DEF TypeWorker, WorkerRec
<1>2. \A n \in Nat : [kind |-> "verdict", w |-> w, seg |-> worker[w].seg, n |-> n] \in EventRec
  BY <1>1 DEF EventRec, Kinds
<1>3. \A n \in Nat : Append(events, [kind |-> "verdict", w |-> w, seg |-> worker[w].seg, n |-> n]) \in Seq(EventRec)
  BY <1>2, AppendType DEF TypeEvents
<1> QED BY <1>3 DEF Ahead, TypeEvents

(* A move of a worker keeps the types of workers and channel. *)
LEMMA WorkerMoveType ==
  ASSUME TypeEvents, TypeWorker, NEW w \in Workers, WorkerMove(w)
  PROVE  TypeWorker' /\ TypeEvents'
<1>1. PICK r, q :
      /\ Bounded(r) /\ r.seg = worker[w].seg /\ worker' = [worker EXCEPT ![w] = r] /\ Ahead(w, q)
      /\ \/ r.pc \in BusyPcs \cup {"dead"} /\ events' = q
         \/ /\ r = [Off EXCEPT !.pc = "reported", !.seg = worker[w].seg]
            /\ \E kind \in Kinds \ {"verdict"}, n \in Nat :
                 /\ kind = "larger" => n \in 1 .. FileSize
                 /\ events' = Append(q, [kind |-> kind, w |-> w, seg |-> worker[w].seg, n |-> n])
  BY DEF WorkerMove
<1>2. TypeWorker'
  BY <1>1 DEF TypeWorker, Bounded
<1>3. q \in Seq(EventRec) /\ worker[w].seg \in Int
  BY <1>1, AheadType DEF TypeWorker, WorkerRec
<1>4. \A kind \in Kinds, n \in Nat : (kind = "larger" => n \in 1 .. FileSize) =>
        [kind |-> kind, w |-> w, seg |-> worker[w].seg, n |-> n] \in EventRec
  BY <1>3 DEF EventRec
<1>5. TypeEvents'
  <2>1. \A kind \in Kinds, n \in Nat : (kind = "larger" => n \in 1 .. FileSize) =>
          Append(q, [kind |-> kind, w |-> w, seg |-> worker[w].seg, n |-> n]) \in Seq(EventRec)
    BY <1>3, <1>4, AppendType
  <2>2. \/ events' = q
        \/ \E kind \in Kinds, n \in Nat :
             /\ kind = "larger" => n \in 1 .. FileSize
             /\ events' = Append(q, [kind |-> kind, w |-> w, seg |-> worker[w].seg, n |-> n])
    BY <1>1
  <2>3. events' \in Seq(EventRec)
    BY <2>1, <2>2, <1>3
  <2> QED BY <2>3 DEF TypeEvents
<1> QED BY <1>2, <1>5

(* Goes on. *)
LEMMA MoveOn ==
  ASSUME NEW w \in Workers, NEW r \in WorkerRec, NEW q, Ahead(w, q), Bounded(r),
         r.seg = worker[w].seg, r.pc \in BusyPcs \cup {"dead"}, Become(w, r), events' = q
  PROVE  WorkerMove(w)
BY DEF WorkerMove, Become

(* A report is a move, ... *)
LEMMA MoveReport ==
  ASSUME TypeWorker, NEW w \in Workers, NEW q, Ahead(w, q), NEW kind \in Kinds \ {"verdict"}, NEW n \in Nat,
         kind = "larger" => n \in 1 .. FileSize, ReportAfter(q, w, kind, n)
  PROVE  WorkerMove(w)
<1>1. worker[w].seg \in Int
  BY DEF TypeWorker, WorkerRec
<1> DEFINE r == [Off EXCEPT !.pc = "reported", !.seg = worker[w].seg]
<1>2. r \in WorkerRec /\ Bounded(r) /\ r.seg = worker[w].seg
  BY <1>1, OffFacts
<1>3. worker' = [worker EXCEPT ![w] = r]
  BY DEF ReportAfter, Become
<1>4. events' = Append(q, [kind |-> kind, w |-> w, seg |-> worker[w].seg, n |-> n])
  BY DEF ReportAfter, Event
<1> HIDE DEF r
<1>5. r = [Off EXCEPT !.pc = "reported", !.seg = worker[w].seg]
  BY DEF r
<1> QED BY <1>2, <1>3, <1>4, <1>5 DEF WorkerMove

(* ... and so is what follows an error: a retry or a report. *)
LEMMA MoveRetry ==
  ASSUME TypeWorker, NEW w \in Workers, NEW q, Ahead(w, q), NEW kind \in Kinds \ {"verdict", "larger"},
         RetryOrReport(q, w, kind)
  PROVE  WorkerMove(w)
<1>1. CASE ReportAfter(q, w, kind, 0)
  BY <1>1, MoveReport
<1> DEFINE r == [worker[w] EXCEPT !.pc = "retry", !.tries = @ + 1, !.off = 0,
                                   !.kept = 0, !.left = 0, !.last = 0, !.whole = FALSE]
<1>2. CASE Become(w, r) /\ events' = q
  <2>1. worker[w] \in WorkerRec /\ Bounded(worker[w])
    BY DEF TypeWorker
  <2>2. 0 \in 0 .. FileSize - 1
    BY FileAssumption
  <2>3. r \in WorkerRec
    <3>1. worker[w].tries + 1 \in Nat
      BY <2>1 DEF WorkerRec
    <3> DEFINE k == worker[w].tries + 1
    <3>2. k \in Nat
      BY <3>1
    <3> HIDE DEF k
    <3>3. [worker[w] EXCEPT !.pc = "retry", !.tries = k, !.off = 0,
                            !.kept = 0, !.left = 0, !.last = 0, !.whole = FALSE] \in WorkerRec
      BY <2>1, <2>2, <3>2 DEF WorkerRec
    <3> QED BY <3>3 DEF k
  <2>4. r.seg = worker[w].seg /\ r.pc = "retry" /\ r.base = worker[w].base /\ r.req = worker[w].req
        /\ r.off = 0 /\ r.left = 0
    BY <2>1 DEF WorkerRec
  <2>5. Bounded(r)
    BY <2>1, <2>3, <2>4, FileAssumption DEF Bounded, WorkerRec
  <2> HIDE DEF r
  <2>6. r.pc \in BusyPcs \cup {"dead"}
    BY <2>4 DEF BusyPcs
  <2> QED BY <1>2, <2>3, <2>4, <2>5, <2>6, MoveOn
<1>3. ReportAfter(q, w, kind, 0) \/ (Become(w, r) /\ events' = q)
  BY DEF RetryOrReport
<1> QED BY <1>1, <1>2, <1>3

(* What it writes. *)
LEMMA UpdateState ==
  ASSUME TypeStates, NEW w, NEW n \in Nat, update_seg_state(w, n)
  PROVE  TypeStates' /\ DOMAIN segStates' = DOMAIN segStates
BY DEF TypeStates, update_seg_state

(* The row a worker saves keeps its range, ... *)
LEMMA UpdateRow ==
  ASSUME TypeRows, TypeWorker, NEW w \in Workers, update_segment_progress_bounded(w)
  PROVE  TypeRows' /\ Same(rows', rows)
<1> DEFINE i == worker[w].seg
           n == Smaller(worker[w].off, size(rows[i]))
<1>1. CASE i \in DOMAIN rows /\ rows[i].start = worker[w].base
  <2>1. rows' = [rows EXCEPT ![i].dl = n]
    BY <1>1 DEF update_segment_progress_bounded
  <2>2. worker[w].off \in Nat /\ rows[i] \in [start : Nat, end : 0 .. FileSize - 1, dl : Nat]
    BY <1>1 DEF TypeWorker, WorkerRec, TypeRows
  <2>3. n \in Nat
    BY <2>2 DEF Smaller, size, Larger
  <2> HIDE DEF n
  <2> QED BY <2>1, <2>3 DEF TypeRows, Same, SameRange
<1>2. CASE ~(i \in DOMAIN rows /\ rows[i].start = worker[w].base)
  <2>1. rows' = rows
    BY <1>2 DEF update_segment_progress_bounded
  <2> QED BY <2>1 DEF TypeRows, Same, SameRange
<1> QED BY <1>1, <1>2

(* ... what it flushes is in the file, ... *)
LEMMA FlushType ==
  ASSUME TypeWritten, TypeWorker, NEW w \in Workers, Flush(w)
  PROVE  TypeWritten'
<1>1. /\ worker[w].base \in Nat /\ worker[w].off \in Nat /\ worker[w].kept \in Nat /\ worker[w].left \in Nat
      /\ worker[w].base + worker[w].off + worker[w].left <= FileSize
  BY DEF TypeWorker, Bounded, WorkerRec
<1>2. worker[w].base + worker[w].kept .. worker[w].base + worker[w].off - 1 \subseteq 0 .. FileSize - 1
  BY <1>1, FileAssumption
<1> QED BY <1>2 DEF TypeWritten, Flush

(* ... and so the save before it leaves a stream keeps the types. *)
LEMMA SaveExitType ==
  ASSUME TypeOK, NEW w \in Workers, SaveExit(w)
  PROVE  /\ TypeWritten' /\ TypeStates' /\ TypeRows'
         /\ DOMAIN segStates' = DOMAIN segStates /\ Same(rows', rows)
<1>0. TypeWritten /\ TypeStates /\ TypeRows /\ TypeWorker
  BY TypeParts
<1>1. CASE worker[w].pc = "read"
  <2>1. Flush(w) /\ update_seg_state(w, worker[w].off) /\ update_segment_progress_bounded(w)
    BY <1>1 DEF SaveExit
  <2>2. worker[w].off \in Nat
    BY <1>0 DEF TypeWorker, WorkerRec
  <2> QED BY <2>1, <2>2, <1>0, UpdateState, UpdateRow, FlushType
<1>2. CASE worker[w].pc # "read"
  <2>1. UNCHANGED <<written, segStates, rows>>
    BY <1>2 DEF SaveExit
  <2> QED BY <2>1, <1>0, TypeKept DEF Same, SameRange
<1> QED BY <1>1, <1>2

WorkerStep(w) ==
    /\ TypeOK' /\ UNCHANGED <<segments, nextIndex, total, co, job, openSeg>>
    /\ worker[w].pc \in BusyPcs /\ WorkerMove(w)
    /\ DOMAIN segStates' = DOMAIN segStates /\ Same(rows', rows)

(* What makes a step of a worker one. *)
LEMMA WorkerStepIntro ==
  ASSUME TypeOK, NEW w \in Workers, worker[w].pc \in BusyPcs, WorkerMove(w),
         UNCHANGED <<planVars, co, job, modeVars>>,
         TypeStates', TypeRows', TypeWritten', TypeNet', TypeEnd', TypeBounds',
         DOMAIN segStates' = DOMAIN segStates, Same(rows', rows)
  PROVE  WorkerStep(w)
<1>1. /\ TypePlan /\ TypeWorker /\ TypeEvents /\ TypeCo /\ TypeModes
      /\ UNCHANGED planVars /\ UNCHANGED co /\ UNCHANGED job /\ UNCHANGED modeVars
  BY TypeParts
<1>2. TypeWorker' /\ TypeEvents'
  BY <1>1, WorkerMoveType
<1>3. TypePlan' /\ TypeCo' /\ TypeModes'
  BY <1>1, TypeKept
<1>4. TypeOK'
  BY <1>2, <1>3, TypePartsNext
<1> QED BY <1>1, <1>4 DEF WorkerStep, planVars, modeVars

LEMMA FaultType ==
  ASSUME TypeBounds, NEW f, Fault(f), UNCHANGED sessions
  PROVE  TypeBounds'
BY DEF TypeBounds, Fault

LEMMA SameSelf == \A R : Same(R, R)
BY DEF Same, SameRange

LEMMA WorkerType ==
  ASSUME TypeOK, NEW w \in Workers
  PROVE  /\ worker[w] \in WorkerRec /\ Bounded(worker[w]) /\ Ahead(w, events)
         /\ worker[w].base \in Nat /\ worker[w].off \in Nat /\ worker[w].from \in Nat
         /\ worker[w].req \in 0 .. FileSize - 1 /\ worker[w].last \in 0 .. FileSize - 1
         /\ worker[w].left \in Nat /\ worker[w].seg \in Int
         /\ worker[w].base <= worker[w].req
         /\ worker[w].base + worker[w].off + worker[w].left <= FileSize
         /\ worker[w].pc # "write" => worker[w].left = 0
BY TypeParts DEF TypeWorker, Bounded, WorkerRec, Ahead

(* Every action of a worker is a step of a worker. *)
LEMMA SkipSegmentStep ==
  ASSUME TypeOK, NEW w \in Workers, SkipSegment(w) PROVE WorkerStep(w)
<1>1. worker[w].pc \in BusyPcs
  BY DEF SkipSegment, BusyPcs
<1>2. worker[w].req - worker[w].base + 1 \in Nat
  BY WorkerType
<1>3. WorkerMove(w)
  BY <1>2, WorkerType, TypeParts, MoveReport DEF SkipSegment, Report, Kinds
<1>4. UNCHANGED <<planVars, co, job, modeVars>> /\ UNCHANGED segStates /\ UNCHANGED rows
      /\ UNCHANGED written /\ UNCHANGED netVars /\ UNCHANGED endVars /\ UNCHANGED boundVars
  BY DEF SkipSegment, fileVars
<1> QED BY <1>1, <1>3, <1>4, TypeParts, TypeKept, SameSelf, WorkerStepIntro

LEMMA RespondStep ==
  ASSUME TypeOK, NEW w \in Workers, Respond(w) PROVE WorkerStep(w)
<1>1. worker[w].pc \in BusyPcs
  BY DEF Respond, Connecting, BusyPcs
<1> DEFINE Answered(supports, reported, queue) ==
        /\ Ahead(w, queue)
        /\ verdict' = IF supports THEN "yes" ELSE "no"
        /\ \/ RangeNotSupported(queue, w)
           \/ ReportAfter(queue, w, "larger", reported) /\ UNCHANGED sensitive
           \/ /\ Become(w, [worker[w] EXCEPT !.pc = "read", !.off = worker[w].from,
                              !.kept = worker[w].from,
                              !.last = IF worker[w].open THEN reported - 1 ELSE worker[w].req])
              /\ events' = queue
              /\ UNCHANGED sensitive
<1>0. PICK supports \in BOOLEAN, reported \in ServerSizes : \E queue : Answered(supports, reported, queue)
  <2>1. PICK supports \in IF verdict = "unknown" THEN ServerRange ELSE {verdict = "yes"},
             reported \in {n \in ServerSizes : n >= total} :
        LET usable == supports \/ (worker[w].open /\ worker[w].base + worker[w].from = 0)
            queue == IF verdict = "unknown"
                     THEN Append(events, Event("verdict", w, IF supports THEN 1 ELSE 0))
                     ELSE events
        IN  /\ verdict' = IF supports THEN "yes" ELSE "no"
            /\ \/ ~usable /\ RangeNotSupported(queue, w)
               \/ usable /\ reported > total /\ ReportAfter(queue, w, "larger", reported)
                  /\ UNCHANGED sensitive
               \/ /\ usable /\ reported = total
                  /\ Become(w, [worker[w] EXCEPT !.pc = "read", !.off = worker[w].from,
                                  !.kept = worker[w].from,
                                  !.last = IF worker[w].open THEN reported - 1 ELSE worker[w].req])
                  /\ events' = queue
                  /\ UNCHANGED sensitive
    BY DEF Respond
  <2>2. supports \in BOOLEAN /\ reported \in ServerSizes
    BY FlagAssumption
  <2> DEFINE queue == IF verdict = "unknown"
                      THEN Append(events, Event("verdict", w, IF supports THEN 1 ELSE 0))
                      ELSE events
  <2>3. Ahead(w, queue)
    <3>1. (IF supports THEN 1 ELSE 0) \in Nat
      OBVIOUS
    <3> QED BY <3>1 DEF Ahead, Event
  <2> HIDE DEF queue
  <2>4. Answered(supports, reported, queue)
    BY <2>1, <2>3 DEF queue
  <2> QED BY ONLY <2>2, <2>4
<1>2. PICK queue : Answered(supports, reported, queue)
  BY <1>0
<1>3. reported \in 1 .. FileSize /\ reported \in Nat /\ reported - 1 \in 0 .. FileSize - 1
  BY FileAssumption
<1>4. WorkerMove(w) /\ sensitive' \in BOOLEAN
  <2>0. TypeWorker /\ sensitive \in BOOLEAN
    BY TypeParts DEF TypeNet
  <2>1. CASE RangeNotSupported(queue, w)
    <3>1. sensitive' = TRUE /\ (RetryOrReport(queue, w, "range") \/ ReportAfter(queue, w, "range", 0))
      BY <2>1 DEF RangeNotSupported
    <3>2. "range" \in Kinds \ {"verdict", "larger"}
      BY DEF Kinds
    <3> QED BY <3>1, <3>2, <2>0, <1>2, MoveReport, MoveRetry
  <2>2. CASE ReportAfter(queue, w, "larger", reported) /\ UNCHANGED sensitive
    <3>1. "larger" \in Kinds \ {"verdict"}
      BY DEF Kinds
    <3> QED BY <3>1, <2>0, <2>2, <1>2, <1>3, MoveReport
  <2> DEFINE lst == IF worker[w].open THEN reported - 1 ELSE worker[w].req
             r == [worker[w] EXCEPT !.pc = "read", !.off = worker[w].from,
                              !.kept = worker[w].from, !.last = lst]
  <2>3. CASE Become(w, r) /\ events' = queue /\ UNCHANGED sensitive
    <3>1. lst \in 0 .. FileSize - 1
      BY <1>3, WorkerType
    <3> HIDE DEF lst
    <3>2. worker[w] \in WorkerRec
      BY WorkerType
    <3>3. r \in WorkerRec /\ r.seg = worker[w].seg /\ r.pc = "read" /\ r.base = worker[w].base
          /\ r.req = worker[w].req /\ r.off = worker[w].from /\ r.left = worker[w].left
      BY <3>1, <3>2 DEF WorkerRec
    <3>4. worker[w].pc = "connect" /\ worker[w].base + worker[w].from <= worker[w].req
      BY DEF Respond, Connecting
    <3>5. Bounded(r)
      BY <3>3, <3>4, WorkerType, FileAssumption DEF Bounded
    <3> HIDE DEF r
    <3>6. r.pc \in BusyPcs \cup {"dead"}
      BY <3>3 DEF BusyPcs
    <3> QED BY <2>0, <2>3, <3>3, <3>5, <3>6, <1>2, MoveOn
  <2> QED BY <1>2, <2>1, <2>2, <2>3
<1>5. UNCHANGED <<planVars, co, job, modeVars>> /\ UNCHANGED segStates /\ UNCHANGED rows
      /\ UNCHANGED written /\ UNCHANGED <<served, verified>> /\ UNCHANGED endVars /\ UNCHANGED boundVars
  BY DEF Respond, fileVars
<1>6. TypeNet'
  BY <1>2, <1>4, <1>5, TypeParts DEF TypeNet
<1> QED BY <1>1, <1>4, <1>5, <1>6, TypeParts, TypeKept, SameSelf, WorkerStepIntro

LEMMA ReadChunkStep ==
  ASSUME TypeOK, Shared, NEW w \in Workers, ReadChunk(w) PROVE WorkerStep(w)
<1>1. worker[w].pc = "read" /\ worker[w].pc \in BusyPcs
  BY DEF ReadChunk, BusyPcs
<1>2. PICK len \in 1 .. MaxChunk :
        /\ Position(w) + len - 1 <= worker[w].last
        /\ Become(w, IF Budget(w) = 0
                     THEN [worker[w] EXCEPT !.pc = "finish", !.whole = TRUE]
                     ELSE [worker[w] EXCEPT !.pc = "write", !.left = Smaller(len, Budget(w)),
                                            !.whole = Budget(w) < len])
  BY DEF ReadChunk
<1>3. Budget(w) \in Nat
  <2>1. w \in Busy
    BY <1>1 DEF Busy
  <2>2. segStates[worker[w].seg].end \in Int
    BY <2>1, TypeParts DEF Shared, TypeStates
  <2> QED BY <2>2, WorkerType DEF Budget, Larger, Position
<1>4. len \in Nat /\ Smaller(len, Budget(w)) \in Nat /\ Smaller(len, Budget(w)) <= len
  BY <1>3, BoundAssumption DEF Smaller
<1>5. worker[w].base + worker[w].off + Smaller(len, Budget(w)) <= FileSize
  BY <1>2, <1>4, WorkerType, FileAssumption DEF Position
<1>6. worker[w] \in WorkerRec /\ worker[w].left = 0
  BY <1>1, WorkerType
<1>7. WorkerMove(w)
  <2>1. CASE Budget(w) = 0
    <3>1. PICK r : r = [worker[w] EXCEPT !.pc = "finish", !.whole = TRUE]
      OBVIOUS
    <3>2. r \in WorkerRec /\ r.seg = worker[w].seg /\ r.pc = "finish" /\ r.base = worker[w].base
          /\ r.req = worker[w].req /\ r.off = worker[w].off /\ r.left = worker[w].left
      BY <3>1, <1>6 DEF WorkerRec
    <3>3. Bounded(r) /\ r.pc \in BusyPcs \cup {"dead"}
      BY <3>2, <1>6, WorkerType DEF Bounded, BusyPcs
    <3>4. Become(w, r) /\ events' = events
      BY <2>1, <3>1, <1>2 DEF ReadChunk
    <3> QED BY <3>2, <3>3, <3>4, WorkerType, MoveOn
  <2>2. CASE Budget(w) # 0
    <3>1. PICK n : n = Smaller(len, Budget(w))
      OBVIOUS
    <3>2. PICK whole \in BOOLEAN : whole = (Budget(w) < len)
      <4>1. (Budget(w) < len) \in BOOLEAN
        BY SMT
      <4> QED BY ONLY <4>1, Zenon
    <3>3. PICK r : r = [worker[w] EXCEPT !.pc = "write", !.left = n, !.whole = whole]
      OBVIOUS
    <3>4. n \in Nat
      BY <3>1, <1>4
    <3>5. r \in WorkerRec /\ r.seg = worker[w].seg /\ r.pc = "write" /\ r.base = worker[w].base
          /\ r.req = worker[w].req /\ r.off = worker[w].off /\ r.left = n
      BY <3>2, <3>3, <3>4, <1>6 DEF WorkerRec
    <3>6. worker[w].base + worker[w].off + n <= FileSize
      BY <3>1, <1>5
    <3>7. Bounded(r) /\ r.pc \in BusyPcs \cup {"dead"}
      BY <3>5, <3>6, WorkerType DEF Bounded, BusyPcs
    <3>8. Become(w, r) /\ events' = events
      BY <2>2, <3>1, <3>2, <3>3, <1>2 DEF ReadChunk
    <3> QED BY <3>5, <3>7, <3>8, WorkerType, MoveOn
  <2> QED BY <2>1, <2>2
<1>8. UNCHANGED <<planVars, co, job, modeVars>> /\ UNCHANGED segStates /\ UNCHANGED rows
      /\ UNCHANGED written /\ UNCHANGED netVars /\ UNCHANGED endVars /\ UNCHANGED boundVars
  BY DEF ReadChunk, fileVars
<1> QED BY <1>1, <1>7, <1>8, TypeParts, TypeKept, SameSelf, WorkerStepIntro

LEMMA WriteChunkStep ==
  ASSUME TypeOK, NEW w \in Workers, WriteChunk(w) PROVE WorkerStep(w)
<1>1. worker[w].pc \in BusyPcs
  BY DEF WriteChunk, BusyPcs
<1>2. PICK off : off = worker[w].off + worker[w].left
  OBVIOUS
<1>3. off \in Nat /\ worker[w].base + off <= FileSize /\ worker[w] \in WorkerRec
  BY <1>2, WorkerType
<1>4. PICK pc : pc = IF worker[w].whole THEN "finish" ELSE "read"
  OBVIOUS
<1>5. PICK r : r = [worker[w] EXCEPT !.pc = pc, !.off = off, !.left = 0]
  OBVIOUS
<1>6. r \in WorkerRec /\ r.seg = worker[w].seg /\ r.pc = pc /\ r.base = worker[w].base
      /\ r.req = worker[w].req /\ r.off = off /\ r.left = 0
  BY <1>3, <1>4, <1>5 DEF WorkerRec
<1>7. Bounded(r) /\ r.pc \in BusyPcs \cup {"dead"}
  BY <1>3, <1>4, <1>6, WorkerType DEF Bounded, BusyPcs
<1>8. Become(w, r) /\ events' = events /\ update_seg_state(w, off)
  BY <1>2, <1>4, <1>5 DEF WriteChunk
<1>9. WorkerMove(w)
  BY <1>6, <1>7, <1>8, WorkerType, MoveOn
<1>10. TypeStates' /\ DOMAIN segStates' = DOMAIN segStates
  BY <1>3, <1>8, TypeParts, UpdateState
<1>11. UNCHANGED <<planVars, co, job, modeVars>> /\ UNCHANGED rows /\ UNCHANGED written
       /\ UNCHANGED <<verdict, sensitive, verified>> /\ served' = TRUE
       /\ UNCHANGED endVars /\ UNCHANGED boundVars
  BY DEF WriteChunk, fileVars
<1>12. TypeNet'
  BY <1>11, TypeParts DEF TypeNet
<1> QED BY <1>1, <1>9, <1>10, <1>11, <1>12, TypeParts, TypeKept, SameSelf, WorkerStepIntro

LEMMA PeriodicFlushStep ==
  ASSUME TypeOK, NEW w \in Workers, PeriodicFlush(w) PROVE WorkerStep(w)
<1>1. worker[w].pc = "read" /\ worker[w].pc \in BusyPcs
  BY DEF PeriodicFlush, BusyPcs
<1>2. PICK r : r = [worker[w] EXCEPT !.kept = worker[w].off]
  OBVIOUS
<1>3. r \in WorkerRec /\ r.seg = worker[w].seg /\ r.pc = "read" /\ r.base = worker[w].base
      /\ r.req = worker[w].req /\ r.off = worker[w].off /\ r.left = worker[w].left
  BY <1>1, <1>2, WorkerType DEF WorkerRec
<1>4. Bounded(r) /\ r.pc \in BusyPcs \cup {"dead"}
  BY <1>1, <1>3, WorkerType DEF Bounded, BusyPcs
<1>5. Become(w, r) /\ events' = events /\ Flush(w)
  BY <1>2 DEF PeriodicFlush
<1>6. WorkerMove(w)
  BY <1>3, <1>4, <1>5, WorkerType, MoveOn
<1>7. TypeWritten'
  BY <1>5, TypeParts, FlushType
<1>8. UNCHANGED <<planVars, co, job, modeVars>> /\ UNCHANGED segStates /\ UNCHANGED rows
      /\ UNCHANGED netVars /\ UNCHANGED endVars /\ UNCHANGED boundVars
  BY DEF PeriodicFlush
<1> QED BY <1>1, <1>6, <1>7, <1>8, TypeParts, TypeKept, SameSelf, WorkerStepIntro

(* A worker whose next record differs in its place only. *)
LEMMA MovePc ==
  ASSUME TypeOK, NEW w \in Workers, worker[w].left = 0, NEW pc \in BusyPcs,
         Become(w, [worker[w] EXCEPT !.pc = pc]), events' = events
  PROVE  WorkerMove(w)
<1>2. PICK r : r = [worker[w] EXCEPT !.pc = pc]
  OBVIOUS
<1>3. r \in WorkerRec /\ r.seg = worker[w].seg /\ r.pc = pc /\ r.base = worker[w].base
      /\ r.req = worker[w].req /\ r.off = worker[w].off /\ r.left = worker[w].left
  BY <1>2, WorkerType DEF WorkerRec, BusyPcs
<1>4. Bounded(r) /\ r.pc \in BusyPcs \cup {"dead"}
  BY <1>3, WorkerType DEF Bounded
<1> QED BY <1>2, <1>3, <1>4, WorkerType, MoveOn

LEMMA StreamEndStep ==
  ASSUME TypeOK, NEW w \in Workers, StreamEnd(w) PROVE WorkerStep(w)
<1>1. worker[w].pc = "read" /\ worker[w].pc \in BusyPcs
  BY DEF StreamEnd, BusyPcs
<1>2. WorkerMove(w)
  <2>1. Become(w, [worker[w] EXCEPT !.pc = "finish"]) /\ events' = events
    BY DEF StreamEnd
  <2>2. worker[w].left = 0 /\ "finish" \in BusyPcs
    BY <1>1, WorkerType DEF BusyPcs
  <2> QED BY <2>1, <2>2, MovePc
<1>3. TypeBounds'
  BY TypeParts, FaultType DEF StreamEnd, TypeBounds
<1>4. UNCHANGED <<planVars, co, job, modeVars>> /\ UNCHANGED segStates /\ UNCHANGED rows
      /\ UNCHANGED written /\ UNCHANGED netVars /\ UNCHANGED endVars
  BY DEF StreamEnd, fileVars
<1> QED BY <1>1, <1>2, <1>3, <1>4, TypeParts, TypeKept, SameSelf, WorkerStepIntro

LEMMA FinishSegmentStep ==
  ASSUME TypeOK, NEW w \in Workers, FinishSegment(w) PROVE WorkerStep(w)
<1>1. worker[w].pc = "finish" /\ worker[w].pc \in BusyPcs /\ Flush(w)
  BY DEF FinishSegment, BusyPcs
<1>2. TypeWritten' /\ TypeStates /\ TypeRows /\ TypeWorker
  BY <1>1, TypeParts, FlushType
<1>3. UNCHANGED <<planVars, co, job, modeVars>>
      /\ UNCHANGED netVars /\ UNCHANGED endVars /\ UNCHANGED boundVars
  BY DEF FinishSegment
<1>4. CASE /\ update_seg_state(w, worker[w].off) /\ update_segment_progress_bounded(w)
           /\ RetryOrReport(events, w, "fatal")
  <2>1. WorkerMove(w)
    BY <1>2, <1>4, WorkerType, MoveRetry DEF Kinds
  <2>2. TypeStates' /\ DOMAIN segStates' = DOMAIN segStates
    BY <1>2, <1>4, WorkerType, UpdateState
  <2>3. TypeRows' /\ Same(rows', rows)
    BY <1>2, <1>4, UpdateRow
  <2> QED BY <1>1, <1>2, <1>3, <2>1, <2>2, <2>3, TypeParts, TypeKept, WorkerStepIntro
<1>5. CASE /\ Become(w, [worker[w] EXCEPT !.pc = "save", !.kept = worker[w].off])
           /\ UNCHANGED <<segStates, rows, events>>
  <2>1. PICK r : r = [worker[w] EXCEPT !.pc = "save", !.kept = worker[w].off]
    OBVIOUS
  <2>2. r \in WorkerRec /\ r.seg = worker[w].seg /\ r.pc = "save" /\ r.base = worker[w].base
        /\ r.req = worker[w].req /\ r.off = worker[w].off /\ r.left = worker[w].left
    BY <2>1, WorkerType DEF WorkerRec
  <2>3. Bounded(r) /\ r.pc \in BusyPcs \cup {"dead"}
    BY <1>1, <2>2, WorkerType DEF Bounded, BusyPcs
  <2>4. WorkerMove(w)
    BY <1>5, <2>1, <2>2, <2>3, WorkerType, MoveOn
  <2> QED BY <1>1, <1>2, <1>3, <1>5, <2>4, TypeParts, TypeKept, SameSelf, WorkerStepIntro
<1> QED BY <1>4, <1>5 DEF FinishSegment

LEMMA SaveDoneStep ==
  ASSUME TypeOK, NEW w \in Workers, SaveDone(w) PROVE WorkerStep(w)
<1>1. /\ worker[w].pc \in BusyPcs
      /\ update_seg_state(w, worker[w].off) /\ update_segment_progress_bounded(w)
      /\ ReportAfter(events, w, "done", worker[w].off)
  BY DEF SaveDone, BusyPcs, Report
<1>2. TypeStates /\ TypeRows /\ TypeWorker
  BY TypeParts
<1>3. WorkerMove(w)
  BY <1>1, <1>2, WorkerType, MoveReport DEF Kinds
<1>4. TypeStates' /\ DOMAIN segStates' = DOMAIN segStates
  BY <1>1, <1>2, WorkerType, UpdateState
<1>5. TypeRows' /\ Same(rows', rows)
  BY <1>1, <1>2, UpdateRow
<1>6. UNCHANGED <<planVars, co, job, modeVars>> /\ UNCHANGED written
      /\ UNCHANGED netVars /\ UNCHANGED endVars /\ UNCHANGED boundVars
  BY DEF SaveDone
<1> QED BY <1>1, <1>3, <1>4, <1>5, <1>6, TypeParts, TypeKept, WorkerStepIntro

LEMMA RetryStep ==
  ASSUME TypeOK, NEW w \in Workers, Retry(w) PROVE WorkerStep(w)
<1> DEFINE i == worker[w].seg
           row == IF i \in DOMAIN rows THEN rows[i]
                  ELSE [start |-> worker[w].base, end |-> worker[w].req, dl |-> worker[w].from]
<1>1. worker[w].pc = "retry" /\ worker[w].pc \in BusyPcs
  BY DEF Retry, BusyPcs
<1>2. row.dl \in Nat /\ row.end \in 0 .. FileSize - 1
  <2>1. i \in DOMAIN rows => rows[i] \in [start : Nat, end : 0 .. FileSize - 1, dl : Nat]
    BY TypeParts DEF TypeRows
  <2> QED BY <2>1, WorkerType
<1>3. \/ ReportAfter(events, w, "done", row.dl)
      \/ /\ i \notin DOMAIN rows \/ worker[w].base + row.dl <= row.end
         /\ Become(w, [worker[w] EXCEPT !.pc = "connect", !.from = row.dl, !.req = row.end])
         /\ events' = events
  BY DEF Retry, Report
<1>4. row.end >= worker[w].base \/ ~(i \notin DOMAIN rows \/ worker[w].base + row.dl <= row.end)
  BY <1>2, WorkerType
<1> HIDE DEF row
<1>5. WorkerMove(w)
  <2>1. CASE ReportAfter(events, w, "done", row.dl)
    BY <2>1, <1>2, TypeParts, WorkerType, MoveReport DEF Kinds
  <2>2. CASE /\ i \notin DOMAIN rows \/ worker[w].base + row.dl <= row.end
             /\ Become(w, [worker[w] EXCEPT !.pc = "connect", !.from = row.dl, !.req = row.end])
             /\ events' = events
    <3>1. PICK r : r = [worker[w] EXCEPT !.pc = "connect", !.from = row.dl, !.req = row.end]
      OBVIOUS
    <3>2. r \in WorkerRec /\ r.seg = worker[w].seg /\ r.pc = "connect" /\ r.base = worker[w].base
          /\ r.req = row.end /\ r.off = worker[w].off /\ r.left = worker[w].left
      BY <3>1, <1>2, WorkerType DEF WorkerRec
    <3>3. row.end >= worker[w].base
      BY <2>2, <1>4
    <3>4. Bounded(r) /\ r.pc \in BusyPcs \cup {"dead"}
      BY <1>1, <3>2, <3>3, WorkerType DEF Bounded, BusyPcs
    <3> QED BY <2>2, <3>1, <3>2, <3>4, WorkerType, MoveOn
  <2> QED BY <1>3, <2>1, <2>2
<1>6. UNCHANGED <<planVars, co, job, modeVars>> /\ UNCHANGED segStates /\ UNCHANGED rows
      /\ UNCHANGED written /\ UNCHANGED netVars /\ UNCHANGED endVars /\ UNCHANGED boundVars
  BY DEF Retry, fileVars
<1> QED BY <1>1, <1>5, <1>6, TypeParts, TypeKept, SameSelf, WorkerStepIntro

(* A lost worker keeps its segment. *)
LEMMA MoveLost ==
  ASSUME TypeOK, NEW w \in Workers, Become(w, [Off EXCEPT !.pc = "dead", !.seg = worker[w].seg]),
         events' = events
  PROVE  WorkerMove(w)
<1>1. PICK r : r = [Off EXCEPT !.pc = "dead", !.seg = worker[w].seg]
  OBVIOUS
<1>2. r \in WorkerRec /\ Bounded(r) /\ r.pc = "dead" /\ r.seg = worker[w].seg
  BY <1>1, WorkerType, OffFacts
<1>3. r.pc \in BusyPcs \cup {"dead"}
  BY <1>2
<1> QED BY <1>1, <1>2, <1>3, WorkerType, MoveOn

LEMMA RejectedStep ==
  ASSUME TypeOK, NEW w \in Workers, Rejected(w) PROVE WorkerStep(w)
<1>1. worker[w].pc \in BusyPcs /\ ReportAfter(events, w, "reject", 0)
  BY DEF Rejected, Connecting, BusyPcs, Report
<1>2. WorkerMove(w)
  BY <1>1, TypeParts, WorkerType, MoveReport DEF Kinds
<1>3. TypeBounds'
  BY TypeParts, FaultType DEF Rejected
<1>4. UNCHANGED <<planVars, co, job, modeVars>> /\ UNCHANGED segStates /\ UNCHANGED rows
      /\ UNCHANGED written /\ UNCHANGED netVars /\ UNCHANGED endVars
  BY DEF Rejected, fileVars
<1> QED BY <1>1, <1>2, <1>3, <1>4, TypeParts, TypeKept, SameSelf, WorkerStepIntro

LEMMA TransientFullStep ==
  ASSUME TypeOK, NEW w \in Workers, TransientFull(w) PROVE WorkerStep(w)
<1>1. /\ worker[w].pc \in BusyPcs /\ sensitive' = TRUE
      /\ RetryOrReport(events, w, "range") \/ ReportAfter(events, w, "range", 0)
  BY DEF TransientFull, Connecting, BusyPcs, RangeNotSupported
<1>2. WorkerMove(w)
  BY <1>1, TypeParts, WorkerType, MoveReport, MoveRetry DEF Kinds
<1>3. TypeBounds'
  BY TypeParts, FaultType DEF TransientFull
<1>4. UNCHANGED <<planVars, co, job, modeVars>> /\ UNCHANGED segStates /\ UNCHANGED rows
      /\ UNCHANGED written /\ UNCHANGED <<verdict, served, verified>> /\ UNCHANGED endVars
  BY DEF TransientFull, fileVars
<1>5. TypeNet'
  BY <1>1, <1>4, TypeParts DEF TypeNet
<1> QED BY <1>1, <1>2, <1>3, <1>4, <1>5, TypeParts, TypeKept, SameSelf, WorkerStepIntro

LEMMA UnusableStep ==
  ASSUME TypeOK, NEW w \in Workers, Unusable(w) PROVE WorkerStep(w)
<1>1. worker[w].pc \in BusyPcs /\ ReportAfter(events, w, "fatal", 0)
  BY DEF Unusable, Connecting, BusyPcs, Report
<1>2. WorkerMove(w)
  BY <1>1, TypeParts, WorkerType, MoveReport DEF Kinds
<1>3. TypeBounds'
  BY TypeParts, FaultType DEF Unusable
<1>4. UNCHANGED <<planVars, co, job, modeVars>> /\ UNCHANGED segStates /\ UNCHANGED rows
      /\ UNCHANGED written /\ UNCHANGED netVars /\ UNCHANGED endVars
  BY DEF Unusable, fileVars
<1> QED BY <1>1, <1>2, <1>3, <1>4, TypeParts, TypeKept, SameSelf, WorkerStepIntro

LEMMA BrokenStep ==
  ASSUME TypeOK, NEW w \in Workers, Broken(w) PROVE WorkerStep(w)
<1>1. worker[w].pc \in BusyPcs /\ SaveExit(w) /\ RetryOrReport(events, w, "fatal")
  BY DEF Broken, Connecting, BusyPcs
<1>2. WorkerMove(w)
  BY <1>1, TypeParts, WorkerType, MoveRetry DEF Kinds
<1>3. TypeBounds'
  BY TypeParts, FaultType DEF Broken
<1>4. UNCHANGED <<planVars, co, job, modeVars>> /\ UNCHANGED netVars /\ UNCHANGED endVars
  BY DEF Broken
<1> QED BY <1>1, <1>2, <1>3, <1>4, TypeParts, TypeKept, SaveExitType, WorkerStepIntro

LEMMA NodeFailedStep ==
  ASSUME TypeOK, NEW w \in Workers, NodeFailed(w) PROVE WorkerStep(w)
<1>1. worker[w].pc \in BusyPcs /\ SaveExit(w) /\ ReportAfter(events, w, "node", 0)
  BY DEF NodeFailed, Connecting, BusyPcs, Report
<1>2. WorkerMove(w)
  BY <1>1, TypeParts, WorkerType, MoveReport DEF Kinds
<1>3. TypeBounds'
  BY TypeParts, FaultType DEF NodeFailed
<1>4. UNCHANGED <<planVars, co, job, modeVars>> /\ UNCHANGED netVars /\ UNCHANGED endVars
  BY DEF NodeFailed
<1> QED BY <1>1, <1>2, <1>3, <1>4, TypeParts, TypeKept, SaveExitType, WorkerStepIntro

LEMMA WriteErrorStep ==
  ASSUME TypeOK, NEW w \in Workers, WriteError(w) PROVE WorkerStep(w)
<1>1. worker[w].pc \in BusyPcs /\ RetryOrReport(events, w, "fatal")
  BY DEF WriteError, BusyPcs
<1>2. WorkerMove(w)
  BY <1>1, TypeParts, WorkerType, MoveRetry DEF Kinds
<1>3. TypeBounds'
  BY TypeParts, FaultType DEF WriteError
<1>4. UNCHANGED <<planVars, co, job, modeVars>> /\ UNCHANGED segStates /\ UNCHANGED rows
      /\ UNCHANGED written /\ UNCHANGED netVars /\ UNCHANGED endVars
  BY DEF WriteError, fileVars
<1> QED BY <1>1, <1>2, <1>3, <1>4, TypeParts, TypeKept, SameSelf, WorkerStepIntro

LEMMA PanicStep ==
  ASSUME TypeOK, NEW w \in Workers, Panic(w) PROVE WorkerStep(w)
<1>1. worker[w].pc \in BusyPcs
  BY DEF Panic, Connecting, BusyPcs
<1>2. WorkerMove(w)
  BY MoveLost DEF Panic
<1>3. TypeBounds'
  BY TypeParts, FaultType DEF Panic
<1>4. UNCHANGED <<planVars, co, job, modeVars>> /\ UNCHANGED segStates /\ UNCHANGED rows
      /\ UNCHANGED written /\ UNCHANGED netVars /\ UNCHANGED endVars
  BY DEF Panic, fileVars
<1> QED BY <1>1, <1>2, <1>3, <1>4, TypeParts, TypeKept, SameSelf, WorkerStepIntro

(* A worker that is told to stop, and one that is gone after the loop. *)
Gone(w) ==
    /\ TypeOK' /\ UNCHANGED <<segments, nextIndex, total, co, job, events, segStates, rows, openSeg>>
    /\ co = "drain" /\ worker[w].pc \in {"reported", "dead"}
    /\ worker' = [worker EXCEPT ![w] = Off]

LEMMA WorkerExitStep ==
  ASSUME TypeOK, NEW w \in Workers, WorkerExit(w) PROVE WorkerStep(w) \/ Gone(w)
<1>1. UNCHANGED <<planVars, co, job, modeVars>> /\ UNCHANGED events /\ UNCHANGED netVars
      /\ UNCHANGED endVars /\ UNCHANGED boundVars /\ SaveExit(w)
  BY DEF WorkerExit
<1>2. CASE co = "drain" /\ worker[w].pc \in {"reported", "dead"} /\ Become(w, Off)
  <2>1. UNCHANGED <<written, segStates, rows>>
    BY <1>1, <1>2 DEF SaveExit
  <2>2. worker' = [worker EXCEPT ![w] = Off]
    BY <1>2 DEF Become
  <2>3. TypeWorker'
    BY <2>2, TypeParts, OffFacts DEF TypeWorker
  <2>4. TypeOK'
    BY <1>1, <2>1, <2>3, TypeParts, TypeKept, TypePartsNext
  <2> QED BY <1>1, <1>2, <2>1, <2>2, <2>4 DEF Gone, planVars, modeVars
<1>3. CASE worker[w].pc \in {"connect", "read", "retry"}
           /\ Become(w, [Off EXCEPT !.pc = "dead", !.seg = worker[w].seg])
  <2>1. WorkerMove(w)
    BY <1>1, <1>3, MoveLost
  <2>2. worker[w].pc \in BusyPcs
    BY <1>3 DEF BusyPcs
  <2> QED BY <1>1, <2>1, <2>2, TypeParts, TypeKept, SaveExitType, WorkerStepIntro
<1> QED BY <1>2, <1>3 DEF WorkerExit

(* The batch of durable progress touches the rows only. *)
LEMMA FlushTickStep ==
  ASSUME TypeOK, NEW w \in Workers, FlushTick(w)
  PROVE  /\ TypeOK' /\ Same(rows', rows)
         /\ UNCHANGED <<segments, nextIndex, total, segStates, worker, events, co, job, openSeg>>
<1> DEFINE i == worker[w].seg
           n == Larger(rows[i].dl, Smaller(DurableOffset(w), Smaller(size(rows[i]), size(segments[i]))))
<1>1. i \in DOMAIN rows /\ i \in DOMAIN segments /\ rows' = [rows EXCEPT ![i].dl = n]
  BY DEF FlushTick
<1>2. rows[i] \in [start : Nat, end : 0 .. FileSize - 1, dl : Nat] /\ segments[i] \in Segment
      /\ worker[w].kept \in Nat
  BY <1>1, WorkerType DEF TypeOK, WorkerRec
<1>3. size(rows[i]) \in Nat /\ size(segments[i]) \in Nat
  BY <1>2 DEF size, Larger, Segment
<1>4. n \in Nat
  BY <1>2, <1>3 DEF DurableOffset, Smaller, Larger
<1> HIDE DEF n
<1>5. TypeRows' /\ Same(rows', rows)
  BY <1>1, <1>4, TypeParts DEF TypeRows, Same, SameRange
<1>6. UNCHANGED planVars /\ UNCHANGED segStates /\ UNCHANGED written /\ UNCHANGED worker
      /\ UNCHANGED events /\ UNCHANGED co /\ UNCHANGED job /\ UNCHANGED modeVars
      /\ UNCHANGED netVars /\ UNCHANGED endVars /\ UNCHANGED boundVars
  BY DEF FlushTick
<1>7. TypeOK'
  BY <1>5, <1>6, TypeParts, TypeKept, TypePartsNext
<1> QED BY <1>5, <1>6, <1>7 DEF planVars, modeVars

-----------------------------------------------------------------------------
(* The structure under the steps of a worker *)

(* Whoever is being answered is not at work. *)
LEMMA AnswerNotBusy ==
  ASSUME TypeOK, JobInv
  PROVE  job.w \notin Busy
<1>1. job = NoJob => job.w \notin Workers
  BY WorkerAssumption DEF NoJob
<1>2. Reported(job.w) => job.w \notin Busy
  BY DEF Reported, Busy
<1>3. job.w \in Workers \ Alive => job.w \notin Busy
  BY DEF Alive, Busy
<1>4. job.w = NoSeg => job.w \notin Workers
  BY WorkerAssumption
<1>5. CASE co \notin Handling
  BY <1>1, <1>5 DEF JobInv, Busy
<1>6. CASE co \in {"assign", "redispatch", "retire"}
  BY <1>2, <1>6 DEF JobInv
<1>7. CASE co \in {"persist", "publish"}
  <2>1. /\ job.then # "retire"
        /\ job.then \in {"assign", "redispatch", "send"} => Reported(job.w)
        /\ job.then = "fill" => job.w \in Workers \ Alive
        /\ job.then = "idle" => job.w = NoSeg
    BY <1>7 DEF JobInv
  <2>2. job.then \in {"idle", "assign", "redispatch", "send", "fill", "retire"}
    BY TypeParts DEF TypeCo, JobRec
  <2> QED BY <1>2, <1>3, <1>4, <2>1, <2>2 DEF Busy
<1>8. CASE co \in {"merge", "merged"}
  BY <1>1, <1>2, <1>8 DEF JobInv, Busy
<1> QED BY <1>5, <1>6, <1>7, <1>8 DEF Handling

(* What a step of worker w leaves to the others. *)
LEMMA MoveSeats ==
  ASSUME TypeOK, NEW w \in Workers, WorkerStep(w)
  PROVE  /\ DOMAIN worker' = Workers /\ Alive' = Alive /\ Busy' \subseteq Busy
         /\ \A v \in Workers : worker'[v].seg = worker[v].seg
         /\ \A v \in Workers : v # w => worker'[v] = worker[v]
         /\ \A v : Reported(v) => Reported(v)' /\ v # w
         /\ w \in Busy
<1>1. PICK r, q :
         /\ r.seg = worker[w].seg /\ worker' = [worker EXCEPT ![w] = r]
         /\ r.pc \in BusyPcs \cup {"dead"} \/ r = [Off EXCEPT !.pc = "reported", !.seg = worker[w].seg]
  BY DEF WorkerStep, WorkerMove
<1>2. r.pc \in BusyPcs \cup {"dead", "reported"}
  <2>1. r = [Off EXCEPT !.pc = "reported", !.seg = worker[w].seg] => r.pc = "reported"
    BY DEF Off
  <2> QED BY <1>1, <2>1
<1>3. DOMAIN worker = Workers /\ worker[w].pc \in BusyPcs
  BY TypeParts DEF TypeWorker, WorkerStep
<1>4. /\ DOMAIN worker' = Workers /\ worker'[w] = r
      /\ \A v \in Workers : v # w => worker'[v] = worker[v]
  BY <1>1, <1>3
<1>5. Alive' = Alive
  BY <1>2, <1>3, <1>4 DEF Alive, BusyPcs
<1>6. Busy' \subseteq Busy /\ w \in Busy
  BY <1>3, <1>4 DEF Busy, BusyPcs
<1>7. \A v : Reported(v) => Reported(v)' /\ v # w
  BY <1>3, <1>4 DEF Reported, BusyPcs
<1> QED BY <1>1, <1>4, <1>5, <1>6, <1>7

(* The channel holds what it held, a verdict perhaps, and the report of w. *)
LEMMA MoveEvents ==
  ASSUME TypeOK, NEW w \in Workers, WorkerStep(w), NEW k, IsReport(k)'
  PROVE  \/ IsReport(k) /\ events'[k] = events[k]
         \/ /\ k = Len(events') /\ events'[k].w = w /\ events'[k].seg = worker[w].seg
            /\ Reported(w)'
<1>1. PICK r, q :
         /\ worker' = [worker EXCEPT ![w] = r] /\ Ahead(w, q)
         /\ \/ events' = q
            \/ /\ r = [Off EXCEPT !.pc = "reported", !.seg = worker[w].seg]
               /\ \E kind \in Kinds \ {"verdict"}, n \in Nat :
                    /\ kind = "larger" => n \in 1 .. FileSize
                    /\ events' = Append(q, [kind |-> kind, w |-> w, seg |-> worker[w].seg, n |-> n])
  BY DEF WorkerStep, WorkerMove
<1>2. TypeEvents /\ TypeWorker /\ worker[w].seg \in Int /\ DOMAIN worker = Workers
  BY TypeParts, WorkerType DEF TypeWorker
<1>3. q \in Seq(EventRec) /\ events \in Seq(EventRec)
  BY <1>1, <1>2, AheadType DEF TypeEvents
<1>4. ASSUME NEW j \in 1 .. Len(q), q[j].kind # "verdict"
      PROVE  IsReport(j) /\ q[j] = events[j]
  <2>1. CASE q = events
    BY <1>4, <2>1 DEF IsReport
  <2>2. CASE q # events
    <3>1. PICK n \in Nat :
            q = Append(events, [kind |-> "verdict", w |-> w, seg |-> worker[w].seg, n |-> n])
      BY <1>1, <2>2 DEF Ahead
    <3>2. PICK e : e = [kind |-> "verdict", w |-> w, seg |-> worker[w].seg, n |-> n]
      OBVIOUS
    <3>3. e \in EventRec /\ e.kind = "verdict"
      BY <3>2, <1>2 DEF EventRec, Kinds
    <3>4. /\ Len(q) = Len(events) + 1 /\ q[Len(events) + 1] = e
          /\ \A i \in 1 .. Len(events) : q[i] = events[i]
      BY <3>1, <3>2, <3>3, <1>3, AppendProperties
    <3>5. j # Len(events) + 1
      BY <1>4, <3>3, <3>4
    <3>6. j \in 1 .. Len(events) /\ q[j] = events[j]
      BY <1>3, <3>4, <3>5, LenProperties
    <3> QED BY <1>4, <3>6 DEF IsReport
  <2> QED BY <2>1, <2>2
<1>5. CASE events' = q
  <2>1. k \in 1 .. Len(q) /\ q[k].kind # "verdict"
    BY <1>5 DEF IsReport
  <2> QED BY <1>4, <1>5, <2>1
<1>6. CASE events' # q
  <2>1. PICK kind \in Kinds \ {"verdict"}, n \in Nat :
          /\ kind = "larger" => n \in 1 .. FileSize
          /\ events' = Append(q, [kind |-> kind, w |-> w, seg |-> worker[w].seg, n |-> n])
    BY <1>1, <1>6
  <2>2. PICK e : e = [kind |-> kind, w |-> w, seg |-> worker[w].seg, n |-> n]
    OBVIOUS
  <2>3. e \in EventRec /\ e.w = w /\ e.seg = worker[w].seg
    BY <2>1, <2>2, <1>2 DEF EventRec
  <2>4. /\ Len(events') = Len(q) + 1 /\ events'[Len(q) + 1] = e
        /\ \A i \in 1 .. Len(q) : events'[i] = q[i]
    BY <2>1, <2>2, <2>3, <1>3, AppendProperties
  <2>5. Reported(w)'
    <3>1. r.pc = "reported"
      BY <1>1, <1>6 DEF Off
    <3> QED BY <3>1, <1>1, <1>2 DEF Reported
  <2>6. k \in 1 .. Len(events') /\ events'[k].kind # "verdict"
    BY DEF IsReport
  <2>7. CASE k = Len(q) + 1
    BY <2>3, <2>4, <2>5, <2>7
  <2>8. CASE k # Len(q) + 1
    <3>1. k \in 1 .. Len(q)
      BY <1>3, <2>4, <2>6, <2>8, LenProperties
    <3> QED BY <3>1, <1>4, <2>4, <2>6
  <2> QED BY <2>7, <2>8
<1> QED BY <1>5, <1>6

(* The handler in progress and the seats are as before. *)
LEMMA MoveKeepsJob ==
  ASSUME TypeOK, JobInv, NEW w \in Workers, WorkerStep(w) PROVE JobInv'
<1>1. UNCHANGED <<segments, co, job, openSeg>>
  BY DEF WorkerStep
<1>2. /\ Alive' = Alive /\ \A v \in Workers : worker'[v].seg = worker[v].seg
      /\ \A v : Reported(v) => Reported(v)'
  BY MoveSeats
<1>3. \A i : Kept(i) => Kept(i)'
  BY <1>1, <1>2 DEF Kept, HeldByOther, In, Alive
<1>4. Absorbed(segments, openSeg)' = Absorbed(segments, openSeg)
  BY <1>1 DEF Absorbed, In, Bytes
<1> QED BY <1>1, <1>2, <1>3, <1>4 DEF JobInv

LEMMA MoveKeepsHolding ==
  ASSUME TypeOK, Holding, NEW w \in Workers, WorkerStep(w) PROVE Holding'
<1>1. UNCHANGED <<segments, co, job>>
  BY DEF WorkerStep
<1>2. /\ Alive' = Alive /\ \A v \in Workers : worker'[v].seg = worker[v].seg
  BY MoveSeats
<1>3. Alive \subseteq Workers
  BY DEF Alive
<1> QED BY <1>1, <1>2, <1>3 DEF Holding, Looped, In

LEMMA MoveKeepsReports ==
  ASSUME TypeOK, JobInv, Reports, NEW w \in Workers, WorkerStep(w), Looped' PROVE Reports'
<1>1. Looped /\ job' = job
  BY DEF WorkerStep, Looped
<1>2. /\ \A v \in Workers : worker'[v].seg = worker[v].seg
      /\ \A v : Reported(v) => Reported(v)' /\ v # w
      /\ w \in Busy
  BY MoveSeats
<1>3. ASSUME NEW k, IsReport(k)'
      PROVE  \/ /\ IsReport(k) /\ events'[k] = events[k] /\ events'[k].w # w
             \/ /\ k = Len(events') /\ events'[k].w = w /\ events'[k].seg = worker[w].seg
                /\ Reported(w)'
  BY <1>1, <1>2, <1>3, MoveEvents DEF Reports, Standing, Reported
<1>4. ASSUME NEW k, IsReport(k)' PROVE Standing(k)'
  <2>1. CASE IsReport(k) /\ events'[k] = events[k]
    <3>1. /\ Reported(events[k].w) /\ worker[events[k].w].seg = events[k].seg
          /\ events[k].w # job.w
      BY <1>1, <2>1 DEF Reports, Standing
    <3>2. events[k].w \in Workers
      BY <3>1 DEF Reported
    <3>3. worker'[events[k].w].pc = "reported"
      BY <3>1, <1>2 DEF Reported
    <3> QED BY <1>1, <1>2, <2>1, <3>1, <3>2, <3>3 DEF Standing, Reported
  <2>2. CASE events'[k].w = w /\ events'[k].seg = worker[w].seg /\ Reported(w)'
    <3>1. w # job.w
      BY <1>2, AnswerNotBusy
    <3> QED BY <1>1, <1>2, <2>2, <3>1 DEF Standing, Reported
  <2> QED BY <1>3, <1>4, <2>1, <2>2
<1>5. ASSUME NEW k, NEW l, IsReport(k)', IsReport(l)', k # l
      PROVE  events'[k].w # events'[l].w
  <2>1. CASE IsReport(k) /\ events'[k] = events[k] /\ IsReport(l) /\ events'[l] = events[l]
    BY <1>1, <1>5, <2>1 DEF Reports
  <2> QED BY <1>3, <1>5, <2>1
<1> QED BY <1>4, <1>5 DEF Reports

LEMMA MoveKeepsShared ==
  ASSUME TypeOK, Shared, NEW w \in Workers, WorkerStep(w) PROVE Shared'
<1>1. /\ Busy' \subseteq Busy /\ Alive' = Alive /\ w \in Busy
      /\ \A v \in Workers : worker'[v].seg = worker[v].seg
  BY MoveSeats
<1>2. co' = co /\ segments' = segments /\ DOMAIN segStates' = DOMAIN segStates
  BY DEF WorkerStep
<1>3. \A v \in Workers : worker'[v].pc = "off" => worker'[v].seg = NoSeg
  BY <1>1 DEF Alive, Shared
<1>4. \A v \in Busy' : worker'[v].seg \in DOMAIN segStates'
  BY <1>1, <1>2 DEF Busy, Shared
<1>5. co # "down"
  <2>1. co = "down" => worker[w].pc = "off"
    BY DEF Shared, Off
  <2> QED BY <1>1, <2>1 DEF Busy
<1> QED BY <1>2, <1>3, <1>4, <1>5 DEF Shared

(* A step of a worker keeps the invariant, ... *)
LEMMA WorkerStepInv ==
  ASSUME IInv, NEW w \in Workers, WorkerStep(w) PROVE IInv'
<1>1. TypeOK' /\ UNCHANGED <<segments, total, co>>
  BY DEF WorkerStep
<1>2. PlanCovers'
  BY <1>1 DEF IInv, PlanCovers, validate_coverage, Bytes
<1>3. Reports'
  BY MoveKeepsReports DEF IInv, Reports
<1> QED BY <1>1, <1>2, <1>3, MoveKeepsJob, MoveKeepsHolding, MoveKeepsShared DEF IInv

(* ... and so does the end of one. *)
LEMMA GoneInv ==
  ASSUME IInv, NEW w \in Workers, Gone(w) PROVE IInv'
<1>1. /\ TypeOK' /\ UNCHANGED <<segments, total, co, job, events, segStates>> /\ co = "drain"
      /\ worker' = [worker EXCEPT ![w] = Off]
  BY DEF Gone
<1>2. PlanCovers'
  BY <1>1 DEF IInv, PlanCovers, validate_coverage, Bytes
<1>3. JobInv'
  BY <1>1 DEF IInv, JobInv, Handling
<1>4. Holding' /\ Reports'
  BY <1>1 DEF Holding, Reports, Looped
<1>5. Shared'
  <2>1. DOMAIN worker = Workers
    BY TypeParts DEF IInv, TypeWorker
  <2>2. Off.pc = "off" /\ Off.seg = NoSeg
    BY OffFacts
  <2>3. \A v \in Workers : worker'[v] = IF v = w THEN Off ELSE worker[v]
    BY <1>1, <2>1
  <2>4. \A v \in Workers : worker'[v].pc = "off" => worker'[v].seg = NoSeg
    BY <2>2, <2>3 DEF IInv, Shared
  <2>5. \A v \in Busy' : v \in Busy /\ worker'[v] = worker[v]
    BY <2>2, <2>3 DEF Busy
  <2> QED BY <1>1, <2>4, <2>5 DEF IInv, Shared
<1> QED BY <1>1, <1>2, <1>3, <1>4, <1>5 DEF IInv

(* A step that leaves the structure alone. *)
LEMMA StructureKept ==
  ASSUME IInv, TypeOK', UNCHANGED <<segments, total, segStates, worker, events, co, job, openSeg>>
  PROVE  IInv'
<1>1. PlanCovers'
  BY DEF IInv, PlanCovers, validate_coverage, Bytes
<1>2. Alive' = Alive /\ Busy' = Busy /\ In(segments, "Active")' = In(segments, "Active")
  BY DEF Alive, Busy, In
<1>3. Absorbed(segments, openSeg)' = Absorbed(segments, openSeg)
  BY DEF Absorbed, In, Bytes
<1>4. \A i : (Kept(i) => Kept(i)') /\ (Reported(i) => Reported(i)')
  BY <1>2 DEF Kept, HeldByOther, Reported
<1>5. JobInv'
  BY <1>2, <1>3, <1>4 DEF IInv, JobInv
<1>6. Holding'
  BY <1>2 DEF IInv, Holding, Looped
<1>7. Reports'
  BY DEF IInv, Reports, Looped, IsReport, Standing, Reported
<1>8. Shared'
  BY <1>2 DEF IInv, Shared
<1> QED BY <1>1, <1>5, <1>6, <1>7, <1>8 DEF IInv

(* All the steps of the workers. *)
LEMMA WorkersInv ==
  ASSUME IInv, NEW w \in Workers, Worker(w) \/ Trouble(w) \/ PeriodicFlush(w) \/ FlushTick(w)
  PROVE  IInv'
<1>0. TypeOK /\ Shared
  BY DEF IInv
<1>1. CASE Worker(w)
  <2>1. WorkerStep(w) \/ Gone(w)
    BY <1>0, <1>1, SkipSegmentStep, RespondStep, ReadChunkStep, WriteChunkStep, StreamEndStep,
       FinishSegmentStep, SaveDoneStep, RetryStep, WorkerExitStep DEF Worker
  <2> QED BY <2>1, WorkerStepInv, GoneInv
<1>2. CASE Trouble(w)
  <2>1. WorkerStep(w)
    BY <1>0, <1>2, RejectedStep, TransientFullStep, UnusableStep, BrokenStep, NodeFailedStep,
       WriteErrorStep, PanicStep DEF Trouble
  <2> QED BY <2>1, WorkerStepInv
<1>3. CASE PeriodicFlush(w)
  BY <1>0, <1>3, PeriodicFlushStep, WorkerStepInv
<1>4. CASE FlushTick(w)
  BY <1>0, <1>4, FlushTickStep, StructureKept
<1> QED BY <1>1, <1>2, <1>3, <1>4

-----------------------------------------------------------------------------
(* The steps of the coordinator: what they share *)

(* The work found becomes the plan. *)
LEMMA FoundPlan ==
  ASSUME nextIndex \in Nat, NEW S, PlanType(S, nextIndex), NEW t \in Nat, validate_coverage(S, t),
         NEW nw, NEW state \in {"Pending", "Active"},
         (Picked(S, nw) /\ state = "Active") \/ Cut(S, nw, state),
         nextIndex' = IF nw.parent = NoSeg THEN nextIndex ELSE nextIndex + 1
  PROVE  /\ nextIndex' \in Nat /\ PlanType(nw.segs, nextIndex') /\ validate_coverage(nw.segs, t)
         /\ nw.child \in Nat /\ nw.parent \in Int
         /\ nw.child \in DOMAIN nw.segs /\ nw.segs[nw.child].state = state
         /\ nw.parent = NoSeg \/ nw.parent \in DOMAIN nw.segs
         /\ nw.child \notin In(S, "Active")
         /\ In(S, "Active") \subseteq In(nw.segs, "Active")
<1>1. CASE Picked(S, nw) /\ state = "Active"
  <2>1. /\ PlanType(nw.segs, nextIndex) /\ Same(nw.segs, S)
        /\ nw.child \in DOMAIN S /\ nw.parent = NoSeg
        /\ \A i \in DOMAIN S : nw.segs[i].state = IF i = nw.child THEN "Active" ELSE S[i].state
        /\ S[nw.child].state = "Pending"
    BY <1>1, PickedPlan
  <2>2. validate_coverage(nw.segs, t)
    BY <2>1, CoverSame
  <2>3. DOMAIN nw.segs = DOMAIN S
    BY <2>1 DEF Same
  <2>4. nw.child \in Nat /\ nw.parent \in Int /\ nextIndex' = nextIndex
    BY <2>1 DEF PlanType, NoSeg
  <2> QED BY <1>1, <2>1, <2>2, <2>3, <2>4 DEF In
<1>2. CASE Cut(S, nw, state)
  <2>1. PICK cut \in Nat : CutAt(S, nw, state, cut)
    BY <1>2 DEF Cut
  <2>2. /\ PlanType(nw.segs, nextIndex + 1) /\ Halved(S, nw.segs, nw.parent, nw.child, cut)
        /\ nw.child = nextIndex /\ nw.parent \in In(S, "Active") /\ nw.parent # NoSeg
        /\ nw.segs[nw.child].state = state
        /\ \A i \in DOMAIN S : nw.segs[i].state = S[i].state
    <3>1. /\ PlanType(nw.segs, nextIndex + 1) /\ Halved(S, nw.segs, nw.parent, nw.child, cut)
          /\ nw.child = nextIndex
      BY <2>1, CutPlan
    <3>2. nw.parent \in In(S, "Active") /\ nw.parent # NoSeg
      BY <2>1, CutPlan
    <3>3. nw.segs[nw.child].state = state
      BY <2>1, CutPlan
    <3>4. \A i \in DOMAIN S : nw.segs[i].state = S[i].state
      BY <2>1, CutPlan
    <3> QED BY <3>1, <3>2, <3>3, <3>4
  <2>3. validate_coverage(nw.segs, t)
    BY <2>2, PlanRanges, CoverHalved
  <2>4. /\ DOMAIN nw.segs = DOMAIN S \cup {nw.child} /\ nw.child \notin DOMAIN S
    BY <2>2 DEF Halved
  <2>5. nw.child \in Nat /\ nw.parent \in Int /\ nextIndex' = nextIndex + 1 /\ nextIndex + 1 \in Nat
    BY <2>2 DEF PlanType, In
  <2>6. nw.segs[nw.child].state = state
    BY <2>2
  <2> QED BY <2>2, <2>3, <2>4, <2>5, <2>6 DEF In
<1> QED BY <1>1, <1>2

LEMMA NoJobType == NoJob \in JobRec /\ NoJob.w = NoSeg /\ NoSeg \in Int
BY DEF NoJob, JobRec, NoSeg, Kinds

(* The work found goes to be persisted. *)
LEMMA DispatchType ==
  ASSUME NEW w \in Workers \cup {NoSeg}, NEW nw, nw.child \in Int, nw.parent \in Int,
         NEW then \in {"idle", "send", "fill"}, NEW plain \in BOOLEAN, Dispatch(w, nw, then, plain)
  PROVE  /\ TypeCo' /\ job'.w = w /\ job'.child = nw.child /\ job'.parent = nw.parent
         /\ job'.then = then /\ job'.plain = plain /\ co' = "persist" /\ UNCHANGED <<worker, err>>
         /\ segments' = nw.segs /\ nextIndex' = IF nw.parent = NoSeg THEN nextIndex ELSE nextIndex + 1
<1>1. PICK child \in Int : child = nw.child
  OBVIOUS
<1>2. PICK parent \in Int : parent = nw.parent
  OBVIOUS
<1>3. job' = [NoJob EXCEPT !.w = w, !.child = child, !.parent = parent, !.then = then, !.plain = plain]
  BY <1>1, <1>2 DEF Dispatch
<1>4. /\ job' \in JobRec /\ job'.w = w /\ job'.child = child /\ job'.parent = parent
      /\ job'.then = then /\ job'.plain = plain
  BY <1>3, NoJobType DEF JobRec
<1> QED BY <1>1, <1>2, <1>4 DEF Dispatch, TypeCo

(* Reports that stay. *)
LEMMA ReportsSame ==
  ASSUME TypeOK, Looped, Reports, UNCHANGED events,
         \A v : Reported(v) /\ v # job.w => worker'[v] = worker[v],
         job'.w = job.w \/ ~Reported(job'.w)
  PROVE  Reports'
<1>1. ASSUME NEW k, IsReport(k)' PROVE IsReport(k) /\ Standing(k)'
  <2>1. IsReport(k)
    BY <1>1 DEF IsReport
  <2>2. Standing(k)
    BY <2>1 DEF Reports
  <2>3. Reported(events[k].w) /\ events[k].w # job.w /\ worker[events[k].w].seg = events[k].seg
    BY <2>2 DEF Standing
  <2>4. worker'[events[k].w] = worker[events[k].w]
    BY <2>3
  <2>5. events[k].w # job'.w
    BY <2>3
  <2> QED BY <2>1, <2>3, <2>4, <2>5 DEF Standing, Reported
<1> QED BY <1>1 DEF Reports

(* Seats that stay. *)
LEMMA HoldingSame ==
  ASSUME Looped, Holding,
         \A v \in Alive' \ {job'.w} : /\ v \in Alive \ {job.w} /\ worker'[v].seg = worker[v].seg
                                      /\ worker[v].seg \in In(segments', "Active")
  PROVE  Holding'
<1>1. \A v \in Alive' \ {job'.w} : worker'[v].seg \in In(segments, "Active")'
  OBVIOUS
<1> QED BY <1>1 DEF Holding

(* The first event, when it is a report: of whom, about what. *)
LEMMA TakeFacts ==
  ASSUME IInv, NEW kind, Take(kind)
  PROVE  /\ Looped /\ co = "idle" /\ ~cancelled /\ job = NoJob /\ Head1 \in EventRec /\ Head1.kind = kind
         /\ TypeEvents'
         /\ kind # "verdict" =>
              /\ Reported(Head1.w) /\ worker[Head1.w].seg = Head1.seg
              /\ Head1.seg \in In(segments, "Active")
              /\ \A v \in Alive \ {Head1.w} : worker[v].seg # Head1.seg
         /\ \A k : IsReport(k)' => /\ IsReport(k + 1) /\ events'[k] = events[k + 1] /\ k \in Nat
                                   /\ kind # "verdict" => events[k + 1].w # Head1.w
<1>1. co = "idle" /\ ~cancelled /\ events # <<>> /\ Head1.kind = kind /\ events' = Tail(events)
  BY DEF Take, Looping
<1>2. Looped /\ job = NoJob
  BY <1>1 DEF Looped, IInv, JobInv, Handling
<1>3. events \in Seq(EventRec)
  BY TypeParts DEF IInv, TypeEvents
<1>4. /\ Head1 \in EventRec /\ events' \in Seq(EventRec) /\ Len(events') = Len(events) - 1
      /\ \A i \in 1 .. Len(events') : events'[i] = events[i + 1]
  BY <1>1, <1>3, HeadTailProperties DEF Head1
<1>5. Len(events) \in Nat /\ Len(events) > 0 /\ Head1 = events[1]
  BY <1>1, <1>3 DEF Head1
<1>6. kind # "verdict" => IsReport(1)
  BY <1>1, <1>5 DEF IsReport
<1>7. ASSUME kind # "verdict"
      PROVE  /\ Reported(Head1.w) /\ worker[Head1.w].seg = Head1.seg
             /\ Head1.seg \in In(segments, "Active")
             /\ \A v \in Alive \ {Head1.w} : worker[v].seg # Head1.seg
  <2>1. Standing(1)
    BY <1>2, <1>6, <1>7 DEF IInv, Reports
  <2>2. Reported(Head1.w) /\ worker[Head1.w].seg = Head1.seg
    BY <2>1, <1>5 DEF Standing
  <2>3. Head1.w \in Alive /\ Alive \ {job.w} = Alive
    BY <2>2, <1>2, NoJobType, WorkerAssumption DEF Reported, Alive
  <2> QED BY <2>2, <2>3, <1>2 DEF IInv, Holding
<1>8. ASSUME NEW k, IsReport(k)'
      PROVE  /\ IsReport(k + 1) /\ events'[k] = events[k + 1] /\ k \in Nat
             /\ kind # "verdict" => events[k + 1].w # Head1.w
  <2>1. k \in 1 .. Len(events') /\ events'[k].kind # "verdict"
    BY <1>8 DEF IsReport
  <2>2. k + 1 \in 1 .. Len(events) /\ events'[k] = events[k + 1] /\ k \in Nat
    BY <2>1, <1>4, <1>5
  <2>3. IsReport(k + 1) /\ k + 1 # 1
    BY <2>1, <2>2 DEF IsReport
  <2> QED BY <2>2, <2>3, <1>2, <1>5, <1>6 DEF IInv, Reports
<1> QED BY <1>1, <1>2, <1>4, <1>7, <1>8 DEF TypeEvents

LEMMA ReportsTaken ==
  ASSUME IInv, NEW kind, Take(kind), UNCHANGED worker,
         job'.w = NoSeg \/ (kind # "verdict" /\ job'.w = Head1.w)
  PROVE  Reports'
<1>0. Looped /\ Reports
  BY TakeFacts DEF IInv
<1>1. ASSUME NEW k, IsReport(k)'
      PROVE  IsReport(k + 1) /\ events'[k] = events[k + 1] /\ k \in Nat /\ Standing(k)'
  <2>1. /\ IsReport(k + 1) /\ events'[k] = events[k + 1] /\ k \in Nat
        /\ kind # "verdict" => events[k + 1].w # Head1.w
    BY <1>1, TakeFacts
  <2>2. Standing(k + 1)
    BY <1>0, <2>1 DEF Reports
  <2>3. Reported(events[k + 1].w) /\ events[k + 1].w \in Workers /\ worker[events[k + 1].w].seg = events[k + 1].seg
    BY <2>2 DEF Standing, Reported
  <2>4. events[k + 1].w # job'.w
    BY <2>1, <2>3, WorkerAssumption
  <2> QED BY <2>1, <2>3, <2>4 DEF Standing, Reported
<1>2. ASSUME NEW k, NEW l, IsReport(k)', IsReport(l)', k # l PROVE events'[k].w # events'[l].w
  <2>1. k + 1 # l + 1
    BY <1>1, <1>2
  <2> QED BY <1>0, <1>1, <1>2, <2>1 DEF Reports
<1> QED BY <1>1, <1>2 DEF Reports

(* Whoever is left when the loop has ended. *)
LEMMA DrainInv ==
  ASSUME IInv, TypeOK', PlanCovers', co' = "drain", job' = NoJob, segStates' = segStates,
         \A v \in Workers : worker'[v] = worker[v] \/ worker'[v] = Off
  PROVE  IInv'
<1>1. JobInv' /\ Holding' /\ Reports'
  BY DEF JobInv, Holding, Reports, Handling, Looped
<1>2. Off.pc = "off" /\ Off.seg = NoSeg
  BY OffFacts
<1>3. \A v \in Busy' : v \in Busy /\ worker'[v] = worker[v]
  BY <1>2 DEF Busy
<1>4. Shared'
  BY <1>2, <1>3 DEF IInv, Shared
<1> QED BY <1>1, <1>4 DEF IInv

-----------------------------------------------------------------------------
(* The steps of the coordinator: events *)

LEMMA ReporterType ==
  ASSUME Head1 \in EventRec
  PROVE  /\ Reporter \in JobRec /\ Reporter.w = Head1.w /\ Reporter.seg = Head1.seg
         /\ Reporter.child = NoSeg /\ Reporter.parent = NoSeg /\ Reporter.then = "idle"
         /\ Head1.w \in Workers /\ Head1.seg \in Int /\ Head1.n \in Nat
<1>1. PICK w \in Workers, seg \in Int, kind \in Kinds :
        w = Head1.w /\ seg = Head1.seg /\ kind = Head1.kind
  BY DEF EventRec
<1>2. Head1.n \in Nat
  BY DEF EventRec
<1>3. PICK r : r = [NoJob EXCEPT !.w = w, !.seg = seg, !.kind = kind]
  OBVIOUS
<1>4. Reporter = r
  BY <1>1, <1>3 DEF Reporter
<1>5. /\ r \in JobRec /\ r.w = w /\ r.seg = seg
      /\ r.child = NoJob.child /\ r.parent = NoJob.parent /\ r.then = NoJob.then
  BY <1>3, NoJobType DEF JobRec
<1>6. NoJob.child = NoSeg /\ NoJob.parent = NoSeg /\ NoJob.then = "idle"
  BY DEF NoJob
<1> QED BY <1>1, <1>2, <1>4, <1>5, <1>6

(* A segment changes its state. *)
LEMMA Restated ==
  ASSUME NEW S, NEW n, PlanType(S, n), NEW i \in DOMAIN S, NEW state \in {"Pending", "Active", "Completed"}
  PROVE  LET T == [S EXCEPT ![i].state = state]
         IN  /\ PlanType(T, n) /\ Same(T, S) /\ T[i].state = state /\ T[i].dl = S[i].dl
             /\ \A j \in DOMAIN S : j # i => T[j] = S[j]
<1>1. PICK T : T = [S EXCEPT ![i].state = state]
  OBVIOUS
<1>2. DOMAIN T = DOMAIN S /\ T[i] = [S[i] EXCEPT !.state = state]
      /\ \A j \in DOMAIN S : j # i => T[j] = S[j]
  BY <1>1
<1>3. \A j \in DOMAIN S : S[j] \in Segment
  BY DEF PlanType
<1>4. T[i] \in Segment /\ SameRange(T[i], S[i]) /\ T[i].state = state /\ T[i].dl = S[i].dl
  BY <1>2, <1>3 DEF Segment, SameRange
<1>5. PlanType(T, n)
  BY <1>2, <1>3, <1>4 DEF PlanType
<1>6. Same(T, S)
  BY <1>2, <1>4 DEF Same, SameRange
<1> QED BY <1>1, <1>2, <1>4, <1>5, <1>6

(* A handler that answers a report: the others keep their seats. *)
LEMMA TakenSeats ==
  ASSUME IInv, NEW kind, Take(kind), kind # "verdict", UNCHANGED <<worker, segStates>>, job'.w = Head1.w,
         co' # "down",
         \A i \in In(segments, "Active") \ {Head1.seg} : i \in In(segments', "Active")
  PROVE  /\ Holding' /\ Reports' /\ Shared' /\ Reported(job.w)'
         /\ job'.seg = Head1.seg /\ Head1.seg \in In(segments', "Active") => Kept(job.seg)'
<1>1. /\ Looped /\ job = NoJob
      /\ Reported(Head1.w) /\ worker[Head1.w].seg = Head1.seg
      /\ \A v \in Alive \ {Head1.w} : worker[v].seg # Head1.seg
  BY TakeFacts
<1>2. Reports'
  BY ReportsTaken
<1>3. Alive' = Alive /\ Busy' = Busy /\ Alive \subseteq Workers
  BY DEF Alive, Busy
<1>4. Shared'
  BY <1>3 DEF IInv, Shared
<1>5. Reported(job.w)'
  BY <1>1 DEF Reported
<1>6. Alive \ {job.w} = Alive
  BY <1>1, <1>3, NoJobType, WorkerAssumption
<1>7. \A v \in Alive \ {Head1.w} : worker[v].seg \in In(segments', "Active")
  BY <1>1, <1>6 DEF IInv, Holding
<1>8. Holding'
  BY <1>1, <1>3, <1>6, <1>7, HoldingSame DEF IInv
<1>9. job'.seg = Head1.seg /\ Head1.seg \in In(segments', "Active") => Kept(job.seg)'
  BY <1>1, <1>3 DEF Kept, HeldByOther, Alive
<1> QED BY <1>2, <1>4, <1>5, <1>8, <1>9

LEMMA CloseStreamType ==
  ASSUME TypeModes, Head1 \in EventRec, CloseStream PROVE openSeg' \in Int
BY NoJobType DEF CloseStream, TypeModes

(* The handlers that end with the event. *)
LEMMA HandleNodeInv ==
  ASSUME IInv, HandleNode PROVE IInv'
<1>1. /\ Take("node") /\ CloseStream /\ job' = Reporter /\ co' = "redispatch"
      /\ UNCHANGED planVars /\ UNCHANGED segStates /\ UNCHANGED rows /\ UNCHANGED written /\ UNCHANGED worker
      /\ UNCHANGED <<allowed, serial, strikes, expansions>>
      /\ UNCHANGED netVars /\ UNCHANGED endVars /\ UNCHANGED boundVars
  BY DEF HandleNode, fileVars
<1>2. /\ Looped /\ Head1 \in EventRec /\ TypeEvents' /\ Head1.seg \in In(segments, "Active")
  BY <1>1, TakeFacts
<1>3. job' \in JobRec /\ job'.w = Head1.w /\ job'.seg = Head1.seg
  BY <1>1, <1>2, ReporterType
<1>4. TypeOK'
  <2>0. TypePlan /\ TypeStates /\ TypeRows /\ TypeWritten /\ TypeWorker /\ TypeModes
        /\ TypeNet /\ TypeEnd /\ TypeBounds
    BY TypeParts DEF IInv
  <2>1. TypeModes'
    BY <2>0, <1>1, <1>2, CloseStreamType DEF TypeModes
  <2>2. TypeCo'
    BY <1>1, <1>3 DEF TypeCo
  <2> QED BY <1>1, <1>2, <2>0, <2>1, <2>2, TypeKept, TypePartsNext
<1>5. segments' = segments /\ total' = total
  BY <1>1 DEF planVars
<1>6. PlanCovers'
  BY <1>2, <1>5 DEF IInv, PlanCovers, Looped
<1>7. Holding' /\ Reports' /\ Shared' /\ Reported(job.w)' /\ Kept(job.seg)'
  BY <1>1, <1>2, <1>3, <1>5, TakenSeats
<1>8. JobInv'
  BY <1>1, <1>7 DEF JobInv, Handling
<1> QED BY <1>4, <1>6, <1>7, <1>8 DEF IInv

LEMMA HandleFatalInv ==
  ASSUME IInv, HandleFatal PROVE IInv'
<1>1. PICK kind \in {"fatal", "reject", "range"} : Take(kind)
  BY DEF HandleFatal
<1>2. /\ CloseStream /\ segments' = [segments EXCEPT ![Head1.seg].state = "Pending"]
      /\ cancelled' = TRUE /\ co' = "drain" /\ job' = NoJob /\ err' \in {"fallback", "error"}
      /\ UNCHANGED <<nextIndex, total>> /\ UNCHANGED segStates /\ UNCHANGED rows /\ UNCHANGED written
      /\ UNCHANGED worker /\ UNCHANGED <<allowed, serial, strikes, expansions>>
      /\ UNCHANGED netVars /\ UNCHANGED result /\ UNCHANGED boundVars
  BY DEF HandleFatal, Break, fileVars
<1>3. /\ Looped /\ Head1 \in EventRec /\ TypeEvents' /\ Head1.seg \in DOMAIN segments
  BY <1>1, TakeFacts DEF In
<1>4. /\ TypePlan /\ TypeStates /\ TypeRows /\ TypeWritten /\ TypeWorker /\ TypeModes
      /\ TypeNet /\ TypeEnd /\ TypeBounds
  BY TypeParts DEF IInv
<1>5. PlanType(segments', nextIndex) /\ Same(segments', segments)
  BY <1>2, <1>3, <1>4, Restated DEF TypePlan
<1>6. TypeOK'
  <2>1. TypeModes'
    BY <1>2, <1>3, <1>4, CloseStreamType DEF TypeModes
  <2>2. TypeCo'
    BY <1>2, NoJobType DEF TypeCo
  <2>3. TypePlan'
    BY <1>2, <1>4, <1>5 DEF TypePlan
  <2>4. TypeEnd'
    BY <1>2, <1>4 DEF TypeEnd
  <2> QED BY <1>2, <1>3, <1>4, <2>1, <2>2, <2>3, <2>4, TypeKept, TypePartsNext
<1>7. PlanCovers'
  <2>1. validate_coverage(segments', total)
    BY <1>3, <1>4, <1>5, CoverSame DEF IInv, PlanCovers, Looped, TypePlan
  <2> QED BY <1>2, <2>1 DEF PlanCovers
<1> QED BY <1>2, <1>6, <1>7, DrainInv

LEMMA HandleVerdictInv ==
  ASSUME IInv, HandleVerdict PROVE IInv'
<1>1. /\ Take("verdict")
      /\ UNCHANGED <<nextIndex, total>> /\ UNCHANGED segStates /\ UNCHANGED rows /\ UNCHANGED written
      /\ UNCHANGED worker /\ UNCHANGED <<allowed, serial, strikes, expansions>> /\ UNCHANGED <<verdict, served>>
      /\ UNCHANGED endVars /\ UNCHANGED boundVars
      /\ UNCHANGED <<segments, job, openSeg>>
      /\ co' = co \/ co' = IF Absorbed(segments, openSeg) = {} THEN "idle" ELSE "merge"
      /\ sensitive' \in {TRUE, sensitive} /\ verified' \in {TRUE, verified}
  BY DEF HandleVerdict, Absorb, fileVars
<1>2. Looped /\ co = "idle" /\ job = NoJob /\ TypeEvents'
  BY <1>1, TakeFacts
<1>3. /\ TypePlan /\ TypeStates /\ TypeRows /\ TypeWritten /\ TypeWorker /\ TypeModes
      /\ TypeNet /\ TypeEnd /\ TypeBounds /\ TypeCo
  BY TypeParts DEF IInv
<1>4. co' \in {"idle", "merge"} /\ (co' = "merge" => Absorbed(segments, openSeg) # {})
  BY <1>1, <1>2
<1>5. TypeOK'
  <2>1. TypeNet'
    BY <1>1, <1>3 DEF TypeNet
  <2>2. TypeCo'
    BY <1>1, <1>3, <1>4 DEF TypeCo
  <2>3. UNCHANGED planVars /\ UNCHANGED modeVars
    BY <1>1 DEF planVars, modeVars
  <2> QED BY <1>1, <1>2, <1>3, <2>1, <2>2, <2>3, TypeKept, TypePartsNext
<1>6. PlanCovers'
  BY <1>1, <1>2 DEF IInv, PlanCovers
<1>7. Reports'
  BY <1>1, <1>2, NoJobType, ReportsTaken
<1>8. Alive' = Alive /\ Busy' = Busy
  BY <1>1 DEF Alive, Busy
<1>9. Holding'
  BY <1>1, <1>2, <1>8 DEF IInv, Holding
<1>10. Shared'
  BY <1>1, <1>2, <1>4, <1>8 DEF IInv, Shared
<1>11. JobInv'
  <2>1. Absorbed(segments, openSeg)' = Absorbed(segments, openSeg)
    BY <1>1 DEF Absorbed, In, Bytes
  <2>2. job' = NoJob /\ job'.then = "idle"
    BY <1>1, <1>2 DEF NoJob
  <2> QED BY <1>4, <2>1, <2>2 DEF JobInv, Handling
<1> QED BY <1>5, <1>6, <1>7, <1>9, <1>10, <1>11 DEF IInv

(* Half of the connections, at least one. *)
LEMMA HalfAllowed ==
  ASSUME TypeModes
  PROVE  Larger(Cardinality(Alive) \div 2, 1) \in 1 .. Cardinality(Workers)
<1>1. IsFiniteSet(Workers) /\ Alive \subseteq Workers
  BY WorkerAssumption DEF Alive
<1>2. Cardinality(Alive) \in Nat /\ Cardinality(Workers) \in Nat /\ Cardinality(Alive) <= Cardinality(Workers)
  BY <1>1, FS_Subset, FS_CardinalityType
<1>3. 1 <= Cardinality(Workers)
  BY <1>2 DEF TypeModes
<1>4. PICK a \in Nat : a = Cardinality(Alive)
  BY <1>2
<1>5. PICK q \in Nat : q = a \div 2 /\ q <= a
  OBVIOUS
<1>6. Larger(q, 1) \in 1 .. Cardinality(Workers)
  BY <1>2, <1>3, <1>4, <1>5 DEF Larger
<1> QED BY <1>4, <1>5, <1>6

(* Degradation: half of the allowance, then serial mode. *)
LEMMA HandleRejectionInv ==
  ASSUME IInv, HandleRejection PROVE IInv'
<1> DEFINE i == Head1.seg
           S == [segments EXCEPT ![i].state = "Pending"]
<1>1. PICK kind \in {"reject", "range"} : Take(kind)
  BY DEF HandleRejection
<1>2. /\ Looped /\ Head1 \in EventRec /\ TypeEvents' /\ i \in In(segments, "Active")
  BY <1>1, TakeFacts
<1>3. PICK o : o = IF openSeg = i THEN NoSeg ELSE openSeg
  OBVIOUS
<1>4. /\ strikes' = strikes + 1
      /\ allowed' \in {allowed, Larger(Cardinality(Alive) \div 2, 1)} /\ serial' \in {TRUE, serial}
      /\ segments' = S /\ openSeg' = o
      /\ co' = (IF Absorbed(S, o) = {} THEN "retire" ELSE "merge")
      /\ job' = [Reporter EXCEPT !.then = "retire"]
      /\ UNCHANGED <<nextIndex, total>> /\ UNCHANGED segStates /\ UNCHANGED rows /\ UNCHANGED written
      /\ UNCHANGED worker /\ UNCHANGED expansions /\ UNCHANGED netVars /\ UNCHANGED endVars
      /\ UNCHANGED boundVars
  BY <1>3 DEF HandleRejection, Absorb, fileVars
<1>5. /\ TypePlan /\ TypeStates /\ TypeRows /\ TypeWritten /\ TypeWorker /\ TypeModes
      /\ TypeNet /\ TypeEnd /\ TypeBounds
  BY TypeParts DEF IInv
<1>6. /\ PlanType(S, nextIndex) /\ Same(S, segments)
      /\ \A j \in DOMAIN segments : j # i => S[j] = segments[j]
  BY <1>2, <1>5, Restated DEF TypePlan, In
<1>7. job' \in JobRec /\ job'.w = Head1.w /\ job'.then = "retire"
  BY <1>2, <1>4, ReporterType DEF JobRec
<1> HIDE DEF S
<1>8. TypeOK'
  <2>1. TypeModes'
    <3>1. o \in Int
      BY <1>2, <1>3, <1>5, NoJobType DEF TypeModes
    <3>2. Larger(Cardinality(Alive) \div 2, 1) \in 1 .. Cardinality(Workers)
      BY <1>5, HalfAllowed
    <3>3. allowed' \in 1 .. Cardinality(Workers)
      BY <3>2, <1>4, <1>5 DEF TypeModes
    <3>4. strikes' \in Nat /\ expansions' \in Nat
      BY <1>4, <1>5 DEF TypeModes
    <3>5. serial' \in BOOLEAN
      BY <1>4, <1>5, Zenon DEF TypeModes
    <3>6. openSeg' \in Int
      BY <3>1, <1>4
    <3> QED BY <3>3, <3>4, <3>5, <3>6 DEF TypeModes
  <2>2. TypeCo'
    BY <1>4, <1>7 DEF TypeCo
  <2>3. TypePlan'
    BY <1>4, <1>5, <1>6 DEF TypePlan
  <2> QED BY <1>2, <1>4, <1>5, <2>1, <2>2, <2>3, TypeKept, TypePartsNext
<1>9. PlanCovers'
  <2>1. validate_coverage(S, total)
    BY <1>2, <1>5, <1>6, CoverSame DEF IInv, PlanCovers, Looped, TypePlan
  <2> QED BY <1>4, <2>1 DEF PlanCovers
<1>10. \A j \in In(segments, "Active") \ {i} : j \in In(S, "Active")
  BY <1>6 DEF In, Same
<1>11. Holding' /\ Reports' /\ Shared' /\ Reported(job.w)'
  <2>1. co' # "down"
    BY <1>4
  <2> QED BY <1>1, <1>4, <1>7, <1>10, <2>1, TakenSeats
<1>12. JobInv'
  <2>1. co' = "merge" => Absorbed(segments', openSeg') # {}
    BY <1>4
  <2> QED BY <1>4, <1>7, <1>11, <2>1 DEF JobInv, Handling
<1> QED BY <1>8, <1>9, <1>11, <1>12 DEF IInv

(* A new tail. *)
LEMMA TailPlan ==
  ASSUME TypePlan, validate_coverage(segments, total), NEW n \in 1 .. FileSize, n > total,
         segments' = With(segments, nextIndex, TailSegment(n))
  PROVE  /\ PlanType(segments', nextIndex + 1) /\ validate_coverage(segments', n)
         /\ nextIndex \in DOMAIN segments'
         /\ Extended(segments, segments', nextIndex, total, n)
         /\ \A j \in DOMAIN segments : segments'[j] = segments[j]
<1>1. /\ nextIndex \in Nat /\ total \in Nat /\ n \in Nat
      /\ nextIndex \notin DOMAIN segments /\ PlanType(segments, nextIndex)
  BY FileAssumption DEF TypePlan, PlanType
<1>2. /\ DOMAIN segments' = DOMAIN segments \cup {nextIndex}
      /\ segments'[nextIndex] = [start |-> total, end |-> n - 1, dl |-> 0, state |-> "Pending"]
      /\ \A j \in DOMAIN segments : segments'[j] = segments[j]
  BY <1>1 DEF With, TailSegment
<1>3. n - 1 \in Nat
  BY <1>1
<1>4. segments'[nextIndex] \in Segment /\ segments'[nextIndex].start = total /\ segments'[nextIndex].end = n - 1
  BY <1>1, <1>2, <1>3 DEF Segment
<1>5. PlanType(segments', nextIndex + 1)
  BY <1>1, <1>2, <1>4 DEF PlanType
<1>6. Extended(segments, segments', nextIndex, total, n)
  BY <1>1, <1>2, <1>4 DEF Extended, SameRange
<1>7. validate_coverage(segments', n)
  BY <1>1, <1>6, PlanRanges, CoverExtended
<1> QED BY <1>1, <1>2, <1>5, <1>6, <1>7

(* A larger size is at most the file's. *)
LEMMA LargerSize ==
  ASSUME Head1 \in EventRec, Head1.kind = "larger" PROVE Head1.n \in 1 .. FileSize
BY DEF EventRec

(* Growth in place: the tail is added, or the download fails. *)
LEMMA HandleLargerInv ==
  ASSUME IInv, HandleLarger PROVE IInv'
<1> DEFINE i == Head1.seg
           n == Head1.n
           free == [segments EXCEPT ![i].state = "Pending"]
<1>1. /\ Take("larger") /\ CloseStream
      /\ UNCHANGED segStates /\ UNCHANGED rows /\ UNCHANGED written
      /\ UNCHANGED worker /\ UNCHANGED <<allowed, serial, strikes>>
      /\ UNCHANGED netVars /\ UNCHANGED result /\ UNCHANGED sessions
  BY DEF HandleLarger, fileVars
<1>2. /\ Looped /\ Head1 \in EventRec /\ TypeEvents' /\ i \in In(segments, "Active") /\ i \in DOMAIN segments
  BY <1>1, TakeFacts DEF In
<1>3. /\ TypePlan /\ TypeStates /\ TypeRows /\ TypeWritten /\ TypeWorker /\ TypeModes
      /\ TypeNet /\ TypeEnd /\ TypeBounds /\ validate_coverage(segments, total)
  BY <1>2, TypeParts DEF IInv, PlanCovers, Looped
<1>4. openSeg' \in Int
  BY <1>1, <1>2, <1>3, CloseStreamType
<1>5. ASSUME TypePlan', TypeCo', TypeEnd', TypeBounds', expansions' \in Nat
      PROVE  TypeOK'
  <2>1. TypeModes'
    BY <1>1, <1>3, <1>4, <1>5 DEF TypeModes
  <2> QED BY <1>1, <1>2, <1>3, <1>5, <2>1, TypeKept, TypePartsNext
<1>6. CASE /\ n > total
           /\ segments' = With(segments, nextIndex, TailSegment(n))
           /\ nextIndex' = nextIndex + 1
           /\ total' = n
           /\ expansions' = expansions + 1
           /\ job' = [Reporter EXCEPT !.child = nextIndex, !.then = "redispatch"]
           /\ co' = "persist"
           /\ UNCHANGED <<cancelled, err, faults>>
  <2>1. n \in 1 .. FileSize
    BY <1>1, <1>2, TakeFacts, LargerSize
  <2>2. /\ PlanType(segments', nextIndex + 1) /\ validate_coverage(segments', n)
        /\ nextIndex \in DOMAIN segments'
        /\ DOMAIN segments' = DOMAIN segments \cup {nextIndex}
        /\ \A j \in DOMAIN segments : segments'[j] = segments[j]
    BY <1>3, <1>6, <2>1, TailPlan DEF Extended
  <2>3. nextIndex \in Int /\ nextIndex + 1 \in Nat
    BY <1>3 DEF TypePlan
  <2>4. job' \in JobRec /\ job'.w = Head1.w /\ job'.then = "redispatch" /\ job'.child = nextIndex
        /\ job'.seg = Head1.seg /\ job'.parent = NoSeg
    BY <1>2, <1>6, <2>3, ReporterType DEF JobRec
  <2>5. TypeOK'
    <3>1. TypePlan'
      BY <1>6, <2>1, <2>2, <2>3 DEF TypePlan
    <3>2. TypeCo'
      BY <1>6, <2>4 DEF TypeCo
    <3>3. TypeEnd' /\ TypeBounds' /\ expansions' \in Nat
      BY <1>1, <1>3, <1>6 DEF TypeEnd, TypeBounds, TypeModes
    <3> QED BY <3>1, <3>2, <3>3, <1>5
  <2>6. PlanCovers'
    BY <1>6, <2>2 DEF PlanCovers
  <2>7. \A j \in In(segments, "Active") : j \in In(segments', "Active")
    BY <2>2 DEF In
  <2>8. Holding' /\ Reports' /\ Shared' /\ Reported(job.w)' /\ Kept(job.seg)'
    <3>1. co' # "down"
      BY <1>6
    <3> QED BY <1>1, <1>2, <2>4, <2>7, <3>1, TakenSeats
  <2>9. JobInv'
    <3>1. job'.child \in DOMAIN segments' /\ job'.parent = NoSeg
      BY <2>2, <2>4
    <3> QED BY <1>6, <2>4, <2>8, <3>1 DEF JobInv, Handling
  <2> QED BY <2>5, <2>6, <2>8, <2>9 DEF IInv
<1>7. CASE /\ UNCHANGED faults \/ Fault("disk")
           /\ segments' = free
           /\ cancelled' = TRUE
           /\ Break("error")
           /\ UNCHANGED <<nextIndex, total, expansions>>
  <2>1. PlanType(segments', nextIndex) /\ Same(segments', segments)
    BY <1>2, <1>3, <1>7, Restated DEF TypePlan
  <2>2. TypeOK'
    <3>1. TypePlan'
      BY <1>3, <1>7, <2>1 DEF TypePlan
    <3>2. TypeCo'
      BY <1>7, NoJobType DEF TypeCo, Break
    <3>3. TypeEnd' /\ expansions' \in Nat
      BY <1>1, <1>3, <1>7 DEF TypeEnd, TypeModes, Break
    <3>4. TypeBounds'
      BY <1>1, <1>3, <1>7, FaultType DEF TypeBounds
    <3> QED BY <3>1, <3>2, <3>3, <3>4, <1>5
  <2>3. PlanCovers'
    <3>1. validate_coverage(segments', total)
      BY <1>3, <2>1, CoverSame DEF TypePlan
    <3> QED BY <1>7, <3>1 DEF PlanCovers
  <2> QED BY <1>1, <1>7, <2>2, <2>3, DrainInv DEF Break
<1>8. CASE /\ job' = Reporter /\ co' = "redispatch"
           /\ UNCHANGED <<planVars, expansions, cancelled, err, faults>>
  <2>1. job' \in JobRec /\ job'.w = Head1.w /\ job'.seg = Head1.seg
    BY <1>2, <1>8, ReporterType
  <2>2. UNCHANGED planVars /\ segments' = segments /\ total' = total
    BY <1>8 DEF planVars
  <2>3. TypeOK'
    <3>1. TypePlan'
      BY <1>3, <2>2, TypeKept
    <3>2. TypeCo'
      BY <1>8, <2>1 DEF TypeCo
    <3>3. TypeEnd' /\ TypeBounds' /\ expansions' \in Nat
      BY <1>1, <1>3, <1>8 DEF TypeEnd, TypeBounds, TypeModes
    <3> QED BY <3>1, <3>2, <3>3, <1>5
  <2>4. PlanCovers'
    BY <1>3, <2>2 DEF PlanCovers
  <2>5. Holding' /\ Reports' /\ Shared' /\ Reported(job.w)' /\ Kept(job.seg)'
    BY <1>1, <1>2, <1>8, <2>1, <2>2, TakenSeats
  <2>6. JobInv'
    BY <1>8, <2>5 DEF JobInv, Handling
  <2> QED BY <2>3, <2>4, <2>5, <2>6 DEF IInv
<1>9. \/ /\ n > total
         /\ segments' = With(segments, nextIndex, TailSegment(n))
         /\ nextIndex' = nextIndex + 1
         /\ total' = n
         /\ expansions' = expansions + 1
         /\ job' = [Reporter EXCEPT !.child = nextIndex, !.then = "redispatch"]
         /\ co' = "persist"
         /\ UNCHANGED <<cancelled, err, faults>>
      \/ /\ UNCHANGED faults \/ Fault("disk")
         /\ segments' = free
         /\ cancelled' = TRUE
         /\ Break("error")
         /\ UNCHANGED <<nextIndex, total, expansions>>
      \/ /\ job' = Reporter /\ co' = "redispatch"
         /\ UNCHANGED <<planVars, expansions, cancelled, err, faults>>
  BY DEF HandleLarger
<1> QED BY <1>6, <1>7, <1>8, <1>9

(* A report that is short leaves a segment for the rest. *)
LEMMA HandleDoneInv ==
  ASSUME IInv, HandleDone PROVE IInv'
<1> DEFINE i == Head1.seg
           n == Head1.n
           s == segments[i]
<1>1. /\ Take("done") /\ CloseStream
      /\ UNCHANGED total /\ UNCHANGED segStates /\ UNCHANGED rows /\ UNCHANGED written
      /\ UNCHANGED worker /\ UNCHANGED <<allowed, serial, strikes, expansions>>
      /\ UNCHANGED netVars /\ UNCHANGED endVars /\ UNCHANGED boundVars
  BY DEF HandleDone, fileVars
<1>2. /\ Looped /\ Head1 \in EventRec /\ TypeEvents' /\ i \in In(segments, "Active") /\ i \in DOMAIN segments
  BY <1>1, TakeFacts DEF In
<1>3. /\ TypePlan /\ TypeStates /\ TypeRows /\ TypeWritten /\ TypeWorker /\ TypeModes
      /\ TypeNet /\ TypeEnd /\ TypeBounds /\ validate_coverage(segments, total)
  BY <1>2, TypeParts DEF IInv, PlanCovers, Looped
<1>4. ASSUME TypePlan', TypeCo' PROVE TypeOK'
  <2>1. TypeModes'
    BY <1>1, <1>2, <1>3, CloseStreamType DEF TypeModes
  <2> QED BY <1>1, <1>2, <1>3, <1>4, <2>1, TypeKept, TypePartsNext
<1>5. s \in Segment /\ nextIndex \in Nat /\ nextIndex \notin DOMAIN segments /\ n \in Nat /\ i # nextIndex
      /\ PlanType(segments, nextIndex) /\ \A j \in DOMAIN segments : segments[j] \in Segment
  BY <1>2, <1>3, ReporterType DEF TypePlan, PlanType
<1>6. CASE Shortfall(s, n)
  <2>1. PICK r : r = [start |-> s.start, end |-> s.start + n - 1, dl |-> n, state |-> "Completed"]
    OBVIOUS
  <2>2. PICK c : c = [start |-> s.start + n, end |-> s.end, dl |-> 0, state |-> "Pending"]
    OBVIOUS
  <2>3. PICK cut : cut = s.start + n
    OBVIOUS
  <2>4. cut \in Nat /\ s.start < cut /\ cut <= s.end /\ cut - 1 \in Nat
    BY <1>5, <1>6, <2>3 DEF Shortfall, size, Larger, Segment
  <2>5. /\ r \in Segment /\ r.start = s.start /\ r.end = cut - 1
        /\ c \in Segment /\ c.start = cut /\ c.end = s.end
    BY <1>5, <2>1, <2>2, <2>3, <2>4 DEF Segment
  <2>6. /\ segments' = With([segments EXCEPT ![i] = r], nextIndex, c)
        /\ nextIndex' = nextIndex + 1
        /\ job' = [Reporter EXCEPT !.child = nextIndex, !.parent = i, !.then = "assign"]
        /\ co' = "persist"
    BY <1>6, <2>1, <2>2 DEF HandleDone
  <2>7. /\ DOMAIN segments' = DOMAIN segments \cup {nextIndex}
        /\ segments'[i] = r /\ segments'[nextIndex] = c
        /\ \A j \in DOMAIN segments : j # i => segments'[j] = segments[j]
    BY <1>2, <1>5, <2>6 DEF With
  <2>8. PlanType(segments', nextIndex + 1) /\ nextIndex + 1 \in Nat /\ nextIndex \in DOMAIN segments'
    BY <1>5, <2>5, <2>7 DEF PlanType
  <2>9. validate_coverage(segments', total)
    <3>1. Halved(segments, segments', i, nextIndex, cut)
      BY <1>2, <1>5, <2>4, <2>5, <2>7 DEF Halved, SameRange
    <3>2. cut \in Int /\ total \in Int
      BY <1>3, <2>4 DEF TypePlan
    <3> QED BY <1>3, <1>5, <3>1, <3>2, PlanRanges, CoverHalved
  <2>10. /\ job' \in JobRec /\ job'.w = Head1.w /\ job'.child = nextIndex /\ job'.parent = i
         /\ job'.then = "assign"
    <3>1. nextIndex \in Int /\ i \in Int
      BY <1>2, <1>5, ReporterType
    <3> QED BY <1>2, <2>6, <3>1, ReporterType DEF JobRec
  <2>11. TypeOK'
    <3>1. TypePlan'
      BY <1>1, <1>3, <2>6, <2>8 DEF TypePlan
    <3>2. TypeCo'
      BY <2>6, <2>10 DEF TypeCo
    <3> QED BY <1>4, <3>1, <3>2
  <2>12. PlanCovers'
    BY <1>1, <2>9 DEF PlanCovers
  <2>13. \A j \in In(segments, "Active") \ {i} : j \in In(segments', "Active")
    BY <2>7 DEF In
  <2>14. Holding' /\ Reports' /\ Shared' /\ Reported(job.w)'
    <3>1. co' # "down"
      BY <2>6
    <3> QED BY <1>1, <2>10, <2>13, <3>1, TakenSeats
  <2>15. JobInv'
    <3>1. job'.child \in DOMAIN segments' /\ job'.parent \in DOMAIN segments'
      BY <1>2, <2>7, <2>10
    <3> QED BY <2>6, <2>10, <2>14, <3>1 DEF JobInv, Handling
  <2> QED BY <2>11, <2>12, <2>14, <2>15 DEF IInv
<1>7. CASE ~Shortfall(s, n)
  <2>1. PICK dl \in Nat : dl = Smaller(n, size(s))
    BY <1>5 DEF Smaller, size, Larger, Segment
  <2>2. PICK r : r = [s EXCEPT !.dl = dl, !.state = "Completed"]
    OBVIOUS
  <2>3. r \in Segment /\ SameRange(r, s)
    BY <1>5, <2>1, <2>2 DEF Segment, SameRange
  <2>4. segments' = [segments EXCEPT ![i] = r] /\ nextIndex' = nextIndex /\ job' = Reporter /\ co' = "assign"
    BY <1>7, <2>1, <2>2 DEF HandleDone
  <2>5. DOMAIN segments' = DOMAIN segments /\ segments'[i] = r
        /\ \A j \in DOMAIN segments : j # i => segments'[j] = segments[j]
    BY <1>2, <2>4
  <2>6. PlanType(segments', nextIndex) /\ Same(segments', segments)
    BY <1>5, <2>3, <2>5 DEF PlanType, Same, SameRange
  <2>7. job' \in JobRec /\ job'.w = Head1.w
    BY <1>2, <2>4, ReporterType
  <2>8. TypeOK'
    <3>1. TypePlan'
      BY <1>1, <1>3, <2>4, <2>6 DEF TypePlan
    <3>2. TypeCo'
      BY <2>4, <2>7 DEF TypeCo
    <3> QED BY <1>4, <3>1, <3>2
  <2>9. PlanCovers'
    <3>1. validate_coverage(segments', total)
      BY <1>3, <2>6, CoverSame DEF TypePlan
    <3> QED BY <1>1, <3>1 DEF PlanCovers
  <2>10. \A j \in In(segments, "Active") \ {i} : j \in In(segments', "Active")
    BY <2>5 DEF In
  <2>11. Holding' /\ Reports' /\ Shared' /\ Reported(job.w)'
    <3>1. co' # "down"
      BY <2>4
    <3> QED BY <1>1, <2>7, <2>10, <3>1, TakenSeats
  <2>12. JobInv'
    BY <2>4, <2>11 DEF JobInv, Handling
  <2> QED BY <2>8, <2>9, <2>11, <2>12 DEF IInv
<1> QED BY <1>6, <1>7

-----------------------------------------------------------------------------
(* The steps of the coordinator: work for a worker, or none *)

Others(S) == \A v \in Alive \ {job.w} : worker[v].seg \in In(S, "Active")

(* The work that was found goes to the database or is given at once. *)
LEMMA DispatchInv ==
  ASSUME IInv, Looped, NEW S, PlanType(S, nextIndex), Same(S, segments), Others(S),
         NEW nw, NEW state \in {"Pending", "Active"},
         (Picked(S, nw) /\ state = "Active") \/ Cut(S, nw, state),
         NEW w, NEW then, NEW plain \in BOOLEAN, Dispatch(w, nw, then, plain),
         \/ w = job.w /\ Reported(w) /\ then = "send" /\ state = "Active"
         \/ w \in Workers \ Alive /\ job.w = NoSeg /\ then = "fill" /\ state = "Active"
         \/ w = NoSeg /\ job.w = NoSeg /\ then = "idle",
         UNCHANGED <<total, segStates, fileVars, events, modeVars, netVars, cancelled, result, boundVars>>
  PROVE  IInv'
<1>1. /\ TypePlan /\ TypeStates /\ TypeRows /\ TypeWritten /\ TypeWorker /\ TypeEvents /\ TypeModes
      /\ TypeNet /\ TypeEnd /\ TypeBounds /\ validate_coverage(segments, total)
  BY TypeParts DEF IInv, PlanCovers, Looped
<1>2. nextIndex \in Nat /\ total \in 1 .. FileSize /\ total \in Nat
  BY <1>1 DEF TypePlan
<1>3. validate_coverage(S, total)
  BY <1>1, <1>2, CoverSame
<1>4. nextIndex' = IF nw.parent = NoSeg THEN nextIndex ELSE nextIndex + 1
  BY DEF Dispatch
<1>5. /\ nextIndex' \in Nat /\ PlanType(nw.segs, nextIndex') /\ validate_coverage(nw.segs, total)
      /\ nw.child \in Nat /\ nw.parent \in Int
      /\ nw.child \in DOMAIN nw.segs /\ nw.segs[nw.child].state = state
      /\ nw.parent = NoSeg \/ nw.parent \in DOMAIN nw.segs
      /\ nw.child \notin In(S, "Active")
      /\ In(S, "Active") \subseteq In(nw.segs, "Active")
  BY <1>2, <1>3, <1>4, FoundPlan
<1>6. w \in Workers \cup {NoSeg} /\ then \in {"idle", "send", "fill"}
  BY DEF Reported
<1>7. /\ TypeCo' /\ job'.w = w /\ job'.child = nw.child /\ job'.parent = nw.parent /\ job'.then = then
      /\ co' = "persist" /\ UNCHANGED <<worker, err>> /\ segments' = nw.segs
  <2>1. nw.child \in Int
    BY <1>5
  <2> QED BY <1>5, <1>6, <2>1, DispatchType
<1>8. /\ UNCHANGED total /\ UNCHANGED segStates /\ UNCHANGED rows /\ UNCHANGED written /\ UNCHANGED events
      /\ UNCHANGED modeVars /\ UNCHANGED netVars /\ UNCHANGED <<cancelled, result>> /\ UNCHANGED boundVars
  BY DEF fileVars
<1>9. TypeOK'
  <2>1. TypePlan'
    BY <1>2, <1>5, <1>7, <1>8 DEF TypePlan
  <2>2. UNCHANGED worker /\ UNCHANGED endVars
    BY <1>7, <1>8 DEF endVars
  <2> QED BY <1>1, <1>7, <1>8, <2>1, <2>2, TypeKept, TypePartsNext
<1>10. PlanCovers'
  BY <1>5, <1>7, <1>8 DEF PlanCovers
<1>11. Alive' = Alive /\ Busy' = Busy /\ Alive \subseteq Workers /\ NoSeg \notin Workers
  BY <1>7, WorkerAssumption DEF Alive, Busy
<1>12. Alive \ {w} \subseteq Alive \ {job.w}
  BY <1>11
<1>13. Holding'
  <2>1. \A v \in Alive' \ {job'.w} : /\ v \in Alive \ {job.w} /\ worker'[v].seg = worker[v].seg
                                     /\ worker[v].seg \in In(segments', "Active")
    BY <1>5, <1>7, <1>11, <1>12 DEF Others
  <2> QED BY <2>1, HoldingSame DEF IInv
<1>14. Reports'
  <2>1. job'.w = job.w \/ ~Reported(job'.w)
    BY <1>7, <1>11 DEF Reported, Alive
  <2> QED BY <1>7, <1>8, <2>1, ReportsSame DEF IInv
<1>15. Shared'
  BY <1>7, <1>8, <1>11 DEF IInv, Shared
<1>16. JobInv'
  <2>1. job'.child \in DOMAIN segments' /\ (job'.parent = NoSeg \/ job'.parent \in DOMAIN segments')
    BY <1>5, <1>7
  <2>2. \A v \in Alive \ {w} : worker[v].seg # nw.child
    BY <1>5, <1>12 DEF Others
  <2>3. then \in {"send", "fill"} => Kept(job.child)'
    <3>1. then \in {"send", "fill"} => nw.child \in In(nw.segs, "Active")
      BY <1>5 DEF In
    <3> QED BY <1>7, <1>11, <2>2, <3>1 DEF Kept, HeldByOther
  <2>4. then = "send" => Reported(job.w)'
    BY <1>7 DEF Reported
  <2>5. (then = "fill" => w \in Workers \ Alive) /\ (then = "idle" => w = NoSeg)
    OBVIOUS
  <2> QED BY <1>6, <1>7, <1>11, <2>1, <2>3, <2>4, <2>5 DEF JobInv, Handling
<1> QED BY <1>9, <1>10, <1>13, <1>14, <1>15, <1>16 DEF IInv

(* The loop goes on or ends without work, perhaps without the worker that asked. *)
LEMMA RestInv ==
  ASSUME IInv, Looped, NEW S, PlanType(S, nextIndex), Same(S, segments), Others(S),
         segments' = S, UNCHANGED nextIndex,
         \/ Reported(job.w) /\ worker' = [worker EXCEPT ![job.w] = Off]
         \/ job.w = NoSeg /\ worker' = worker,
         job' = NoJob /\ (co' = "idle" \/ co' = "drain"),
         err' \in {"none", "error", "fallback", "cancelled"},
         UNCHANGED <<total, segStates, fileVars, events, modeVars, netVars, cancelled, result, boundVars>>
  PROVE  IInv'
<1>1. /\ TypePlan /\ TypeStates /\ TypeRows /\ TypeWritten /\ TypeWorker /\ TypeEvents /\ TypeModes
      /\ TypeNet /\ TypeEnd /\ TypeBounds /\ validate_coverage(segments, total)
  BY TypeParts DEF IInv, PlanCovers, Looped
<1>2. /\ UNCHANGED total /\ UNCHANGED segStates /\ UNCHANGED rows /\ UNCHANGED written /\ UNCHANGED events
      /\ UNCHANGED modeVars /\ UNCHANGED netVars /\ UNCHANGED <<cancelled, result>> /\ UNCHANGED boundVars
  BY DEF fileVars
<1>3. DOMAIN worker = Workers /\ Off.pc = "off" /\ Off.seg = NoSeg /\ Bounded(Off) /\ Off \in WorkerRec
  BY <1>1, OffFacts DEF TypeWorker
<1>4. /\ TypeWorker'
      /\ \A v \in Workers : worker'[v] = worker[v] \/ (v = job.w /\ worker'[v] = Off)
      /\ job.w \in Workers => worker'[job.w] = Off
  <2>1. CASE Reported(job.w) /\ worker' = [worker EXCEPT ![job.w] = Off]
    BY <1>1, <1>3, <2>1 DEF Reported, TypeWorker
  <2>2. CASE job.w = NoSeg /\ worker' = worker
    BY <1>1, <2>2, WorkerAssumption, TypeKept
  <2> QED BY <2>1, <2>2
<1>5. TypeOK'
  <2>1. TypePlan'
    BY <1>1, <1>2 DEF TypePlan
  <2>2. TypeCo'
    BY NoJobType DEF TypeCo
  <2>3. TypeEnd'
    BY <1>1, <1>2 DEF TypeEnd
  <2> QED BY <1>1, <1>2, <1>4, <2>1, <2>2, <2>3, TypeKept, TypePartsNext
<1>6. PlanCovers'
  <2>1. validate_coverage(S, total)
    BY <1>1, CoverSame DEF TypePlan
  <2> QED BY <1>2, <2>1 DEF PlanCovers
<1>7. CASE co' = "drain"
  BY <1>2, <1>4, <1>5, <1>6, <1>7, DrainInv
<1>8. CASE co' = "idle"
  <2>1. Alive' \subseteq Alive \ {job.w}
    BY <1>3, <1>4 DEF Alive
  <2>2. Holding'
    <3>1. \A v \in Alive' \ {job'.w} : /\ v \in Alive \ {job.w} /\ worker'[v].seg = worker[v].seg
                                       /\ worker[v].seg \in In(segments', "Active")
      BY <1>4, <2>1 DEF Others, Alive
    <3> QED BY <3>1, HoldingSame DEF IInv
  <2>3. Reports'
    <3>1. ~Reported(job'.w)
      BY NoJobType, WorkerAssumption DEF Reported
    <3>2. \A v : Reported(v) /\ v # job.w => worker'[v] = worker[v]
      BY <1>4 DEF Reported
    <3> QED BY <1>2, <3>1, <3>2, ReportsSame DEF IInv
  <2>4. Shared'
    <3>1. \A v \in Busy' : v \in Busy /\ worker'[v] = worker[v]
      BY <1>3, <1>4 DEF Busy
    <3> QED BY <1>2, <1>3, <1>4, <1>8, <3>1 DEF IInv, Shared
  <2>5. JobInv'
    BY <1>8 DEF JobInv, Handling
  <2> QED BY <1>5, <1>6, <2>2, <2>3, <2>4, <2>5 DEF IInv
<1> QED BY <1>7, <1>8

(* The map with the progress of the workers is as good as the map. *)
LEMMA SyncReady ==
  ASSUME IInv, Looped
  PROVE  LET S == sync_downloaded_from_shared
         IN  /\ PlanType(S, nextIndex) /\ Same(S, segments) /\ Others(S)
             /\ nextIndex \in Nat /\ total \in Nat /\ validate_coverage(S, total)
<1>1. /\ PlanType(sync_downloaded_from_shared, nextIndex) /\ Same(sync_downloaded_from_shared, segments)
      /\ In(sync_downloaded_from_shared, "Active") = In(segments, "Active")
  BY SyncFacts DEF IInv
<1>2. Others(sync_downloaded_from_shared)
  BY <1>1 DEF IInv, Holding, Others
<1>3. nextIndex \in Nat /\ total \in Nat
  BY DEF IInv, TypeOK
<1>4. validate_coverage(sync_downloaded_from_shared, total)
  BY <1>1, <1>3, CoverSame DEF IInv, PlanCovers, Looped
<1> QED BY <1>1, <1>2, <1>3, <1>4

LEMMA SegmentsReady ==
  ASSUME IInv, Looped
  PROVE  PlanType(segments, nextIndex) /\ Same(segments, segments) /\ Others(segments)
BY SameSelf DEF IInv, TypeOK, PlanType, Holding, Others


(* The handlers that look for work. *)
LEMMA AssignInv ==
  ASSUME IInv, Assign PROVE IInv'
<1>1. PICK m \in MinSplits :
        LET S == sync_downloaded_from_shared
            nw == IF serial THEN SerialWork(S)
                  ELSE IF Cardinality(Alive) > allowed THEN NoWork(S)
                  ELSE find_next_work(S, m)
        IN  \/ nw.child # NoSeg /\ Dispatch(job.w, nw, "send", FALSE)
            \/ /\ nw.child = NoSeg /\ Retire(S)
               /\ IF all_done(S) THEN Break("none") ELSE co' = "idle" /\ job' = NoJob /\ UNCHANGED err
  BY DEF Assign
<1>2. PICK S : S = sync_downloaded_from_shared
  OBVIOUS
<1>3. PICK nw : nw = IF serial THEN SerialWork(S)
                     ELSE IF Cardinality(Alive) > allowed THEN NoWork(S)
                     ELSE find_next_work(S, m)
  OBVIOUS
<1>4. \/ nw.child # NoSeg /\ Dispatch(job.w, nw, "send", FALSE)
      \/ /\ nw.child = NoSeg /\ Retire(S)
         /\ IF all_done(S) THEN Break("none") ELSE co' = "idle" /\ job' = NoJob /\ UNCHANGED err
  BY <1>1, <1>2, <1>3
<1>5. UNCHANGED <<total, segStates, fileVars, events, modeVars, netVars, cancelled, result, boundVars>>
  BY DEF Assign
<1>6. Looped /\ Reported(job.w)
  BY DEF Assign, IInv, JobInv, Looped
<1>7. /\ PlanType(S, nextIndex) /\ Same(S, segments) /\ Others(S)
      /\ nextIndex \in Nat /\ total \in Nat /\ validate_coverage(S, total)
  BY <1>2, <1>6, SyncReady
<1>8. Found(S, nw)
  BY <1>3, <1>7, WorkFacts
<1>9. CASE nw.child # NoSeg /\ Dispatch(job.w, nw, "send", FALSE)
  <2>1. Picked(S, nw) \/ Cut(S, nw, "Active")
    BY <1>8, <1>9 DEF Found, Nothing
  <2> QED BY <1>5, <1>6, <1>7, <1>9, <2>1, DispatchInv
<1>10. CASE /\ Retire(S)
            /\ IF all_done(S) THEN Break("none") ELSE co' = "idle" /\ job' = NoJob /\ UNCHANGED err
  <2>1. segments' = S /\ UNCHANGED nextIndex /\ worker' = [worker EXCEPT ![job.w] = Off]
    BY <1>10 DEF Retire
  <2>2. job' = NoJob /\ (co' = "idle" \/ co' = "drain") /\ (err' = err \/ err' = "none")
    BY <1>10 DEF Break
  <2>3. err' \in {"none", "error", "fallback", "cancelled"}
    BY <2>2 DEF IInv, TypeOK
  <2> QED BY <1>5, <1>6, <1>7, <2>1, <2>2, <2>3, RestInv
<1> QED BY <1>4, <1>9, <1>10

LEMMA RedispatchInv ==
  ASSUME IInv, Redispatch PROVE IInv'
<1>1. co = "redispatch"
      /\ UNCHANGED <<total, segStates, fileVars, events, modeVars, netVars, cancelled, result, boundVars>>
  BY DEF Redispatch
<1>2. Looped /\ Reported(job.w) /\ Kept(job.seg)
  BY <1>1 DEF IInv, JobInv, Looped
<1>3. PICK S : S = [segments EXCEPT ![job.seg].state = "Pending"]
  OBVIOUS
<1>4. PICK m \in MinSplits :
        LET nw == IF ~range_ok THEN find_next_pending_only(S)
                  ELSE IF serial THEN SerialWork(S) ELSE find_next_work(S, m)
            plain == ~range_ok
            usable == nw.child # NoSeg
                      /\ (plain => S[nw.child].start + S[nw.child].dl = 0)
        IN  \/ usable /\ Dispatch(job.w, nw, "send", plain)
            \/ ~usable /\ Retire(S) /\ co' = "idle" /\ job' = NoJob /\ UNCHANGED err
  BY <1>3 DEF Redispatch
<1>5. PICK nw : nw = IF ~range_ok THEN find_next_pending_only(S)
                     ELSE IF serial THEN SerialWork(S) ELSE find_next_work(S, m)
  OBVIOUS
<1>6. PICK plain \in BOOLEAN : plain = ~range_ok
  <2>1. range_ok \in BOOLEAN
    BY DEF range_ok
  <2> QED BY <2>1
<1>7. \/ nw.child # NoSeg /\ Dispatch(job.w, nw, "send", plain)
      \/ Retire(S) /\ co' = "idle" /\ job' = NoJob /\ UNCHANGED err
  BY <1>4, <1>5, <1>6
<1>8. /\ PlanType(S, nextIndex) /\ Same(S, segments)
      /\ \A j \in DOMAIN segments : j # job.seg => S[j] = segments[j]
  <2>1. job.seg \in DOMAIN segments /\ PlanType(segments, nextIndex)
    BY <1>2 DEF Kept, In, IInv, TypeOK, PlanType
  <2> QED BY <1>3, <2>1, Restated
<1>9. Others(S)
  <2>1. \A v \in Alive \ {job.w} : worker[v].seg \in In(segments, "Active") /\ worker[v].seg # job.seg
    BY <1>2 DEF IInv, Holding, Kept, HeldByOther
  <2> QED BY <1>8, <2>1 DEF Others, In, Same
<1>10. nextIndex \in Nat /\ total \in Nat /\ validate_coverage(S, total)
  BY <1>2, <1>8, CoverSame DEF IInv, PlanCovers, Looped, TypeOK
<1>11. Found(S, nw)
  BY <1>5, <1>8, <1>10, WorkFacts
<1>12. CASE nw.child # NoSeg /\ Dispatch(job.w, nw, "send", plain)
  <2>1. Picked(S, nw) \/ Cut(S, nw, "Active")
    BY <1>11, <1>12 DEF Found, Nothing
  <2> QED BY <1>1, <1>2, <1>8, <1>9, <1>12, <2>1, DispatchInv
<1>13. CASE Retire(S) /\ co' = "idle" /\ job' = NoJob /\ UNCHANGED err
  <2>1. segments' = S /\ UNCHANGED nextIndex /\ worker' = [worker EXCEPT ![job.w] = Off]
    BY <1>13 DEF Retire
  <2>2. err' \in {"none", "error", "fallback", "cancelled"}
    BY <1>13 DEF IInv, TypeOK
  <2> QED BY <1>1, <1>2, <1>8, <1>9, <1>13, <2>1, <2>2, RestInv
<1> QED BY <1>7, <1>12, <1>13

LEMMA RetireRejectedInv ==
  ASSUME IInv, RetireRejected PROVE IInv'
<1>1. /\ co = "retire" /\ worker' = [worker EXCEPT ![job.w] = Off]
      /\ job' = NoJob /\ (co' = "idle" \/ co' = "drain")
      /\ err' \in {err, "fallback", "error"}
      /\ UNCHANGED planVars
      /\ UNCHANGED <<segStates, fileVars, events, modeVars, netVars, cancelled, result, boundVars>>
  BY DEF RetireRejected, Break
<1>2. Looped /\ Reported(job.w)
  BY <1>1 DEF IInv, JobInv, Looped
<1>3. PlanType(segments, nextIndex) /\ Same(segments, segments) /\ Others(segments)
  BY <1>2, SegmentsReady
<1>4. err' \in {"none", "error", "fallback", "cancelled"}
  BY <1>1 DEF IInv, TypeOK
<1>5. /\ segments' = segments /\ UNCHANGED nextIndex
      /\ UNCHANGED <<total, segStates, fileVars, events, modeVars, netVars, cancelled, result, boundVars>>
  BY <1>1 DEF planVars
<1>6. PICK S : S = segments
  OBVIOUS
<1> QED BY <1>1, <1>2, <1>3, <1>4, <1>5, <1>6, RestInv

LEMMA ProactiveTickInv ==
  ASSUME IInv, ProactiveTick PROVE IInv'
<1>1. /\ co = "idle"
      /\ UNCHANGED <<total, segStates, fileVars, events, modeVars, netVars, cancelled, result, boundVars>>
  BY DEF ProactiveTick, Quiet, Looping
<1>2. Looped /\ job = NoJob /\ job.w = NoSeg
  BY <1>1, NoJobType DEF IInv, JobInv, Looped, Handling
<1>3. PICK S : S = sync_downloaded_from_shared
  OBVIOUS
<1>4. PICK m \in MinSplits :
        LET nw == IF In(S, "Pending") # {} THEN NoWork(S) ELSE SplitLargest(S, m, "Pending")
        IN  \/ nw.child # NoSeg /\ Dispatch(NoSeg, nw, "idle", FALSE)
            \/ nw.child = NoSeg /\ segments' = S /\ UNCHANGED <<nextIndex, co, job, worker, err>>
  BY <1>3 DEF ProactiveTick
<1>5. PICK nw : nw = IF In(S, "Pending") # {} THEN NoWork(S) ELSE SplitLargest(S, m, "Pending")
  OBVIOUS
<1>6. \/ nw.child # NoSeg /\ Dispatch(NoSeg, nw, "idle", FALSE)
      \/ segments' = S /\ UNCHANGED <<nextIndex, co, job, worker, err>>
  BY <1>4, <1>5
<1>7. /\ PlanType(S, nextIndex) /\ Same(S, segments) /\ Others(S)
      /\ nextIndex \in Nat /\ total \in Nat /\ validate_coverage(S, total)
  BY <1>2, <1>3, SyncReady
<1>8. CASE nw.child # NoSeg /\ Dispatch(NoSeg, nw, "idle", FALSE)
  <2>1. nw = SplitLargest(S, m, "Pending")
    BY <1>5, <1>8 DEF NoWork
  <2>2. Nothing(S, nw) \/ Cut(S, nw, "Pending")
    BY <1>7, <2>1, SplitFacts
  <2>3. Cut(S, nw, "Pending")
    BY <1>8, <2>2 DEF Nothing
  <2> QED BY <1>1, <1>2, <1>7, <1>8, <2>3, DispatchInv
<1>9. CASE segments' = S /\ UNCHANGED <<nextIndex, co, job, worker, err>>
  <2>1. err' \in {"none", "error", "fallback", "cancelled"}
    BY <1>9 DEF IInv, TypeOK
  <2>2. job' = NoJob /\ co' = "idle" /\ worker' = worker /\ UNCHANGED nextIndex
    BY <1>1, <1>2, <1>9
  <2> QED BY <1>1, <1>2, <1>7, <1>9, <2>1, <2>2, RestInv
<1> QED BY <1>6, <1>8, <1>9

LEMMA FreeSlot ==
  ASSUME TypeModes, Cardinality(Alive) < allowed
  PROVE  (CHOOSE w \in Workers : w \notin Alive) \in Workers \ Alive
<1>1. IsFiniteSet(Workers) /\ Alive \subseteq Workers
  BY WorkerAssumption DEF Alive
<1>2. Cardinality(Alive) \in Nat /\ Cardinality(Workers) \in Nat
  BY <1>1, FS_Subset, FS_CardinalityType
<1>3. Cardinality(Alive) # Cardinality(Workers)
  BY <1>2 DEF TypeModes
<1>4. \E w \in Workers : w \notin Alive
  BY <1>1, <1>3
<1> QED BY <1>4

(* The ramp fills the free slots. *)
LEMMA FillInv ==
  ASSUME IInv, Fill PROVE IInv'
<1>1. /\ co = "fill"
      /\ UNCHANGED <<total, segStates, fileVars, events, modeVars, netVars, cancelled, result, boundVars>>
  BY DEF Fill
<1>2. Looped /\ job = NoJob /\ job.w = NoSeg
  BY <1>1, NoJobType DEF IInv, JobInv, Looped, Handling
<1>3. PICK S : S = sync_downloaded_from_shared
  OBVIOUS
<1>4. PICK m \in MinSplits :
        LET nw == IF MayGrow(S) THEN find_next_work(S, m) ELSE NoWork(segments)
        IN  \/ /\ nw.child # NoSeg
               /\ Dispatch(CHOOSE w \in Workers : w \notin Alive, nw, "fill", FALSE)
            \/ /\ nw.child = NoSeg
               /\ segments' = nw.segs
               /\ IF NobodyLeft(S) THEN Break("none")
                  ELSE co' = "idle" /\ job' = NoJob /\ UNCHANGED err
               /\ UNCHANGED <<nextIndex, worker>>
  BY <1>3 DEF Fill
<1>5. PICK nw : nw = IF MayGrow(S) THEN find_next_work(S, m) ELSE NoWork(segments)
  OBVIOUS
<1>6. PICK w : w = CHOOSE v \in Workers : v \notin Alive
  OBVIOUS
<1>7. \/ nw.child # NoSeg /\ Dispatch(w, nw, "fill", FALSE)
      \/ /\ nw.child = NoSeg /\ segments' = nw.segs
         /\ IF NobodyLeft(S) THEN Break("none") ELSE co' = "idle" /\ job' = NoJob /\ UNCHANGED err
         /\ UNCHANGED <<nextIndex, worker>>
  BY <1>4, <1>5, <1>6
<1>8. /\ PlanType(S, nextIndex) /\ Same(S, segments) /\ Others(S)
      /\ nextIndex \in Nat /\ total \in Nat /\ validate_coverage(S, total)
  BY <1>2, <1>3, SyncReady
<1>9. MayGrow(S) => Found(S, nw)
  BY <1>5, <1>8, WorkFacts
<1>10. ~MayGrow(S) => nw.child = NoSeg /\ nw.segs = segments
  BY <1>5 DEF NoWork
<1>11. CASE nw.child # NoSeg /\ Dispatch(w, nw, "fill", FALSE)
  <2>1. MayGrow(S) /\ (Picked(S, nw) \/ Cut(S, nw, "Active"))
    BY <1>9, <1>10, <1>11 DEF Found, Nothing
  <2>2. w \in Workers \ Alive
    BY <1>6, <2>1, TypeParts, FreeSlot DEF MayGrow, IInv
  <2> QED BY <1>1, <1>2, <1>8, <1>11, <2>1, <2>2, DispatchInv
<1>12. CASE /\ nw.child = NoSeg /\ segments' = nw.segs
            /\ IF NobodyLeft(S) THEN Break("none") ELSE co' = "idle" /\ job' = NoJob /\ UNCHANGED err
            /\ UNCHANGED <<nextIndex, worker>>
  <2>1. PICK T : T = nw.segs
    OBVIOUS
  <2>2. T = S \/ T = segments
    <3>1. Found(S, nw) /\ nw.child = NoSeg => nw.segs = S
      <4>1. ~Picked(S, nw) /\ ~Cut(S, nw, "Active")
        <5>1. NoSeg \notin DOMAIN S /\ NoSeg # nextIndex
          BY <1>8 DEF PlanType, NoSeg
        <5>2. ~Picked(S, nw)
          BY <1>12, <5>1 DEF Picked, In
        <5>3. ~Cut(S, nw, "Active")
          BY <1>12, <5>1 DEF Cut, CutAt
        <5> QED BY <5>2, <5>3
      <4> QED BY <4>1 DEF Found, Nothing
    <3> QED BY <1>9, <1>10, <1>12, <2>1, <3>1
  <2>3. PlanType(T, nextIndex) /\ Same(T, segments) /\ Others(T)
    BY <1>2, <1>8, <2>2, SegmentsReady
  <2>4. job' = NoJob /\ (co' = "idle" \/ co' = "drain") /\ (err' = err \/ err' = "none")
    BY <1>12 DEF Break
  <2>5. err' \in {"none", "error", "fallback", "cancelled"}
    BY <2>4 DEF IInv, TypeOK
  <2>6. segments' = T /\ UNCHANGED nextIndex /\ worker' = worker
    BY <1>12, <2>1
  <2> QED BY <1>1, <1>2, <2>3, <2>4, <2>5, <2>6, RestInv
<1> QED BY <1>7, <1>11, <1>12

-----------------------------------------------------------------------------
(* The steps of the coordinator: database, shared state, assignment *)

LEMMA PlanBounds ==
  ASSUME NEW S, NEW n, n \in Nat, PlanType(S, n), NEW t, t \in 1 .. FileSize, validate_coverage(S, t), NEW i \in DOMAIN S
  PROVE  /\ i \in Nat /\ i \in Int /\ S[i].start \in Nat /\ S[i].dl \in Nat
         /\ S[i].end \in 0 .. FileSize - 1 /\ S[i].start <= S[i].end /\ S[i].end < t
<1>1. S[i] \in Segment /\ i \in 0 .. n - 1
  BY DEF PlanType
<1>2. S[i].start <= S[i].end /\ S[i].end < t
  BY DEF validate_coverage
<1>3. S[i].start \in Nat /\ S[i].dl \in Nat /\ S[i].end \in Nat
  BY <1>1 DEF Segment
<1> QED BY <1>1, <1>2, <1>3, FileAssumption

(* The row is written before the plan is shared. *)
LEMMA PersistInv ==
  ASSUME IInv, Persist PROVE IInv'
<1>1. /\ co = "persist" /\ co' = "publish"
      /\ rows' = rows \/ rows' = persist_segment_change
      /\ UNCHANGED faults \/ Fault("db")
      /\ UNCHANGED planVars /\ UNCHANGED segStates /\ UNCHANGED written /\ UNCHANGED worker /\ UNCHANGED events
      /\ UNCHANGED job /\ UNCHANGED modeVars /\ UNCHANGED netVars /\ UNCHANGED endVars /\ UNCHANGED sessions
  BY DEF Persist, Fault
<1>2. /\ TypePlan /\ TypeStates /\ TypeRows /\ TypeWritten /\ TypeWorker /\ TypeEvents /\ TypeModes
      /\ TypeNet /\ TypeEnd /\ TypeBounds /\ TypeCo
  BY TypeParts DEF IInv
<1>3. /\ Looped /\ validate_coverage(segments, total) /\ job.child \in DOMAIN segments
      /\ job.parent = NoSeg \/ job.parent \in DOMAIN segments
  BY <1>1 DEF IInv, PlanCovers, JobInv, Looped
<1>4. TypeRows'
  <2>1. \A i \in DOMAIN segments : /\ i \in Nat /\ segments[i].start \in Nat /\ segments[i].dl \in Nat
                                   /\ segments[i].end \in 0 .. FileSize - 1
    BY <1>2, <1>3, PlanBounds DEF TypePlan
  <2>2. PICK R : R = With(rows, job.child, Row(segments[job.child]))
    OBVIOUS
  <2>3. PICK r : r = Row(segments[job.child])
    OBVIOUS
  <2>4. r \in [start : Nat, end : 0 .. FileSize - 1, dl : Nat]
    BY <1>3, <2>1, <2>3 DEF Row
  <2>5. \A i \in DOMAIN R : i \in Nat /\ R[i] \in [start : Nat, end : 0 .. FileSize - 1, dl : Nat]
    BY <1>2, <1>3, <2>1, <2>2, <2>3, <2>4 DEF With, TypeRows
  <2>6. CASE rows' = persist_segment_change /\ job.parent \in DOMAIN rows
    <3>1. rows' = [R EXCEPT ![job.parent].end = segments[job.parent].end]
      BY <2>2, <2>6 DEF persist_segment_change
    <3>2. job.parent \in DOMAIN segments
      BY <1>2, <1>3, <2>6 DEF TypeRows, NoSeg
    <3>3. PICK e \in 0 .. FileSize - 1 : e = segments[job.parent].end
      BY <2>1, <3>2
    <3>4. \A i \in DOMAIN rows' : i \in Nat /\ rows'[i] \in [start : Nat, end : 0 .. FileSize - 1, dl : Nat]
      BY <2>5, <3>1, <3>3
    <3> QED BY <3>4 DEF TypeRows
  <2>7. CASE rows' = persist_segment_change /\ job.parent \notin DOMAIN rows
    BY <2>2, <2>5, <2>7 DEF persist_segment_change, TypeRows
  <2>8. CASE rows' = rows
    BY <1>2, <2>8 DEF TypeRows
  <2> QED BY <1>1, <2>6, <2>7, <2>8
<1>5. TypeOK'
  <2>1. TypeCo'
    BY <1>1, <1>2 DEF TypeCo
  <2>2. TypeBounds'
    BY <1>1, <1>2, FaultType DEF TypeBounds
  <2> QED BY <1>1, <1>2, <1>4, <2>1, <2>2, TypeKept, TypePartsNext
<1>6. UNCHANGED <<segments, total, nextIndex>>
  BY <1>1 DEF planVars
<1>7. PlanCovers'
  BY <1>3, <1>6 DEF PlanCovers
<1>8. Alive' = Alive /\ Busy' = Busy /\ In(segments, "Active")' = In(segments, "Active")
  BY <1>1, <1>6 DEF Alive, Busy, In
<1>9. Holding'
  BY <1>1, <1>3, <1>8 DEF IInv, Holding
<1>10. Reports'
  BY <1>1, <1>3, ReportsSame DEF IInv
<1>11. Shared'
  BY <1>1, <1>8 DEF IInv, Shared
<1>12. JobInv'
  <2>1. \A i : (Kept(i) => Kept(i)') /\ (Reported(i) => Reported(i)')
    BY <1>1, <1>8 DEF Kept, HeldByOther, Reported
  <2> QED BY <1>1, <1>6, <1>8, <2>1 DEF IInv, JobInv, Handling
<1> QED BY <1>5, <1>7, <1>9, <1>10, <1>11, <1>12 DEF IInv

(* What the shared state becomes. *)
LEMMA RebuildType ==
  ASSUME TypeStates, NEW S, NEW n, n \in Nat, NEW t \in 1 .. FileSize, PlanType(S, n), validate_coverage(S, t),
         segStates' = rebuild_seg_states(S)
  PROVE  TypeStates' /\ DOMAIN segStates' = DOMAIN S
<1>1. \A i \in DOMAIN S : S[i].dl \in Nat /\ S[i].end \in 0 .. FileSize - 1
  BY PlanBounds
<1>2. DOMAIN segStates' = DOMAIN S
  BY DEF rebuild_seg_states
<1>3. \A i \in DOMAIN S : segStates'[i] = [end |-> S[i].end, dl |-> IF i \in DOMAIN segStates THEN segStates[i].dl ELSE S[i].dl]
  BY DEF rebuild_seg_states
<1>4. ASSUME NEW i \in DOMAIN S PROVE segStates'[i] \in [end : 0 .. FileSize - 1, dl : Nat]
  <2>1. i \in DOMAIN segStates => segStates[i].dl \in Nat
    BY DEF TypeStates
  <2>2. PICK d \in Nat : d = IF i \in DOMAIN segStates THEN segStates[i].dl ELSE S[i].dl
    BY <1>1, <2>1
  <2>3. segStates'[i] = [end |-> S[i].end, dl |-> d]
    BY <1>3, <2>2
  <2> QED BY <1>1, <2>3
<1> QED BY <1>2, <1>4 DEF TypeStates

(* The assignment of a segment of the plan. *)
LEMMA AssignedType ==
  ASSUME NEW S, NEW n, NEW t \in 1 .. FileSize, PlanType(S, n), validate_coverage(S, t), NEW i \in DOMAIN S,
         n \in Nat, NEW open \in BOOLEAN, NEW plain \in BOOLEAN
  PROVE  LET r == Assigned(S, i, open, plain)
         IN  r \in WorkerRec /\ Bounded(r) /\ r.pc = "connect" /\ r.seg = i
<1>1. S[i].start \in Nat /\ S[i].dl \in Nat /\ S[i].end \in 0 .. FileSize - 1 /\ S[i].start <= S[i].end
      /\ i \in Int
  BY PlanBounds
<1>2. PICK start \in Nat, dl \in Nat, end \in 0 .. FileSize - 1 :
        start = S[i].start /\ dl = S[i].dl /\ end = S[i].end
  BY <1>1
<1>3. PICK r : r = [Off EXCEPT !.pc = "connect", !.seg = i, !.base = start, !.from = dl,
                               !.req = end, !.open = open, !.plain = plain]
  OBVIOUS
<1>4. Assigned(S, i, open, plain) = r
  BY <1>2, <1>3 DEF Assigned
<1>5. r \in WorkerRec /\ r.pc = "connect" /\ r.seg = i /\ r.base = start /\ r.req = end
      /\ r.off = Off.off /\ r.left = Off.left
  BY <1>1, <1>3, OffFacts, ZenonT(30) DEF WorkerRec
<1>6. Off.off = 0 /\ Off.left = 0
  BY DEF Off
<1>7. Bounded(r)
  BY <1>1, <1>2, <1>5, <1>6, FileAssumption DEF Bounded
<1> QED BY <1>4, <1>5, <1>7

(* A worker gets the segment that was found for it. *)
LEMMA GivenInv ==
  ASSUME IInv, co = "publish", TypeOK', NEW then \in {"send", "fill"}, job.then = then,
         NEW r, r \in WorkerRec, r.pc = "connect", r.seg = job.child,
         worker' = [worker EXCEPT ![job.w] = r], job' = NoJob, co' \in {"idle", "fill"},
         UNCHANGED <<segments, total, events>>, DOMAIN segStates' = DOMAIN segments
  PROVE  IInv'
<1>1. /\ Looped /\ job.w \in Workers /\ job.child \in In(segments, "Active") /\ ~HeldByOther(job.child)
  BY DEF IInv, JobInv, Looped, Kept, Reported
<1>2. DOMAIN worker = Workers
  BY TypeParts DEF IInv, TypeWorker
<1>3. worker'[job.w] = r /\ \A v \in Workers : v # job.w => worker'[v] = worker[v]
  BY <1>1, <1>2
<1>4. Alive' \ {job.w} = Alive \ {job.w} /\ job.w \in Alive' /\ Alive' \subseteq Workers /\ NoSeg \notin Workers
  BY <1>1, <1>3, WorkerAssumption DEF Alive
<1>5. In(segments, "Active")' = In(segments, "Active")
  BY DEF In
<1>6. \A v \in Alive \ {job.w} : /\ worker'[v].seg = worker[v].seg /\ worker[v].seg \in In(segments, "Active")
                                 /\ worker[v].seg # job.child
  BY <1>1, <1>3 DEF IInv, Holding, HeldByOther, Alive
<1>7. Holding'
  <2>1. \A v \in Alive' : worker'[v].seg \in In(segments, "Active")
    BY <1>1, <1>3, <1>4, <1>6
  <2>2. ASSUME NEW v \in Alive', NEW u \in Alive', v # u PROVE worker'[v].seg # worker'[u].seg
    <3>1. CASE v = job.w
      BY <1>3, <1>4, <1>6, <2>2, <3>1
    <3>2. CASE u = job.w
      BY <1>3, <1>4, <1>6, <2>2, <3>2
    <3>3. CASE v # job.w /\ u # job.w
      <4>1. v \in Alive \ {job.w} /\ u \in Alive \ {job.w}
        BY <1>4, <3>3
      <4> QED BY <1>1, <1>6, <2>2, <4>1 DEF IInv, Holding
    <3> QED BY <3>1, <3>2, <3>3
  <2> QED BY <1>5, <2>1, <2>2 DEF Holding
<1>8. Reports'
  <2>1. ~Reported(job'.w)
    BY NoJobType, WorkerAssumption DEF Reported
  <2>2. \A v : Reported(v) /\ v # job.w => worker'[v] = worker[v]
    BY <1>3 DEF Reported
  <2> QED BY <1>1, <2>1, <2>2, ReportsSame DEF IInv
<1>9. Shared'
  <2>1. \A v \in Workers : worker'[v].pc = "off" => worker'[v].seg = NoSeg
    BY <1>3 DEF IInv, Shared
  <2>2. \A v \in Busy' : worker'[v].seg \in DOMAIN segStates'
    <3>1. Busy' \subseteq Alive'
      BY DEF Busy, Alive
    <3>2. \A v \in Alive' : worker'[v].seg \in DOMAIN segments
      BY <1>1, <1>3, <1>4, <1>6 DEF In
    <3> QED BY <3>1, <3>2
  <2> QED BY <2>1, <2>2 DEF Shared
<1>10. JobInv'
  BY DEF JobInv, Handling
<1>11. PlanCovers'
  BY <1>1 DEF IInv, PlanCovers, Looped
<1> QED BY <1>7, <1>8, <1>9, <1>10, <1>11 DEF IInv

(* The plan is shared, and the worker gets its segment. *)
LEMMA PublishInv ==
  ASSUME IInv, Publish PROVE IInv'
<1>1. /\ co = "publish" /\ segStates' = rebuild_seg_states(segments)
      /\ UNCHANGED planVars /\ UNCHANGED rows /\ UNCHANGED written /\ UNCHANGED events
      /\ UNCHANGED <<allowed, serial, strikes, expansions>>
      /\ UNCHANGED netVars /\ UNCHANGED endVars /\ UNCHANGED boundVars
  BY DEF Publish, fileVars
<1>2. /\ TypePlan /\ TypeStates /\ TypeRows /\ TypeWritten /\ TypeWorker /\ TypeEvents /\ TypeModes
      /\ TypeNet /\ TypeEnd /\ TypeBounds /\ TypeCo
  BY TypeParts DEF IInv
<1>3. /\ Looped /\ validate_coverage(segments, total) /\ job.child \in DOMAIN segments
      /\ PlanType(segments, nextIndex) /\ nextIndex \in Nat /\ total \in 1 .. FileSize
  BY <1>1, <1>2 DEF IInv, PlanCovers, JobInv, Looped, TypePlan
<1>4. TypeStates' /\ DOMAIN segStates' = DOMAIN segments
  BY <1>1, <1>2, <1>3, RebuildType
<1>5. ASSUME TypeWorker', TypeCo', openSeg' \in Int PROVE TypeOK'
  <2>1. TypeModes'
    BY <1>1, <1>2, <1>5 DEF TypeModes
  <2> QED BY <1>1, <1>2, <1>4, <1>5, <2>1, TypeKept, TypePartsNext
<1>6. UNCHANGED <<segments, total, nextIndex, events>>
  BY <1>1 DEF planVars
<1>7. ASSUME UNCHANGED worker, TypeOK', co' \notin {"down", "drain"},
             job'.w = job.w \/ ~Reported(job'.w), Alive \ {job'.w} \subseteq Alive \ {job.w}, JobInv'
      PROVE  IInv'
  <2>1. Alive' = Alive /\ Busy' = Busy /\ In(segments, "Active")' = In(segments, "Active")
    BY <1>6, <1>7 DEF Alive, Busy, In
  <2>2. Holding'
    BY <1>3, <1>6, <1>7, <2>1 DEF IInv, Holding
  <2>3. Reports'
    BY <1>3, <1>6, <1>7, ReportsSame DEF IInv
  <2>4. Shared'
    <3>1. \A v \in Busy : worker[v].seg \in DOMAIN segments
      <4>1. \A v \in Busy : v \in Alive \ {job.w}
        BY AnswerNotBusy DEF IInv, Busy, Alive
      <4> QED BY <1>3, <4>1 DEF IInv, Holding, In
    <3> QED BY <1>4, <1>7, <2>1, <3>1 DEF IInv, Shared
  <2>5. PlanCovers'
    BY <1>3, <1>6 DEF PlanCovers
  <2> QED BY <1>7, <2>2, <2>3, <2>4, <2>5 DEF IInv
<1>8. CASE /\ job.then \in {"assign", "redispatch"}
           /\ co' = job.then
           /\ UNCHANGED <<worker, job, openSeg>>
  <2>1. TypeOK'
    <3>1. TypeCo'
      BY <1>2, <1>8 DEF TypeCo
    <3> QED BY <1>2, <1>5, <1>8, <3>1, TypeKept DEF TypeModes
  <2>2. JobInv'
    <3>1. Reported(job.w) /\ (job.then = "redispatch" => Kept(job.seg))
      BY <1>1, <1>8 DEF IInv, JobInv
    <3>2. Reported(job.w)' /\ (job.then = "redispatch" => Kept(job.seg)')
      BY <1>6, <1>8, <3>1 DEF Reported, Kept, HeldByOther, Alive, In
    <3> QED BY <1>8, <3>2 DEF JobInv, Handling
  <2>3. co' \notin {"down", "drain"}
    BY <1>8
  <2> QED BY <1>7, <1>8, <2>1, <2>2, <2>3
<1>9. CASE /\ job.then = "send"
           /\ Become(job.w, Assigned(segments, job.child, job.plain, job.plain))
           /\ openSeg' = IF job.plain THEN job.child ELSE openSeg
           /\ co' = "idle" /\ job' = NoJob
  <2>1. PICK r : r = Assigned(segments, job.child, job.plain, job.plain)
    OBVIOUS
  <2>2. job.plain \in BOOLEAN /\ job.child \in Int
    BY <1>2 DEF TypeCo, JobRec
  <2>3. r \in WorkerRec /\ Bounded(r) /\ r.pc = "connect" /\ r.seg = job.child
    BY <1>3, <2>1, <2>2, AssignedType
  <2>4. worker' = [worker EXCEPT ![job.w] = r]
    BY <1>9, <2>1 DEF Become
  <2>5. TypeOK'
    <3>1. TypeWorker'
      BY <1>2, <2>3, <2>4 DEF TypeWorker
    <3>2. TypeCo' /\ openSeg' \in Int
      BY <1>2, <1>9, <2>2, NoJobType DEF TypeCo, TypeModes
    <3> QED BY <3>1, <3>2, <1>5
  <2> QED BY <1>1, <1>4, <1>6, <1>9, <2>3, <2>4, <2>5, GivenInv
<1>10. CASE /\ job.then = "fill"
            /\ Become(job.w, Assigned(segments, job.child, FALSE, FALSE))
            /\ co' = "fill" /\ job' = NoJob
            /\ UNCHANGED openSeg
  <2>1. PICK r : r = Assigned(segments, job.child, FALSE, FALSE)
    OBVIOUS
  <2>2. r \in WorkerRec /\ Bounded(r) /\ r.pc = "connect" /\ r.seg = job.child
    BY <1>3, <2>1, AssignedType
  <2>3. worker' = [worker EXCEPT ![job.w] = r]
    BY <1>10, <2>1 DEF Become
  <2>4. TypeOK'
    <3>1. TypeWorker'
      BY <1>2, <2>2, <2>3 DEF TypeWorker
    <3>2. TypeCo' /\ openSeg' \in Int
      BY <1>2, <1>10, NoJobType DEF TypeCo, TypeModes
    <3> QED BY <3>1, <3>2, <1>5
  <2> QED BY <1>1, <1>4, <1>6, <1>10, <2>2, <2>3, <2>4, GivenInv
<1>11. CASE /\ job.then = "idle"
            /\ co' = "idle" /\ job' = NoJob
            /\ UNCHANGED <<worker, openSeg>>
  <2>1. TypeOK'
    <3>1. TypeCo'
      BY <1>11, NoJobType DEF TypeCo
    <3> QED BY <1>2, <1>5, <1>11, <3>1, TypeKept DEF TypeModes
  <2>2. JobInv'
    BY <1>11 DEF JobInv, Handling
  <2>3. job.w = NoSeg /\ job'.w = NoSeg
    BY <1>1, <1>11, NoJobType DEF IInv, JobInv
  <2> QED BY <1>7, <1>11, <2>1, <2>2, <2>3
<1> QED BY <1>8, <1>9, <1>10, <1>11 DEF Publish

(* The coordinator sees the cancellation, which may come at any time. *)
LEMMA HandleCancelInv ==
  ASSUME IInv, HandleCancel PROVE IInv'
<1>1. /\ co = "idle" /\ co' = "drain" /\ err' = "cancelled" /\ job' = NoJob
      /\ UNCHANGED planVars /\ UNCHANGED segStates /\ UNCHANGED rows /\ UNCHANGED written /\ UNCHANGED worker
      /\ UNCHANGED events /\ UNCHANGED modeVars /\ UNCHANGED netVars /\ UNCHANGED <<cancelled, result>>
      /\ UNCHANGED boundVars
  BY DEF HandleCancel, Break, fileVars
<1>2. TypeOK'
  <2>1. TypeCo'
    BY <1>1, NoJobType DEF TypeCo
  <2>2. TypeEnd'
    BY <1>1, TypeParts DEF TypeEnd, IInv
  <2> QED BY <1>1, <2>1, <2>2, TypeParts, TypeKept, TypePartsNext DEF IInv
<1>3. PlanCovers'
  BY <1>1 DEF IInv, PlanCovers, planVars
<1> QED BY <1>1, <1>2, <1>3, DrainInv

LEMMA UserCancelInv ==
  ASSUME IInv, UserCancel PROVE IInv'
<1>1. /\ Fault("cancel") /\ cancelled' = TRUE
      /\ UNCHANGED planVars /\ UNCHANGED segStates /\ UNCHANGED rows /\ UNCHANGED written /\ UNCHANGED worker
      /\ UNCHANGED events /\ UNCHANGED co /\ UNCHANGED job /\ UNCHANGED modeVars /\ UNCHANGED netVars
      /\ UNCHANGED <<err, result>> /\ UNCHANGED sessions
  BY DEF UserCancel, fileVars
<1>2. TypeOK'
  <2>1. TypeEnd'
    BY <1>1, TypeParts DEF TypeEnd, IInv
  <2>2. TypeBounds'
    BY <1>1, TypeParts, FaultType DEF IInv
  <2> QED BY <1>1, <2>1, <2>2, TypeParts, TypeKept, TypePartsNext DEF IInv
<1> QED BY <1>1, <1>2, StructureKept DEF planVars, modeVars

(* The ramp's timer frees the slots of lost workers and sets the allowance. *)
LEMMA RampTickInv ==
  ASSUME IInv, RampTick PROVE IInv'
<1>1. /\ co = "idle" /\ co' = "fill"
      /\ worker' = [w \in Workers |-> IF worker[w].pc = "dead" THEN Off ELSE worker[w]]
      /\ allowed' \in 1 .. WorkerCap
      /\ UNCHANGED planVars /\ UNCHANGED segStates /\ UNCHANGED rows /\ UNCHANGED written
      /\ UNCHANGED events /\ UNCHANGED job /\ UNCHANGED <<serial, strikes, expansions, openSeg>>
      /\ UNCHANGED netVars /\ UNCHANGED endVars /\ UNCHANGED boundVars
  BY DEF RampTick, Quiet, Looping, fileVars
<1>2. Looped /\ job = NoJob /\ job.w = NoSeg /\ job'.w = NoSeg
  BY <1>1, NoJobType DEF IInv, JobInv, Looped, Handling
<1>3. /\ TypePlan /\ TypeStates /\ TypeRows /\ TypeWritten /\ TypeWorker /\ TypeEvents /\ TypeModes
      /\ TypeNet /\ TypeEnd /\ TypeBounds /\ TypeCo
  BY TypeParts DEF IInv
<1>4. /\ Off.pc = "off" /\ Off.seg = NoSeg /\ Off \in WorkerRec /\ Bounded(Off)
      /\ \A v \in Workers : worker'[v] = worker[v] \/ (worker[v].pc = "dead" /\ worker'[v] = Off)
  BY <1>1, OffFacts
<1>5. TypeOK'
  <2>1. TypeWorker'
    BY <1>1, <1>3, <1>4 DEF TypeWorker
  <2>2. TypeCo'
    BY <1>1, <1>3 DEF TypeCo
  <2>3. TypeModes'
    <3>1. WorkerCap \in Nat /\ Cardinality(Workers) \in Nat /\ WorkerCap <= Cardinality(Workers)
      BY WorkerAssumption, CountAssumption, FS_CardinalityType
    <3> QED BY <1>1, <1>3, <3>1 DEF TypeModes
  <2> QED BY <1>1, <1>3, <2>1, <2>2, <2>3, TypeKept, TypePartsNext
<1>6. UNCHANGED <<segments, total, nextIndex>>
  BY <1>1 DEF planVars
<1>7. PlanCovers'
  BY <1>1, <1>6 DEF IInv, PlanCovers
<1>8. \A v \in Alive' : v \in Alive /\ worker'[v] = worker[v]
  BY <1>4 DEF Alive
<1>9. Holding'
  <2>1. \A v \in Alive' \ {job'.w} : /\ v \in Alive \ {job.w} /\ worker'[v].seg = worker[v].seg
                                     /\ worker[v].seg \in In(segments', "Active")
    BY <1>2, <1>6, <1>8 DEF IInv, Holding
  <2> QED BY <1>2, <2>1, HoldingSame DEF IInv
<1>10. Reports'
  <2>1. \A v : Reported(v) /\ v # job.w => worker'[v] = worker[v]
    BY <1>4 DEF Reported
  <2> QED BY <1>1, <1>2, <2>1, ReportsSame DEF IInv
<1>11. Shared'
  <2>1. \A v \in Busy' : v \in Busy /\ worker'[v] = worker[v]
    BY <1>4 DEF Busy
  <2> QED BY <1>1, <1>4, <2>1 DEF IInv, Shared
<1>12. JobInv'
  BY <1>1, <1>2 DEF JobInv, Handling
<1> QED BY <1>5, <1>7, <1>9, <1>10, <1>11, <1>12 DEF IInv

-----------------------------------------------------------------------------
(* Merging *)

LEMMA MergeRowsInv ==
  ASSUME IInv, MergeRows PROVE IInv'
<1>1. /\ co = "merge"
      /\ \/ /\ rows' = Merge(segments, rows, openSeg)
            /\ co' = "merged" /\ UNCHANGED <<job, faults>>
         \/ /\ UNCHANGED <<rows, faults>>
            /\ co' = job.then
            /\ job' = IF job.then = "idle" THEN NoJob ELSE job
      /\ UNCHANGED planVars /\ UNCHANGED segStates /\ UNCHANGED written /\ UNCHANGED worker /\ UNCHANGED events
      /\ UNCHANGED modeVars /\ UNCHANGED netVars /\ UNCHANGED endVars /\ UNCHANGED sessions
  BY DEF MergeRows
<1>2. /\ TypePlan /\ TypeStates /\ TypeRows /\ TypeWritten /\ TypeWorker /\ TypeEvents /\ TypeModes
      /\ TypeNet /\ TypeEnd /\ TypeBounds /\ TypeCo
  BY TypeParts DEF IInv
<1>3. /\ Looped /\ validate_coverage(segments, total) /\ Absorbed(segments, openSeg) # {}
      /\ PlanType(segments, nextIndex) /\ nextIndex \in Nat /\ total \in 1 .. FileSize
      /\ (job.then = "idle" /\ job = NoJob) \/ (job.then = "retire" /\ Reported(job.w))
  BY <1>1, <1>2 DEF IInv, PlanCovers, JobInv, Looped, TypePlan
<1>4. job' = job /\ co' \in {"merged", "idle", "retire"} /\ co' \in {"merged", job.then}
  BY <1>1, <1>3
<1>5. UNCHANGED <<segments, total, nextIndex, events, worker, segStates, openSeg, faults>>
  BY <1>1 DEF planVars, modeVars
<1>6. TypeRows'
  <2>1. PICK e \in 0 .. FileSize - 1 : e = NewEnd(segments, openSeg)
    <3>1. total \in Nat \ {0}
      BY <1>3
    <3>2. PICK k \in Absorbed(segments, openSeg) : NewEnd(segments, openSeg) = segments[k].end
      BY <1>3, <3>1, PlanRanges, AbsorbedFacts
    <3>3. k \in DOMAIN segments
      BY <1>3, <3>1, PlanRanges, AbsorbedFacts DEF In
    <3> QED BY <1>3, <3>2, <3>3, PlanBounds
  <2>2. CASE rows' = Merge(segments, rows, openSeg)
    <3>1. DOMAIN rows' \subseteq DOMAIN rows
      BY <2>2 DEF Merge
    <3>2. \A i \in DOMAIN rows' : rows'[i] = IF i = openSeg THEN [rows[i] EXCEPT !.end = e] ELSE rows[i]
      BY <2>1, <2>2 DEF Merge
    <3> QED BY <1>2, <3>1, <3>2 DEF TypeRows
  <2>3. CASE rows' = rows
    BY <1>2, <2>3, TypeKept
  <2> QED BY <1>1, <2>2, <2>3
<1>7. TypeOK'
  <2>1. TypeCo'
    BY <1>2, <1>4 DEF TypeCo
  <2>2. UNCHANGED boundVars
    BY <1>1 DEF boundVars
  <2> QED BY <1>1, <1>2, <1>6, <2>1, <2>2, TypeKept, TypePartsNext
<1>8. PlanCovers'
  BY <1>3, <1>5 DEF PlanCovers
<1>9. Alive' = Alive /\ Busy' = Busy /\ In(segments, "Active")' = In(segments, "Active")
  BY <1>5 DEF Alive, Busy, In
<1>10. Holding'
  BY <1>3, <1>4, <1>5, <1>9 DEF IInv, Holding
<1>11. Reports'
  BY <1>3, <1>4, <1>5, ReportsSame DEF IInv
<1>12. Shared'
  BY <1>4, <1>5, <1>9 DEF IInv, Shared
<1>13. JobInv'
  <2>1. Reported(job.w) => Reported(job.w)'
    BY <1>4, <1>5 DEF Reported
  <2>2. Absorbed(segments, openSeg)' = Absorbed(segments, openSeg)
    BY <1>5 DEF Absorbed, In, Bytes
  <2>3. (job'.then = "idle" /\ job' = NoJob) \/ (job'.then = "retire" /\ Reported(job.w)')
    BY <1>3, <1>4, <2>1
  <2> QED BY <1>3, <1>4, <2>2, <2>3 DEF JobInv, Handling
<1> QED BY <1>7, <1>8, <1>10, <1>11, <1>12, <1>13 DEF IInv

(* The plan after a merge. *)
LEMMA MergePlan ==
  ASSUME NEW S, NEW n, n \in Nat, PlanType(S, n), NEW t \in 1 .. FileSize, validate_coverage(S, t), NEW o,
         Absorbed(S, o) # {}
  PROVE  LET T == Merge(S, S, o)
         IN  /\ PlanType(T, n) /\ validate_coverage(T, t) /\ In(T, "Active") = In(S, "Active")
             /\ o \in DOMAIN T /\ DOMAIN T = DOMAIN S \ Absorbed(S, o)
             /\ \A i \in DOMAIN T : T[i].dl = S[i].dl /\ T[i].state = S[i].state /\ T[i].start = S[i].start
             /\ \A i \in DOMAIN T : i # o => T[i] = S[i]
<1>1. PICK T : T = Merge(S, S, o)
  OBVIOUS
<1>2. t \in Nat \ {0} /\ Ranges(S) /\ \A i \in DOMAIN S : "start" \in DOMAIN S[i] /\ "end" \in DOMAIN S[i]
  BY PlanRanges
<1>3. /\ o \in In(S, "Active") /\ Absorbed(S, o) \subseteq In(S, "Pending")
      /\ \E k \in Absorbed(S, o) : NewEnd(S, o) = S[k].end
  BY <1>2, AbsorbedFacts
<1>4. /\ validate_coverage(T, t) /\ o \in DOMAIN T /\ DOMAIN T = DOMAIN S \ Absorbed(S, o)
  BY <1>1, <1>2, SameSelf, CoverMerge
<1>5. PICK e \in Nat : e = NewEnd(S, o)
  BY <1>3, PlanBounds DEF In
<1>6. \A i \in DOMAIN T : T[i] = IF i = o THEN [S[i] EXCEPT !.end = e] ELSE S[i]
  BY <1>1, <1>5 DEF Merge
<1>7. \A i \in DOMAIN S : S[i] \in Segment
  BY DEF PlanType
<1>8. \A i \in DOMAIN T : /\ T[i] \in Segment /\ T[i].dl = S[i].dl /\ T[i].state = S[i].state
                          /\ T[i].start = S[i].start
  BY <1>4, <1>6, <1>7 DEF Segment
<1>9. PlanType(T, n)
  BY <1>4, <1>8 DEF PlanType
<1>10. In(T, "Active") = In(S, "Active")
  BY <1>3, <1>4, <1>8 DEF In
<1> QED BY <1>1, <1>4, <1>6, <1>8, <1>9, <1>10

(* The open stream takes over the pending segments behind it. *)
LEMMA MergeSegmentsInv ==
  ASSUME IInv, MergeSegments PROVE IInv'
<1>1. PICK S : S = Merge(segments, segments, openSeg)
  OBVIOUS
<1>2. /\ co = "merged" /\ segments' = S /\ segStates' = rebuild_seg_states(S)
      /\ co' = job.then /\ job' = IF job.then = "idle" THEN NoJob ELSE job
      /\ UNCHANGED <<nextIndex, total>> /\ UNCHANGED rows /\ UNCHANGED written /\ UNCHANGED worker
      /\ UNCHANGED events /\ UNCHANGED modeVars /\ UNCHANGED netVars /\ UNCHANGED endVars /\ UNCHANGED boundVars
  BY <1>1 DEF MergeSegments, fileVars
<1>3. /\ TypePlan /\ TypeStates /\ TypeRows /\ TypeWritten /\ TypeWorker /\ TypeEvents /\ TypeModes
      /\ TypeNet /\ TypeEnd /\ TypeBounds /\ TypeCo
  BY TypeParts DEF IInv
<1>4. /\ Looped /\ validate_coverage(segments, total) /\ Absorbed(segments, openSeg) # {}
      /\ PlanType(segments, nextIndex) /\ nextIndex \in Nat /\ total \in 1 .. FileSize
      /\ (job.then = "idle" /\ job = NoJob) \/ (job.then = "retire" /\ Reported(job.w))
  BY <1>2, <1>3 DEF IInv, PlanCovers, JobInv, Looped, TypePlan
<1>5. job' = job /\ co' \in {"idle", "retire"} /\ co' = job.then
  BY <1>2, <1>4
<1>6. PlanType(S, nextIndex) /\ validate_coverage(S, total) /\ In(S, "Active") = In(segments, "Active")
  BY <1>1, <1>4, MergePlan
<1>7. TypeStates' /\ DOMAIN segStates' = DOMAIN S
  BY <1>2, <1>3, <1>4, <1>6, RebuildType
<1>8. TypeOK'
  <2>1. TypeCo'
    BY <1>3, <1>5 DEF TypeCo
  <2>2. TypePlan'
    BY <1>2, <1>3, <1>6 DEF TypePlan
  <2> QED BY <1>2, <1>3, <1>7, <2>1, <2>2, TypeKept, TypePartsNext
<1>9. PlanCovers'
  BY <1>2, <1>6 DEF PlanCovers
<1>10. Alive' = Alive /\ Busy' = Busy
  BY <1>2 DEF Alive, Busy
<1>11. Holding'
  <2>1. \A v \in Alive' \ {job'.w} : /\ v \in Alive \ {job.w} /\ worker'[v].seg = worker[v].seg
                                     /\ worker[v].seg \in In(segments', "Active")
    BY <1>2, <1>4, <1>5, <1>6, <1>10 DEF IInv, Holding
  <2> QED BY <1>4, <2>1, HoldingSame DEF IInv
<1>12. Reports'
  BY <1>2, <1>4, <1>5, ReportsSame DEF IInv
<1>13. Shared'
  <2>1. \A v \in Busy : v \in Alive \ {job.w}
    BY AnswerNotBusy DEF IInv, Busy, Alive
  <2>2. \A v \in Busy : worker[v].seg \in In(S, "Active")
    BY <1>4, <1>6, <2>1 DEF IInv, Holding
  <2>3. \A v \in Busy' : worker'[v].seg \in DOMAIN segStates'
    BY <1>2, <1>7, <1>10, <2>2 DEF In
  <2> QED BY <1>2, <1>5, <2>3 DEF IInv, Shared
<1>14. JobInv'
  <2>1. Reported(job.w) => Reported(job.w)'
    BY <1>2, <1>5 DEF Reported
  <2> QED BY <1>4, <1>5, <2>1 DEF JobInv, Handling
<1> QED BY <1>8, <1>9, <1>11, <1>12, <1>13, <1>14 DEF IInv

-----------------------------------------------------------------------------
(* Sessions *)

(* The memory of a process that has ended. *)
LEMMA BlankInv ==
  ASSUME TypeOK, Blank, UNCHANGED <<total, verified>>, TypeRows', TypeWritten', TypeBounds',
         result' \in {"none", "ok", "error", "fallback", "cancelled"}
  PROVE  IInv'
<1>1. /\ segments' = <<>> /\ nextIndex' = 0 /\ segStates' = <<>>
      /\ worker' = [w \in Workers |-> Off] /\ events' = <<>>
      /\ co' = "down" /\ job' = NoJob
      /\ allowed' = 1 /\ serial' = FALSE /\ strikes' = 0 /\ expansions' = 0 /\ openSeg' = NoSeg
      /\ verdict' = "unknown" /\ sensitive' = FALSE /\ served' = FALSE
      /\ cancelled' = FALSE /\ err' = "none"
  BY DEF Blank
<1>2. DOMAIN <<>> = {}
  OBVIOUS
<1>3. 1 \in 1 .. Cardinality(Workers)
  BY WorkerAssumption, CountAssumption, FS_CardinalityType
<1>4. TypePlan' /\ TypeStates'
  BY <1>1, <1>2, TypeParts DEF TypePlan, TypeStates, PlanType
<1>5. TypeWorker'
  BY <1>1, OffFacts DEF TypeWorker
<1>6. TypeEvents' /\ TypeCo' /\ TypeModes'
  <2>1. TypeEvents'
    BY <1>1, EmptySeq DEF TypeEvents
  <2>2. TypeCo'
    BY <1>1, NoJobType DEF TypeCo
  <2>3. TypeModes'
    BY <1>1, <1>3, NoJobType DEF TypeModes
  <2> QED BY <2>1, <2>2, <2>3
<1>7. TypeNet' /\ TypeEnd'
  BY <1>1, TypeParts DEF TypeNet, TypeEnd
<1>8. TypeOK'
  BY <1>4, <1>5, <1>6, <1>7, TypePartsNext
<1>9. PlanCovers' /\ JobInv' /\ Holding' /\ Reports'
  BY <1>1 DEF PlanCovers, JobInv, Holding, Reports, Handling, Looped
<1>10. Shared'
  BY <1>1, OffFacts DEF Shared, Busy
<1> QED BY <1>8, <1>9, <1>10 DEF IInv

(* A crash, ... *)
LEMMA CrashInv ==
  ASSUME IInv, Crash PROVE IInv'
<1>1. /\ Blank /\ UNCHANGED <<total, verified>> /\ UNCHANGED rows /\ Fault("crash") /\ UNCHANGED sessions
      /\ written' \subseteq written /\ result' = "none"
  BY DEF Crash
<1>2. TypeRows' /\ TypeWritten' /\ TypeBounds'
  BY <1>1, TypeParts, TypeKept, FaultType DEF IInv, TypeWritten
<1> QED BY <1>1, <1>2, BlankInv DEF IInv

(* ... the end of a run, ... *)
LEMMA FinishInv ==
  ASSUME IInv, Finish PROVE IInv'
<1>1. PICK S : S = sync_downloaded_from_shared
  OBVIOUS
<1>2. /\ Blank /\ UNCHANGED <<total, verified>> /\ UNCHANGED written /\ UNCHANGED boundVars
      /\ \/ rows' = rows
         \/ rows' = [i \in DOMAIN rows |->
                       IF i \in DOMAIN S THEN [rows[i] EXCEPT !.dl = S[i].dl] ELSE rows[i]]
      /\ result' \in {"ok", "error", err}
  BY <1>1 DEF Finish
<1>3. TypeRows' /\ TypeWritten' /\ TypeBounds'
  <2>1. TypeRows /\ TypeWritten /\ TypeBounds
    BY TypeParts DEF IInv
  <2>2. \A i \in DOMAIN S : S[i].dl \in Nat
    BY <1>1, SyncFacts DEF IInv, PlanType, Segment
  <2>3. CASE rows' = [i \in DOMAIN rows |->
                        IF i \in DOMAIN S THEN [rows[i] EXCEPT !.dl = S[i].dl] ELSE rows[i]]
    <3>1. DOMAIN rows' = DOMAIN rows
      BY <2>3
    <3>2. ASSUME NEW i \in DOMAIN rows
          PROVE  i \in Nat /\ rows'[i] \in [start : Nat, end : 0 .. FileSize - 1, dl : Nat]
      <4>1. i \in Nat /\ rows[i] \in [start : Nat, end : 0 .. FileSize - 1, dl : Nat]
        BY <2>1 DEF TypeRows
      <4>2. CASE i \in DOMAIN S
        <5>1. PICK d \in Nat : d = S[i].dl
          BY <2>2, <4>2
        <5>2. rows'[i] = [rows[i] EXCEPT !.dl = d]
          BY <2>3, <4>2, <5>1
        <5> QED BY <4>1, <5>2
      <4>3. CASE i \notin DOMAIN S
        BY <2>3, <4>1, <4>3
      <4> QED BY <4>2, <4>3
    <3>3. TypeRows'
      BY <3>1, <3>2 DEF TypeRows
    <3> QED BY <3>3, <2>1, <1>2, TypeKept
  <2> QED BY <1>2, <2>1, <2>3, TypeKept
<1>4. result' \in {"none", "ok", "error", "fallback", "cancelled"}
  BY <1>2 DEF IInv, TypeOK
<1> QED BY <1>2, <1>3, <1>4, BlankInv DEF IInv

(* ... and the beginning leave nothing but rows and bytes. *)
LEMMA InitInv == Init => IInv
<1> SUFFICES ASSUME Init PROVE IInv
  OBVIOUS
<1>1. /\ segments = <<>> /\ nextIndex = 0 /\ segStates = <<>> /\ total = FileSize
      /\ worker = [w \in Workers |-> Off] /\ events = <<>>
      /\ co = "down" /\ job = NoJob
      /\ allowed = 1 /\ serial = FALSE /\ strikes = 0 /\ expansions = 0 /\ openSeg = NoSeg
      /\ verdict = "unknown" /\ sensitive = FALSE /\ served = FALSE /\ verified = FALSE
      /\ cancelled = FALSE /\ err = "none" /\ result = "none"
      /\ rows = <<>> /\ written = {} /\ faults = 0 /\ sessions = 0
  BY DEF Init
<1>2. DOMAIN <<>> = {}
  OBVIOUS
<1>3. 1 \in 1 .. Cardinality(Workers) /\ FileSize \in 1 .. FileSize
  BY WorkerAssumption, CountAssumption, FileAssumption, FS_CardinalityType
<1>4. TypePlan /\ TypeStates /\ TypeRows /\ TypeWritten
  BY <1>1, <1>2, <1>3 DEF TypePlan, TypeStates, TypeRows, TypeWritten, PlanType
<1>5. TypeWorker
  BY <1>1, OffFacts DEF TypeWorker
<1>6. TypeEvents /\ TypeCo /\ TypeModes
  <2>1. TypeEvents
    BY <1>1, EmptySeq DEF TypeEvents
  <2>2. TypeCo
    BY <1>1, NoJobType DEF TypeCo
  <2>3. TypeModes
    BY <1>1, <1>3, NoJobType DEF TypeModes
  <2> QED BY <2>1, <2>2, <2>3
<1>7. TypeNet /\ TypeEnd /\ TypeBounds
  BY <1>1 DEF TypeNet, TypeEnd, TypeBounds
<1>8. TypeOK
  BY <1>4, <1>5, <1>6, <1>7, TypeParts
<1>9. PlanCovers /\ JobInv /\ Holding /\ Reports
  BY <1>1 DEF PlanCovers, JobInv, Holding, Reports, Handling, Looped
<1>10. Shared
  BY <1>1, OffFacts DEF Shared, Busy
<1> QED BY <1>8, <1>9, <1>10 DEF IInv

-----------------------------------------------------------------------------
(* Starts *)

(* A finite set of naturals has a bound, ... *)
LEMMA FiniteBounded ==
  ASSUME NEW S \in SUBSET Nat, IsFiniteSet(S)
  PROVE  \E b \in Nat : S \subseteq 0 .. b
<1>0. PICK n \in Nat : n = Cardinality(S)
  BY FS_CardinalityType
<1>1. PICK f \in Bijection(1 .. n, S) : TRUE
  BY <1>0, FS_CardinalityType DEF ExistsBijection
<1>2. /\ \A k \in 1 .. n : f[k] \in Nat
      /\ \A x \in S : \E k \in 1 .. n : f[k] = x
  <2>1. f \in [1 .. n -> S]
    BY Fun_BijectionProperties
  <2>2. \A x \in S : \E k \in 1 .. n : f[k] = x
    BY Fun_BijectionProperties
  <2> QED BY <2>1, <2>2
<1> DEFINE P(k) == \E b \in Nat : \A j \in 1 .. k : j <= n => f[j] <= b
           Bad == {k \in Nat : ~P(k)}
<1>3. P(0)
  OBVIOUS
<1>4. ASSUME NEW k \in Nat, P(k) PROVE P(k + 1)
  <2>1. PICK b \in Nat : \A j \in 1 .. k : j <= n => f[j] <= b
    BY <1>4
  <2>2. CASE k + 1 <= n
    <3>1. PICK c \in Nat : c = f[k + 1]
      BY <2>2, <1>2
    <3>2. \A j \in 1 .. k + 1 : j \in 1 .. k \/ j = k + 1
      OBVIOUS
    <3>3. ASSUME NEW j \in 1 .. k + 1, j <= n PROVE f[j] <= b + c
      <4>1. f[j] \in Nat
        BY <3>3, <1>2
      <4>2. CASE j \in 1 .. k
        <5>1. f[j] <= b
          BY <2>1, <3>3, <4>2
        <5> QED BY <4>1, <5>1
      <4>3. CASE j = k + 1
        BY <3>1, <4>3
      <4> QED BY <3>2, <4>2, <4>3
    <3>4. b + c \in Nat
      OBVIOUS
    <3> HIDE DEF Bad
    <3>5. \E d \in Nat : \A j \in 1 .. k + 1 : j <= n => f[j] <= d
      BY <3>3, <3>4
    <3> QED BY <3>5
  <2>3. CASE ~(k + 1 <= n)
    BY <2>1, <2>3, SMTT(30)
  <2> QED BY <2>2, <2>3
<1>5. Bad = {}
  <2> SUFFICES ASSUME Bad # {} PROVE FALSE
    OBVIOUS
  <2>1. PICK m \in Bad : \A x \in Bad : m <= x
    <3>1. Bad \in SUBSET Nat
      OBVIOUS
    <3> HIDE DEF Bad
    <3> QED BY <3>1, LeastNat
  <2>2. m \in Nat /\ ~P(m)
    OBVIOUS
  <2> HIDE DEF P
  <2>3. m # 0
    BY <1>3, <2>2
  <2>4. m - 1 \in Nat /\ (m - 1) + 1 = m
    BY <2>2, <2>3
  <2>5. ~P(m - 1)
    BY <1>4, <2>2, <2>4
  <2>6. m - 1 \in Bad
    BY <2>4, <2>5
  <2> HIDE DEF Bad
  <2> QED BY <2>1, <2>2, <2>6
<1>6. P(n)
  BY <1>5
<1>7. PICK b \in Nat : \A j \in 1 .. n : f[j] <= b
  BY <1>6, SMTT(30)
<1>8. ASSUME NEW x \in S PROVE x \in 0 .. b
  <2>1. PICK k \in 1 .. n : f[k] = x
    BY <1>2
  <2> QED BY <2>1, <1>7
<1> QED BY <1>8

(* ... so the segments that cover a file have one. *)
LEMMA CoverFinite ==
  ASSUME NEW R, Ranges(R), DOMAIN R \subseteq Nat, NEW t \in Int, validate_coverage(R, t)
  PROVE  \E b \in Nat : DOMAIN R \subseteq 0 .. b
<1> DEFINE f == [i \in DOMAIN R |-> R[i].start]
<1>1. f \in [DOMAIN R -> 0 .. t - 1]
  BY DEF validate_coverage, Ranges
<1>2. ASSUME NEW i \in DOMAIN R, NEW j \in DOMAIN R, i # j PROVE f[i] # f[j]
  BY <1>2 DEF validate_coverage, Ranges
<1>3. f \in Injection(DOMAIN R, 0 .. t - 1)
  <2>1. DOMAIN f = DOMAIN R
    OBVIOUS
  <2> HIDE DEF f
  <2> QED BY <1>1, <1>2, <2>1 DEF Injection, IsInjective
<1>4. IsFiniteSet(0 .. t - 1)
  BY FS_Interval
<1> HIDE DEF f
<1>5. IsFiniteSet(DOMAIN R)
  BY <1>3, <1>4, FS_Injection
<1> QED BY <1>5, FiniteBounded

(* The workers of a start: there is one for each of the segments given. *)
LEMMA HolderExists ==
  ASSUME NEW P, IsFiniteSet(P), NEW n \in Nat, n <= WorkerCap, NEW G \in FirstOf(P, n)
  PROVE  Injection(G, Workers) # {}
<1>1. G \subseteq P /\ Cardinality(G) = Smaller(n, Cardinality(P))
  BY DEF FirstOf
<1>2. IsFiniteSet(G) /\ Cardinality(P) \in Nat
  BY <1>1, FS_Subset, FS_CardinalityType
<1>3. PICK k \in Nat : k = Cardinality(G)
  BY <1>2, FS_CardinalityType
<1>4. PICK c \in Nat : c = Cardinality(Workers)
  BY WorkerAssumption, FS_CardinalityType
<1>5. k <= c
  BY <1>1, <1>2, <1>3, <1>4, WorkerAssumption, CountAssumption DEF Smaller
<1>6. PICK g \in Bijection(G, 1 .. k) : TRUE
  BY <1>2, <1>3, FS_CardinalityType, Fun_ExistsBijSymmetric DEF ExistsBijection
<1>7. PICK f \in Bijection(1 .. c, Workers) : TRUE
  BY <1>4, WorkerAssumption, FS_CardinalityType DEF ExistsBijection
<1>8. g \in Injection(G, 1 .. c)
  <2>1. g \in [G -> 1 .. k] /\ \A a, b \in G : g[a] = g[b] => a = b
    BY <1>6, Fun_BijectionProperties
  <2>2. 1 .. k \subseteq 1 .. c
    BY <1>5
  <2>3. g \in [G -> 1 .. c]
    BY <2>1, <2>2
  <2> QED BY <2>1, <2>3 DEF Injection, IsInjective
<1>9. f \in Injection(1 .. c, Workers)
  BY <1>7, Fun_BijectionProperties
<1> QED BY <1>8, <1>9, Fun_InjTransitive

(* What a row, and the rows of a task, look like. *)
RowRec == [start : Nat, end : 0 .. FileSize - 1, dl : Nat]
RowsType(R) == \A i \in DOMAIN R : i \in Nat /\ R[i] \in RowRec

(* A start that takes the rows as they are plans with the size they cover. *)
LEMMA PlannedSize ==
  ASSUME TypeRows, DOMAIN rows # {}
  PROVE  Max({rows[i].end : i \in DOMAIN rows}) + 1 \in 1 .. FileSize
<1> DEFINE E == {rows[i].end : i \in DOMAIN rows}
<1>1. E \in SUBSET (0 .. FileSize - 1) /\ E # {}
  BY DEF TypeRows
<1> HIDE DEF E
<1>2. PICK n \in Nat : n = FileSize - 1
  BY FileAssumption
<1>3. Max(E) \in 0 .. n
  BY <1>1, <1>2, MaxFact
<1>4. Max(E) + 1 \in 1 .. FileSize
  BY <1>2, <1>3, FileAssumption
<1> QED BY <1>4 DEF E

(* Whatever the rows are, a session begins with rows that cover the file. *)
LEMMA InitialPlan ==
  ASSUME TypeRows, NEW t \in 1 .. FileSize, NEW count \in 1 .. t
  PROVE  LET R == InitialRows(t, count)
         IN  RowsType(R) /\ validate_coverage(R, t)
<1>1. CASE DOMAIN rows # {} /\ validate_coverage(rows, t)
  BY <1>1 DEF InitialRows, RowsType, RowRec, TypeRows
<1>2. CASE ~(DOMAIN rows # {} /\ validate_coverage(rows, t))
  <2>1. PICK R : R = build_fresh_segments(count, t)
    OBVIOUS
  <2>2. t \in Nat \ {0}
    BY FileAssumption
  <2>3. /\ validate_coverage(R, t) /\ DOMAIN R = 0 .. count - 1
        /\ \A i \in 0 .. count - 1 : R[i] \in [start : Nat, end : 0 .. t - 1, dl : Nat]
    BY <2>1, <2>2, CoverFresh
  <2>4. ASSUME NEW i \in DOMAIN R PROVE i \in Nat /\ R[i] \in RowRec
    <3>1. i \in Nat /\ 0 .. t - 1 \subseteq 0 .. FileSize - 1
      BY <2>3, FileAssumption
    <3> QED BY <2>3, <3>1 DEF RowRec
  <2>5. InitialRows(t, count) = R
    BY <1>2, <2>1 DEF InitialRows
  <2> QED BY <2>3, <2>4, <2>5 DEF RowsType
<1> QED BY <1>1, <1>2

(* The map made of them: nothing is active yet. *)
LEMMA LivePlan ==
  ASSUME NEW R, NEW t \in 1 .. FileSize, RowsType(R), validate_coverage(R, t),
         NEW S, S = LiveSegments(R)
  PROVE  /\ PlanType(S, Max(DOMAIN S) + 1) /\ Max(DOMAIN S) + 1 \in Nat /\ IsFiniteSet(DOMAIN S)
         /\ validate_coverage(S, t) /\ In(S, "Active") = {} /\ DOMAIN S = DOMAIN R
<1>0. t \in Nat \ {0} /\ t \in Int
  BY FileAssumption
<1>1. DOMAIN S = DOMAIN R /\ \A i \in DOMAIN R : S[i] = LiveSegment(R[i])
  BY DEF LiveSegments
<1>2. ASSUME NEW i \in DOMAIN R
      PROVE  /\ R[i].start \in Int /\ R[i].end \in Int /\ S[i] \in Segment /\ SameRange(S[i], R[i])
             /\ S[i].state # "Active"
  <2>1. R[i].start \in Nat /\ R[i].end \in Nat /\ R[i].dl \in Nat
    BY FileAssumption DEF RowsType, RowRec
  <2>2. PICK st \in {"Pending", "Completed"} : st = IF R[i].dl >= size(R[i]) THEN "Completed" ELSE "Pending"
    OBVIOUS
  <2>3. S[i] = [start |-> R[i].start, end |-> R[i].end, dl |-> R[i].dl, state |-> st]
    BY <1>1, <2>2 DEF LiveSegment
  <2> QED BY <2>1, <2>2, <2>3 DEF Segment, SameRange
<1>3. Ranges(R) /\ DOMAIN R \subseteq Nat
  BY <1>2 DEF Ranges, RowsType
<1>4. validate_coverage(S, t)
  BY <1>0, <1>1, <1>2, CoverSame DEF Same
<1>5. PICK b \in Nat : DOMAIN R \subseteq 0 .. b
  BY <1>0, <1>3, CoverFinite
<1>6. DOMAIN R # {}
  BY <1>0, <1>3, CoverMax
<1>7. PICK m : m = Max(DOMAIN S)
  OBVIOUS
<1>8. m \in DOMAIN R /\ \A x \in DOMAIN R : x <= m
  BY <1>1, <1>5, <1>6, <1>7, MaxFact
<1>9. m \in Nat /\ m + 1 \in Nat /\ \A x \in DOMAIN R : x \in 0 .. (m + 1) - 1
  BY <1>3, <1>8
<1>10. IsFiniteSet(DOMAIN S)
  <2>1. IsFiniteSet(0 .. b)
    BY FS_Interval
  <2> QED BY <1>1, <1>5, <2>1, FS_Subset
<1>11. In(S, "Active") = {}
  BY <1>1, <1>2 DEF In
<1> QED BY <1>1, <1>2, <1>4, <1>7, <1>9, <1>10, <1>11 DEF PlanType

(* A start plans with rows that cover the file; a worker for byte 0 begins  *)
(* alone.                                                                   *)
LEMMA StartPlans ==
  ASSUME TypeRows, Start
  PROVE  /\ co = "down" /\ sessions' = sessions + 1 /\ result' = "none"
         /\ UNCHANGED <<events, job, serial, strikes, expansions, sensitive, verified, cancelled,
                        err, written, faults>>
         /\ \E R, given : \E t \in 1 .. FileSize, n \in 1 .. WorkerCap, estimate \in BOOLEAN :
              \E m \in 1 .. n :
                /\ given \in FirstOf(In(LiveSegments(R), "Pending"), m)
                /\ RowsType(R) /\ validate_coverage(R, t)
                /\ Launch(R, t, n, given, CHOOSE h \in Injection(given, Workers) : TRUE, estimate)
                /\ (\E i \in In(LiveSegments(R), "Pending") : AtZero(LiveSegments(R)[i])) => m = 1
<1>1. /\ co = "down" /\ sessions' = sessions + 1 /\ result' = "none"
      /\ UNCHANGED <<events, job, serial, strikes, expansions, sensitive, verified, cancelled,
                     err, written, faults>>
  BY DEF Start
<1>2. PICK hint \in Estimates, n \in 1 .. WorkerCap :
        LET estimate == hint /\ ~verified
        IN  \E t \in Planned(estimate) :
             LET R == InitialRows(t, IF estimate THEN 1 ELSE Smaller(SegmentCount, t))
             IN  \E given \in FirstOf(In(LiveSegments(R), "Pending"), FirstWorkers(LiveSegments(R), n)) :
                  Launch(R, t, n, given, CHOOSE h \in Injection(given, Workers) : TRUE, estimate)
  BY Zenon DEF Start
<1>3. PICK estimate \in BOOLEAN : estimate = (hint /\ ~verified)
  OBVIOUS
<1>4. PICK t \in Planned(estimate) :
        LET R == InitialRows(t, IF estimate THEN 1 ELSE Smaller(SegmentCount, t))
        IN  \E given \in FirstOf(In(LiveSegments(R), "Pending"), FirstWorkers(LiveSegments(R), n)) :
             Launch(R, t, n, given, CHOOSE h \in Injection(given, Workers) : TRUE, estimate)
  BY <1>2, <1>3
<1>5. t \in 1 .. FileSize
  BY PlannedSize, FileAssumption DEF Planned
<1>6. PICK count \in 1 .. t : count = IF estimate THEN 1 ELSE Smaller(SegmentCount, t)
  BY <1>5, CountAssumption DEF Smaller
<1>7. PICK R : R = InitialRows(t, count)
  OBVIOUS
<1>8. RowsType(R) /\ validate_coverage(R, t)
  BY <1>5, <1>7, InitialPlan
<1>9. PICK m \in 1 .. n : m = FirstWorkers(LiveSegments(R), n)
  BY DEF FirstWorkers
<1>10. PICK given \in FirstOf(In(LiveSegments(R), "Pending"), m) :
         Launch(R, t, n, given, CHOOSE h \in Injection(given, Workers) : TRUE, estimate)
  BY <1>4, <1>6, <1>7, <1>9
<1>11. (\E i \in In(LiveSegments(R), "Pending") : AtZero(LiveSegments(R)[i])) => m = 1
  BY <1>9 DEF FirstWorkers
<1> QED BY <1>1, <1>5, <1>8, <1>10, <1>11

(* The workers of a start hold different segments, all of them active. *)
LEMMA StartedWorkers ==
  ASSUME NEW S, NEW k \in Nat, NEW t \in 1 .. FileSize, PlanType(S, k), validate_coverage(S, t),
         NEW given, given \subseteq DOMAIN S, NEW holder \in Injection(given, Workers),
         NEW estimate \in BOOLEAN,
         worker' = [w \in Workers |->
            IF \E i \in given : holder[i] = w
            THEN LET i == CHOOSE j \in given : holder[j] = w
                 IN  Assigned(S, i, AtZero(S[i]), estimate /\ AtZero(S[i]))
            ELSE Off]
  PROVE  /\ TypeWorker'
         /\ \A w \in Workers :
              \/ worker'[w] = Off
              \/ /\ worker'[w].pc = "connect" /\ worker'[w].seg \in given
                 /\ holder[worker'[w].seg] = w
<1>1. ASSUME NEW w \in Workers
      PROVE  /\ worker'[w] \in WorkerRec /\ Bounded(worker'[w])
             /\ \/ worker'[w] = Off
                \/ /\ worker'[w].pc = "connect" /\ worker'[w].seg \in given
                   /\ holder[worker'[w].seg] = w
  <2>1. CASE \E i \in given : holder[i] = w
    <3>1. PICK i : i = CHOOSE j \in given : holder[j] = w
      OBVIOUS
    <3>2. i \in given /\ holder[i] = w
      BY <2>1, <3>1
    <3>3. i \in DOMAIN S
      BY <3>2
    <3>4. PICK open \in BOOLEAN, plain \in BOOLEAN :
            open = AtZero(S[i]) /\ plain = (estimate /\ AtZero(S[i]))
      BY DEF AtZero
    <3>5. PICK r : r = Assigned(S, i, open, plain)
      OBVIOUS
    <3>6. worker'[w] = r
      BY <2>1, <3>1, <3>4, <3>5
    <3>7. r \in WorkerRec /\ Bounded(r) /\ r.pc = "connect" /\ r.seg = i
      BY <3>3, <3>5, AssignedType
    <3> QED BY <3>2, <3>6, <3>7
  <2>2. CASE ~\E i \in given : holder[i] = w
    <3>1. worker'[w] = Off
      BY <2>2
    <3> QED BY <3>1, OffFacts
  <2> QED BY <2>1, <2>2
<1>2. DOMAIN worker' = Workers
  OBVIOUS
<1>3. worker' \in [Workers -> WorkerRec]
  <2>1. worker' = [w \in Workers |-> worker'[w]]
    BY <1>2
  <2> QED BY ONLY <1>1, <2>1
<1>4. TypeWorker'
  BY ONLY <1>1, <1>3 DEF TypeWorker
<1> QED BY <1>1, <1>4

(* A start from whatever the last run has left. *)
LEMMA StartInv ==
  ASSUME IInv, Start PROVE IInv'
<1>1. /\ TypeWritten /\ TypeEvents /\ TypeCo /\ TypeModes /\ TypeNet /\ TypeEnd /\ TypeBounds /\ TypeRows
  BY TypeParts DEF IInv
<1>2. /\ co = "down" /\ sessions' = sessions + 1 /\ result' = "none"
      /\ UNCHANGED <<events, job, serial, strikes, expansions, sensitive, verified, cancelled,
                     err, written, faults>>
  BY <1>1, StartPlans
<1>3. PICK R, given : \E t \in 1 .. FileSize, n \in 1 .. WorkerCap, estimate \in BOOLEAN :
        \E m \in 1 .. n :
          /\ given \in FirstOf(In(LiveSegments(R), "Pending"), m)
          /\ RowsType(R) /\ validate_coverage(R, t)
          /\ Launch(R, t, n, given, CHOOSE h \in Injection(given, Workers) : TRUE, estimate)
  BY <1>1, StartPlans
<1>4. PICK t \in 1 .. FileSize, n \in 1 .. WorkerCap, estimate \in BOOLEAN : \E m \in 1 .. n :
        /\ given \in FirstOf(In(LiveSegments(R), "Pending"), m)
        /\ RowsType(R) /\ validate_coverage(R, t)
        /\ Launch(R, t, n, given, CHOOSE h \in Injection(given, Workers) : TRUE, estimate)
  BY <1>3
<1>5. PICK m \in 1 .. n :
        /\ given \in FirstOf(In(LiveSegments(R), "Pending"), m)
        /\ RowsType(R) /\ validate_coverage(R, t)
        /\ Launch(R, t, n, given, CHOOSE h \in Injection(given, Workers) : TRUE, estimate)
  BY <1>4
<1>6. PICK S : S = LiveSegments(R)
  OBVIOUS
<1>7. PICK k \in Nat : k = Max(DOMAIN S) + 1
  BY <1>5, <1>6, LivePlan
<1>8. /\ PlanType(S, k) /\ IsFiniteSet(DOMAIN S) /\ validate_coverage(S, t)
      /\ In(S, "Active") = {} /\ DOMAIN S = DOMAIN R
  BY <1>7, <1>5, <1>6, LivePlan
<1>9. given \subseteq In(S, "Pending") /\ given \subseteq DOMAIN S
  BY <1>5, <1>6 DEF FirstOf, In
<1>10. PICK holder : holder = CHOOSE h \in Injection(given, Workers) : TRUE
  OBVIOUS
<1>11. holder \in Injection(given, Workers)
  <2>1. IsFiniteSet(In(S, "Pending"))
    BY <1>8, FS_Subset DEF In
  <2>2. m \in Nat /\ m <= WorkerCap
    BY CountAssumption
  <2>3. Injection(given, Workers) # {}
    BY <2>1, <2>2, <1>5, <1>6, HolderExists
  <2> QED BY <2>3, <1>10
<1>12. Launch(R, t, n, given, holder, estimate)
  BY <1>10, <1>5
<1>13. PICK T : T = [i \in DOMAIN S |-> IF i \in given THEN [S[i] EXCEPT !.state = "Active"] ELSE S[i]]
  OBVIOUS
<1>14. /\ total' = t /\ rows' = R /\ segments' = T /\ nextIndex' = k
       /\ segStates' = [i \in DOMAIN S |-> [end |-> S[i].end, dl |-> S[i].dl]]
       /\ allowed' = n /\ verdict' \in {"unknown", "yes"} /\ served' \in BOOLEAN
       /\ co' \in {"drain", "idle"}
  BY <1>7, <1>12, <1>13, <1>6 DEF Launch
<1>15. worker' = [w \in Workers |->
            IF \E i \in given : holder[i] = w
            THEN LET i == CHOOSE j \in given : holder[j] = w
                 IN  Assigned(S, i, AtZero(S[i]), estimate /\ AtZero(S[i]))
            ELSE Off]
  BY <1>12, <1>6 DEF Launch
<1>16. openSeg' \in Int
  <2>1. \A i \in given : i \in Int
    BY <1>8, <1>9 DEF PlanType
  <2>2. openSeg' = IF \E i \in given : AtZero(S[i]) THEN CHOOSE i \in given : AtZero(S[i]) ELSE NoSeg
    BY <1>12, <1>6 DEF Launch
  <2>3. openSeg' \in given \/ openSeg' = NoSeg
    BY <2>2
  <2> QED BY <2>1, <2>3, NoJobType
<1>17. /\ TypeWorker'
       /\ \A w \in Workers :
              \/ worker'[w] = Off
              \/ /\ worker'[w].pc = "connect" /\ worker'[w].seg \in given
                 /\ holder[worker'[w].seg] = w
  BY <1>8, <1>9, <1>11, <1>15, StartedWorkers
<1>18. ASSUME NEW i \in DOMAIN S
       PROVE  /\ T[i] \in Segment /\ SameRange(T[i], S[i])
              /\ i \in given => T[i].state = "Active"
  <2>1. S[i] \in Segment
    BY <1>8 DEF PlanType
  <2>2. CASE i \in given
    <3>1. PICK r : r = [S[i] EXCEPT !.state = "Active"]
      OBVIOUS
    <3>2. r \in Segment /\ r.start = S[i].start /\ r.end = S[i].end /\ r.state = "Active"
      BY <2>1, <3>1 DEF Segment
    <3>3. T[i] = r
      BY <2>2, <3>1, <1>13
    <3> QED BY <3>2, <3>3 DEF SameRange
  <2>3. CASE i \notin given
    BY <2>1, <2>3, <1>13 DEF SameRange
  <2> QED BY <2>2, <2>3
<1>19. DOMAIN T = DOMAIN S
  BY <1>13
<1>20. PlanType(T, k) /\ validate_coverage(T, t)
  <2>1. PlanType(T, k)
    BY <1>8, <1>18, <1>19 DEF PlanType
  <2>2. Same(T, S)
    BY <1>18, <1>19 DEF Same
  <2> QED BY <2>1, <2>2, <1>8, CoverSame
<1>21. TypeOK'
  <2>1. TypePlan'
    BY <1>14, <1>20 DEF TypePlan
  <2>2. TypeStates'
    <3>1. ASSUME NEW i \in DOMAIN S PROVE segStates'[i] \in [end : 0 .. FileSize - 1, dl : Nat]
      <4>1. S[i].end \in 0 .. FileSize - 1 /\ S[i].dl \in Nat
        BY <1>8, PlanBounds
      <4>2. segStates'[i] = [end |-> S[i].end, dl |-> S[i].dl]
        BY <1>14
      <4> QED BY <4>1, <4>2
    <3>2. DOMAIN segStates' = DOMAIN S
      BY <1>14
    <3> QED BY <3>1, <3>2 DEF TypeStates
  <2>3. TypeRows'
    BY <1>14, <1>5 DEF TypeRows, RowsType, RowRec
  <2>4. TypeCo'
    BY <1>1, <1>2, <1>14 DEF TypeCo
  <2>5. TypeModes'
    <3>1. n \in 1 .. Cardinality(Workers)
      BY WorkerAssumption, CountAssumption, FS_CardinalityType
    <3> QED BY <3>1, <1>1, <1>2, <1>14, <1>16 DEF TypeModes
  <2>6. TypeNet' /\ TypeEnd' /\ TypeBounds' /\ TypeWritten' /\ TypeEvents'
    BY <1>1, <1>2, <1>14 DEF TypeNet, TypeEnd, TypeBounds, TypeWritten, TypeEvents
  <2> QED BY <1>17, <2>1, <2>2, <2>3, <2>4, <2>5, <2>6, TypePartsNext
<1>22. PlanCovers'
  BY <1>14, <1>20 DEF PlanCovers
<1>23. job' = NoJob /\ events' = <<>>
  BY <1>2 DEF IInv, JobInv, Handling, Shared
<1>24. JobInv'
  BY <1>14, <1>23 DEF JobInv, Handling
<1>25. ASSUME NEW w \in Workers, worker'[w].pc # "off"
       PROVE  worker'[w].seg \in given /\ holder[worker'[w].seg] = w
  BY <1>17, <1>25, OffFacts
<1>26. Holding'
  <2>1. \A w \in Alive' : worker'[w].seg \in In(segments', "Active")
    <3>1. \A i \in given : i \in In(T, "Active")
      BY <1>9, <1>18, <1>19 DEF In
    <3> QED BY <3>1, <1>14, <1>25 DEF Alive
  <2>2. \A v, w \in Alive' : v # w => worker'[v].seg # worker'[w].seg
    BY <1>25 DEF Alive
  <2>3. Alive' \ {job'.w} \subseteq Alive'
    OBVIOUS
  <2>4. In(segments, "Active")' = In(segments', "Active")
    BY DEF In
  <2> QED BY <2>1, <2>2, <2>3, <2>4 DEF Holding
<1>27. Reports'
  <2>1. Len(events') = 0
    BY <1>23
  <2> QED BY <2>1 DEF Reports, IsReport
<1>28. Shared'
  <2>1. \A w \in Workers : worker'[w].pc = "off" => worker'[w].seg = NoSeg
    BY <1>17, OffFacts
  <2>2. DOMAIN segStates' = DOMAIN S
    BY <1>14
  <2>3. \A w \in Busy' : worker'[w].seg \in DOMAIN segStates'
    BY <1>9, <1>25, <2>2 DEF Busy
  <2> QED BY <2>1, <2>3, <1>14 DEF Shared
<1> QED BY <1>21, <1>22, <1>24, <1>26, <1>27, <1>28 DEF IInv

-----------------------------------------------------------------------------
(* The theorems *)

LEMMA CoordinatorInv ==
  ASSUME IInv, Coordinator PROVE IInv'
<1>1. CASE HandleDone BY <1>1, HandleDoneInv
<1>2. CASE Assign BY <1>2, AssignInv
<1>3. CASE Persist BY <1>3, PersistInv
<1>4. CASE Publish BY <1>4, PublishInv
<1>5. CASE HandleLarger BY <1>5, HandleLargerInv
<1>6. CASE HandleNode BY <1>6, HandleNodeInv
<1>7. CASE Redispatch BY <1>7, RedispatchInv
<1>8. CASE HandleRejection BY <1>8, HandleRejectionInv
<1>9. CASE MergeRows BY <1>9, MergeRowsInv
<1>10. CASE MergeSegments BY <1>10, MergeSegmentsInv
<1>11. CASE RetireRejected BY <1>11, RetireRejectedInv
<1>12. CASE HandleFatal BY <1>12, HandleFatalInv
<1>13. CASE HandleVerdict BY <1>13, HandleVerdictInv
<1>14. CASE Fill BY <1>14, FillInv
<1>15. CASE HandleCancel BY <1>15, HandleCancelInv
<1>16. CASE Finish BY <1>16, FinishInv
<1> QED
  BY <1>1, <1>2, <1>3, <1>4, <1>5, <1>6, <1>7, <1>8, <1>9, <1>10, <1>11, <1>12, <1>13, <1>14,
     <1>15, <1>16 DEF Coordinator

(* Every step keeps the invariant. *)
LEMMA StepInv ==
  ASSUME IInv, [Next]_vars PROVE IInv'
<1>1. CASE Start BY <1>1, StartInv
<1>2. CASE Coordinator BY <1>2, CoordinatorInv
<1>3. CASE ProactiveTick BY <1>3, ProactiveTickInv
<1>4. CASE RampTick BY <1>4, RampTickInv
<1>5. CASE UserCancel BY <1>5, UserCancelInv
<1>6. CASE Crash BY <1>6, CrashInv
<1>7. CASE \E w \in Workers : Worker(w) \/ Trouble(w) \/ PeriodicFlush(w) \/ FlushTick(w)
  BY <1>7, WorkersInv
<1>8. CASE UNCHANGED vars
  <2>1. /\ UNCHANGED planVars /\ UNCHANGED segStates /\ UNCHANGED rows /\ UNCHANGED written
        /\ UNCHANGED worker /\ UNCHANGED events /\ UNCHANGED co /\ UNCHANGED job
        /\ UNCHANGED modeVars /\ UNCHANGED netVars /\ UNCHANGED endVars /\ UNCHANGED boundVars
    BY <1>8 DEF vars, planVars, modeVars, netVars, endVars, boundVars
  <2>2. TypeOK'
    BY <2>1, TypeParts, TypePartsNext, TypeKept DEF IInv
  <2>3. UNCHANGED <<segments, total, segStates, worker, events, co, job, openSeg>>
    BY <2>1 DEF planVars, modeVars
  <2> QED BY <2>2, <2>3, StructureKept
<1> QED BY <1>1, <1>2, <1>3, <1>4, <1>5, <1>6, <1>7, <1>8 DEF Next

(* IInv is inductive. *)
LEMMA Inductive == Spec => []IInv
BY InitInv, StepInv, PTL DEF Spec

(* Every state of a download is well-formed: the coordinator's map, the     *)
(* shared states, the rows and the workers' counters stay in the file, the  *)
(* ramp's allowance stays in the pool of workers, whatever the events and   *)
(* the order of the handlers of run_coordinated_download.                   *)
THEOREM TypeCorrect == Spec => []TypeOK
<1>1. IInv => TypeOK
  BY DEF IInv
<1> QED BY Inductive, <1>1, PTL

(* However splits, merges of the open stream, in-place growth, retirements  *)
(* and restarts follow each other, the coordinator's map covers the file    *)
(* without gap or overlap: the validate_coverage before a run reports       *)
(* success never fails.                                                     *)
THEOREM PlanAlwaysCovers == Spec => []PlanCovers
<1>1. IInv => PlanCovers
  BY DEF IInv
<1> QED BY Inductive, <1>1, PTL

(* Between two handlers every segment that is being downloaded has one      *)
(* worker at most, and every worker a segment that is being downloaded: no  *)
(* event that is late, no worker that panics and no assignment whose        *)
(* database call comes in between lets two workers write the same range.    *)
THEOREM OneWorkerPerSegment == Spec => []OneHolder
<1>1. IInv => OneHolder
  <2> SUFFICES ASSUME IInv, co \in {"idle", "fill"}
               PROVE  /\ \A i \in In(segments, "Active") :
                           Cardinality({w \in Workers : worker[w].seg = i}) <= 1
                      /\ \A w \in Alive : segments[worker[w].seg].state = "Active"
    BY DEF OneHolder
  <2>1. job.w = NoSeg /\ Looped
    BY NoJobType DEF IInv, JobInv, Handling, Looped
  <2>2. Alive \ {job.w} = Alive
    BY <2>1, WorkerAssumption DEF Alive
  <2>3. /\ \A w \in Alive : worker[w].seg \in In(segments, "Active")
        /\ \A v, w \in Alive : v # w => worker[v].seg # worker[w].seg
    BY <2>1, <2>2 DEF IInv, Holding
  <2>4. ASSUME NEW i \in In(segments, "Active")
        PROVE  Cardinality({w \in Workers : worker[w].seg = i}) <= 1
    <3> DEFINE H == {w \in Workers : worker[w].seg = i}
    <3>1. i # NoSeg
      <4>1. i \in 0 .. nextIndex - 1 /\ nextIndex \in Nat
        BY DEF IInv, TypeOK, In
      <4> QED BY <4>1 DEF NoSeg
    <3>2. H \subseteq Alive
      BY <3>1 DEF IInv, Shared, Alive
    <3>3. \A v, w \in H : v = w
      BY <2>3, <3>2
    <3>4. H = {} \/ \E w : H = {w}
      <4> HIDE DEF H
      <4> QED BY <3>3
    <3> HIDE DEF H
    <3>5. Cardinality(H) \in {0, 1}
      BY <3>4, FS_EmptySet, FS_Singleton
    <3> QED BY <3>5 DEF H
  <2> QED BY <2>3, <2>4 DEF In
<1> QED BY Inductive, <1>1, PTL
=============================================================================
