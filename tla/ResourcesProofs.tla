-------------------------- MODULE ResourcesProofs --------------------------
(***************************************************************************)
(* References between the objects of a context, for tables, scatter lists  *)
(* and queues of every size: the counts are exact, and nothing that is in  *)
(* use is freed.                                                           *)
(***************************************************************************)
EXTENDS Resources, SequenceTheorems, FiniteSetTheorems, FunctionTheorems,
        WellFoundedInduction, TLAPS

-----------------------------------------------------------------------------
(* Numbers and sequences. *)

\* A nonempty set of numbers has a least element.
LEMMA Least ==
  ASSUME NEW S \in SUBSET Nat, S # {}
  PROVE  \E k \in S : \A j \in S : k <= j
<1>1. PICK k \in S : \A j \in S : ~(<<j, k>> \in OpToRel(<, Nat))
  BY WFMin, NatLessThanWellFounded
<1>2. \A j \in S : ~(j < k)
  BY <1>1 DEF OpToRel
<1> QED
  BY <1>2

\* A prefix and the element that follows it.
LEMMA PrefixAppend ==
  ASSUME NEW S, NEW p \in Seq(S), NEW n \in 1 .. Len(p)
  PROVE  /\ SubSeq(p, 1, n - 1) \in Seq(S) /\ p[n] \in S
         /\ SubSeq(p, 1, n) = Append(SubSeq(p, 1, n - 1), p[n])
<1>1. /\ Len(p) \in Nat /\ n \in Nat /\ n - 1 \in Nat /\ (n - 1) + 1 = n /\ n <= Len(p)
      /\ p[n] \in S
  OBVIOUS
<1>2. PICK a, b : a = SubSeq(p, 1, n - 1) /\ b = SubSeq(p, 1, n)
  OBVIOUS
<1>3. /\ a \in Seq(S) /\ Len(a) = n - 1 /\ \A i \in 1 .. n - 1 : a[i] = p[i]
  BY <1>1, <1>2
<1>4. /\ b \in Seq(S) /\ Len(b) = n /\ \A i \in 1 .. n : b[i] = p[i]
  BY <1>1, <1>2
<1>5. /\ Append(a, p[n]) \in Seq(S) /\ Len(Append(a, p[n])) = n
      /\ \A i \in 1 .. n - 1 : Append(a, p[n])[i] = p[i]
      /\ Append(a, p[n])[n] = p[n]
  BY <1>1, <1>3
<1>6. \A i \in 1 .. n : Append(a, p[n])[i] = b[i]
  BY <1>1, <1>4, <1>5
<1>7. Append(a, p[n]) = b
  BY <1>4, <1>5, <1>6, SeqEqual
<1> QED
  BY <1>1, <1>2, <1>3, <1>7

-----------------------------------------------------------------------------
(* Counting the entries of scatter lists. *)

Lists == Seq(Seq(Nat))

\* How often a scatter list names the MR m.
Names(sges, m) == Cardinality({j \in 1 .. Len(sges) : sges[j] = m})

\* How often the lists do.
CountIn(lists, m) == Cardinality(Entries(lists, m))

LEMMA NamesType ==
  ASSUME NEW s \in Seq(Nat), NEW m
  PROVE  /\ IsFiniteSet({j \in 1 .. Len(s) : s[j] = m})
         /\ Names(s, m) \in Nat /\ Names(s, m) <= Len(s)
         /\ Names(s, m) > 0 <=> \E j \in 1 .. Len(s) : s[j] = m
<1> DEFINE S == {j \in 1 .. Len(s) : s[j] = m}
<1>1. Len(s) \in Nat
  OBVIOUS
<1>2. IsFiniteSet(1 .. Len(s)) /\ Cardinality(1 .. Len(s)) = Len(s)
  <2>1. PICK n \in Nat : n = Len(s)
    BY <1>1
  <2>2. IsFiniteSet(1 .. n) /\ Cardinality(1 .. n) = IF 1 > n THEN 0 ELSE n - 1 + 1
    BY FS_Interval
  <2>3. Cardinality(1 .. n) = n
    BY <2>2
  <2> QED
    BY <2>1, <2>2, <2>3
<1>3. S \in SUBSET (1 .. Len(s))
  OBVIOUS
<1> HIDE DEF S
<1>4. IsFiniteSet(S) /\ Cardinality(S) <= Len(s) /\ Cardinality(S) \in Nat
  BY <1>2, <1>3, FS_Subset, FS_CardinalityType
<1>5. Cardinality(S) = 0 <=> S = {}
  BY <1>4, FS_EmptySet
<1>6. Cardinality(S) > 0 <=> S # {}
  BY <1>4, <1>5
<1>7. S # {} <=> \E j \in 1 .. Len(s) : s[j] = m
  BY DEF S
<1> QED
  BY <1>4, <1>6, <1>7 DEF S, Names

LEMMA NamesNone == ASSUME NEW m PROVE Names(<<>>, m) = 0
<1>1. Len(<<>>) = 0 /\ 1 .. 0 = {}
  BY EmptySeq
<1>2. {j \in 1 .. Len(<<>>) : <<>>[j] = m} = {}
  BY <1>1
<1> QED
  BY <1>2, FS_EmptySet DEF Names

\* One entry more.
LEMMA NamesAppend ==
  ASSUME NEW s \in Seq(Nat), NEW e \in Nat, NEW m
  PROVE  Names(Append(s, e), m) = Names(s, m) + IF e = m THEN 1 ELSE 0
<1>1. PICK a \in Seq(Nat) : a = Append(s, e)
  BY AppendProperties
<1>2. /\ Len(s) \in Nat /\ Len(a) = Len(s) + 1 /\ a[Len(s) + 1] = e
      /\ \A i \in 1 .. Len(s) : a[i] = s[i]
  BY <1>1, AppendProperties, LenProperties
<1>3. PICK S, T : S = {j \in 1 .. Len(s) : s[j] = m} /\ T = {j \in 1 .. Len(a) : a[j] = m}
  OBVIOUS
<1>4. IsFiniteSet(S) /\ Cardinality(S) \in Nat
  BY <1>3, NamesType DEF Names
<1>5. Names(s, m) = Cardinality(S) /\ Names(Append(s, e), m) = Cardinality(T)
  BY <1>1, <1>3 DEF Names
<1>6. \A j \in 1 .. Len(s) + 1 : j \in 1 .. Len(s) \/ j = Len(s) + 1
  BY <1>2
<1>7. 1 .. Len(s) \subseteq 1 .. Len(s) + 1 /\ Len(s) + 1 \in 1 .. Len(s) + 1
  BY <1>2
<1>8. CASE e = m
  <2>1. ASSUME NEW j PROVE j \in T <=> j \in S \/ j = Len(s) + 1
    <3>1. CASE j \in 1 .. Len(s)
      BY <1>2, <1>3, <1>7, <3>1
    <3>2. CASE j = Len(s) + 1
      BY <1>2, <1>3, <1>7, <1>8, <3>2
    <3>3. CASE j \notin 1 .. Len(s) /\ j # Len(s) + 1
      BY <1>2, <1>3, <1>6, <3>3
    <3> QED
      BY <3>1, <3>2, <3>3
  <2>2. T = S \cup {Len(s) + 1}
    BY <2>1
  <2>3. Len(s) + 1 \notin S
    BY <1>2, <1>3
  <2>4. Cardinality(T) = Cardinality(S) + 1
    BY <1>4, <2>2, <2>3, FS_AddElement
  <2> QED
    BY <1>8, <1>5, <2>4
<1>9. CASE e # m
  <2>1. T = S
    BY <1>2, <1>3, <1>6, <1>7, <1>9
  <2> QED
    BY <1>4, <1>9, <1>5, <2>1
<1> QED
  BY <1>8, <1>9

\* The order of a list does not matter.
LEMMA NamesReverse ==
  ASSUME NEW s \in Seq(Nat), NEW m
  PROVE  Reverse(s) \in Seq(Nat) /\ Names(Reverse(s), m) = Names(s, m)
<1>1. PICK n \in Nat : n = Len(s)
  OBVIOUS
<1>2. PICK r : r = [i \in 1 .. n |-> s[(n - i) + 1]]
  OBVIOUS
<1>3. Reverse(s) = r
  BY <1>1, <1>2 DEF Reverse
<1>4. \A i \in 1 .. n : (n - i) + 1 \in 1 .. n /\ (n - ((n - i) + 1)) + 1 = i
  OBVIOUS
<1>5. \A i \in 1 .. n : s[(n - i) + 1] \in Nat
  BY <1>1, <1>4
<1>6. r \in Seq(Nat) /\ Len(r) = n /\ \A i \in 1 .. n : r[i] = s[(n - i) + 1]
  BY <1>2, <1>5
<1>7. PICK S, T : S = {j \in 1 .. n : s[j] = m} /\ T = {j \in 1 .. n : r[j] = m}
  OBVIOUS
<1>8. PICK f : f = [j \in S |-> (n - j) + 1]
  OBVIOUS
<1>9. S \subseteq 1 .. n /\ T \subseteq 1 .. n
  BY <1>7
<1>10. f \in [S -> T]
  <2>1. ASSUME NEW j \in S PROVE (n - j) + 1 \in T
    <3>1. j \in 1 .. n /\ s[j] = m
      BY <1>7
    <3>2. (n - j) + 1 \in 1 .. n /\ r[(n - j) + 1] = s[j]
      BY <1>4, <1>6, <3>1
    <3> QED
      BY <1>7, <3>1, <3>2
  <2> QED
    BY <1>8, <2>1
<1>11. \A a, b \in S : f[a] = f[b] => a = b
  BY <1>8, <1>9
<1>12. \A t \in T : \E j \in S : f[j] = t
  <2>1. ASSUME NEW t \in T PROVE \E j \in S : f[j] = t
    <3>1. t \in 1 .. n /\ r[t] = m
      BY <1>7
    <3>2. (n - t) + 1 \in 1 .. n /\ s[(n - t) + 1] = m /\ (n - ((n - t) + 1)) + 1 = t
      BY <1>4, <1>6, <3>1
    <3>3. (n - t) + 1 \in S
      BY <1>7, <3>2
    <3> QED
      BY <1>8, <3>2, <3>3
  <2> QED
    BY <2>1
<1>13. f \in Bijection(S, T)
  BY <1>10, <1>11, <1>12, Fun_IsBij
<1>14. IsFiniteSet(S)
  BY <1>1, <1>7, NamesType
<1>15. Cardinality(T) = Cardinality(S)
  BY <1>13, <1>14, FS_Bijection DEF ExistsBijection
<1> QED
  BY <1>1, <1>3, <1>6, <1>7, <1>15 DEF Names

LEMMA EntriesAre ==
  ASSUME NEW lists, NEW m
  PROVE  /\ \A e \in Entries(lists, m) :
              \E i \in 1 .. Len(lists) : \E j \in 1 .. Len(lists[i]) :
                lists[i][j] = m /\ e = <<i, j>>
         /\ \A i \in 1 .. Len(lists) : \A j \in 1 .. Len(lists[i]) :
              lists[i][j] = m => <<i, j>> \in Entries(lists, m)
  BY DEF Entries

LEMMA EntriesFinite ==
  ASSUME NEW lists \in Lists, NEW m
  PROVE  /\ IsFiniteSet(Entries(lists, m)) /\ CountIn(lists, m) \in Nat
         /\ CountIn(lists, m) > 0 <=> Entries(lists, m) # {}
<1> DEFINE Of(i) == {i} \X {j \in 1 .. Len(lists[i]) : lists[i][j] = m}
<1>1. Len(lists) \in Nat /\ \A i \in 1 .. Len(lists) : lists[i] \in Seq(Nat)
  BY DEF Lists
<1>2. ASSUME NEW i \in 1 .. Len(lists) PROVE IsFiniteSet(Of(i))
  <2>1. IsFiniteSet({j \in 1 .. Len(lists[i]) : lists[i][j] = m})
    BY <1>1, NamesType
  <2>2. IsFiniteSet({i})
    BY FS_Singleton
  <2> QED
    BY <2>1, <2>2, FS_Product
<1> HIDE DEF Of
<1>3. IsFiniteSet({Of(i) : i \in 1 .. Len(lists)})
  <2>1. PICK f : f = [i \in 1 .. Len(lists) |-> Of(i)]
    OBVIOUS
  <2>2. f \in Surjection(1 .. Len(lists), {Of(i) : i \in 1 .. Len(lists)})
    BY <2>1, Fun_IsSurj
  <2> QED
    BY <1>1, <2>2, FS_Interval, FS_Surjection
<1>4. IsFiniteSet(UNION {Of(i) : i \in 1 .. Len(lists)})
  BY <1>2, <1>3, FS_UNION
<1>5. Entries(lists, m) = UNION {Of(i) : i \in 1 .. Len(lists)}
  BY DEF Entries, Of
<1>6. CountIn(lists, m) \in Nat /\ (CountIn(lists, m) = 0 <=> Entries(lists, m) = {})
  BY <1>4, <1>5, FS_CardinalityType, FS_EmptySet DEF CountIn
<1> QED
  BY <1>4, <1>5, <1>6

LEMMA CountEmpty == ASSUME NEW m PROVE CountIn(<<>>, m) = 0
<1>1. Len(<<>>) = 0 /\ 1 .. 0 = {}
  BY EmptySeq
<1>2. Entries(<<>>, m) = {}
  BY <1>1, EntriesAre
<1> QED
  BY <1>2, FS_EmptySet DEF CountIn

LEMMA CountOne ==
  ASSUME NEW s \in Seq(Nat), NEW m
  PROVE  CountIn(<<s>>, m) = Names(s, m)
<1>1. PICK S, T : S = {j \in 1 .. Len(s) : s[j] = m} /\ T = Entries(<<s>>, m)
  OBVIOUS
<1>2. PICK one : one = <<s>>
  OBVIOUS
<1>3. Len(one) = 1 /\ one[1] = s /\ \A i : i \in 1 .. 1 <=> i = 1
  BY <1>2
<1>4. PICK f : f = [j \in S |-> <<1, j>>]
  OBVIOUS
<1>5. \A e \in T : \E j \in S : e = <<1, j>>
  <2>1. ASSUME NEW e \in T PROVE \E j \in S : e = <<1, j>>
    <3>1. PICK i \in 1 .. Len(one) : \E j \in 1 .. Len(one[i]) : one[i][j] = m /\ e = <<i, j>>
      BY <1>1, <1>2, EntriesAre
    <3>2. i = 1
      BY <1>3, <3>1
    <3> QED
      BY <1>1, <1>3, <3>1, <3>2
  <2> QED
    BY <2>1
<1>6. \A j \in S : <<1, j>> \in T
  BY <1>1, <1>2, <1>3, EntriesAre
<1>7. f \in [S -> T]
  BY <1>4, <1>6
<1>8. \A a, b \in S : f[a] = f[b] => a = b
  BY <1>4
<1>9. \A e \in T : \E j \in S : f[j] = e
  BY <1>4, <1>5
<1>10. f \in Bijection(S, T)
  BY <1>7, <1>8, <1>9, Fun_IsBij
<1>11. IsFiniteSet(S)
  BY <1>1, NamesType
<1>12. Cardinality(T) = Cardinality(S)
  BY <1>10, <1>11, FS_Bijection DEF ExistsBijection
<1> QED
  BY <1>1, <1>12 DEF Names, CountIn

\* The entries of two groups of lists, one after the other.
LEMMA CountConcat ==
  ASSUME NEW A \in Lists, NEW B \in Lists, NEW m
  PROVE  A \o B \in Lists /\ CountIn(A \o B, m) = CountIn(A, m) + CountIn(B, m)
<1>1. PICK C : C = A \o B
  OBVIOUS
<1>2. PICK a \in Nat, b \in Nat : a = Len(A) /\ b = Len(B)
  BY DEF Lists
<1>3. /\ C \in Lists /\ Len(C) = a + b
      /\ \A i \in 1 .. a : C[i] = A[i]
      /\ \A i \in 1 .. b : C[a + i] = B[i]
  <2>1. C \in Lists /\ Len(C) = a + b /\ \A i \in 1 .. a + b : C[i] = IF i <= a THEN A[i] ELSE B[i - a]
    BY <1>1, <1>2, ConcatProperties DEF Lists
  <2>2. \A i \in 1 .. a : i \in 1 .. a + b /\ i <= a
    OBVIOUS
  <2>3. \A i \in 1 .. b : a + i \in 1 .. a + b /\ ~(a + i <= a) /\ (a + i) - a = i
    OBVIOUS
  <2> QED
    BY <2>1, <2>2, <2>3
<1>4. PICK S, T, D : S = Entries(A, m) /\ T = Entries(B, m) /\ D = Entries(C, m)
  OBVIOUS
<1>5. \A e \in T : e[1] \in 1 .. b /\ e = <<e[1], e[2]>>
  BY <1>2, <1>4, EntriesAre
<1>6. PICK f : f = [e \in T |-> <<a + e[1], e[2]>>]
  OBVIOUS
<1>7. PICK R : R = {f[e] : e \in T}
  OBVIOUS
<1>8. \A x, y \in T : f[x] = f[y] => x = y
  <2>1. ASSUME NEW x \in T, NEW y \in T, f[x] = f[y] PROVE x = y
    <3>1. a + x[1] = a + y[1] /\ x[2] = y[2]
      BY <1>6, <2>1
    <3>2. x[1] = y[1]
      BY <1>5, <3>1
    <3> QED
      BY <1>5, <3>1, <3>2
  <2> QED
    BY <2>1
<1>9. f \in Bijection(T, R)
  <2>1. f \in [T -> R] /\ \A t \in R : \E e \in T : f[e] = t
    BY <1>6, <1>7
  <2> QED
    BY <1>8, <2>1, Fun_IsBij
<1>10. /\ IsFiniteSet(S) /\ IsFiniteSet(T)
       /\ Cardinality(S) = CountIn(A, m) /\ Cardinality(T) = CountIn(B, m)
       /\ Cardinality(D) = CountIn(C, m)
       /\ CountIn(A, m) \in Nat /\ CountIn(B, m) \in Nat
  BY <1>4, EntriesFinite DEF CountIn
<1>11. IsFiniteSet(R) /\ Cardinality(R) = Cardinality(T)
  BY <1>9, <1>10, FS_Bijection DEF ExistsBijection
<1>12. \A e \in S \cup R : e \in D
  <2>1. ASSUME NEW e \in S PROVE e \in D
    <3>1. PICK i \in 1 .. a : \E j \in 1 .. Len(A[i]) : A[i][j] = m /\ e = <<i, j>>
      BY <1>2, <1>4, EntriesAre
    <3>2. C[i] = A[i] /\ i \in 1 .. Len(C)
      BY <1>3
    <3> QED
      BY <1>4, <3>1, <3>2, EntriesAre
  <2>2. ASSUME NEW e \in R PROVE e \in D
    <3>1. PICK t \in T : e = <<a + t[1], t[2]>>
      BY <1>6, <1>7
    <3>2. PICK i \in 1 .. b : \E j \in 1 .. Len(B[i]) : B[i][j] = m /\ t = <<i, j>>
      BY <1>2, <1>4, EntriesAre
    <3>3. C[a + i] = B[i] /\ a + i \in 1 .. Len(C)
      BY <1>3
    <3>4. PICK j \in 1 .. Len(B[i]) : B[i][j] = m /\ e = <<a + i, j>>
      BY <3>1, <3>2
    <3> QED
      BY <1>4, <3>3, <3>4, EntriesAre
  <2> QED
    BY <2>1, <2>2
<1>13. \A e \in D : e \in S \cup R
  <2>1. ASSUME NEW e \in D PROVE e \in S \cup R
    <3>1. PICK i \in 1 .. Len(C) : \E j \in 1 .. Len(C[i]) : C[i][j] = m /\ e = <<i, j>>
      BY <1>4, EntriesAre
    <3>2. PICK j \in 1 .. Len(C[i]) : C[i][j] = m /\ e = <<i, j>>
      BY <3>1
    <3>3. CASE i <= a
      <4>1. i \in 1 .. Len(A) /\ C[i] = A[i]
        BY <1>2, <1>3, <3>3
      <4> QED
        BY <1>4, <3>2, <4>1, EntriesAre
    <3>4. CASE ~(i <= a)
      <4>1. i - a \in 1 .. b /\ a + (i - a) = i
        BY <1>3, <3>4
      <4>2. C[i] = B[i - a]
        BY <1>3, <4>1
      <4>3. <<i - a, j>> \in T
        BY <1>2, <1>4, <3>2, <4>1, <4>2, EntriesAre
      <4>4. f[<<i - a, j>>] = e
        BY <1>6, <3>2, <4>1, <4>3
      <4> QED
        BY <1>7, <4>3, <4>4
    <3> QED
      BY <3>3, <3>4
  <2> QED
    BY <2>1
<1>14. S \cap R = {}
  <2>1. ASSUME NEW e \in S, e \in R PROVE FALSE
    <3>1. PICK i \in 1 .. a : e[1] = i
      BY <1>2, <1>4, EntriesAre
    <3>2. PICK t \in T : e = <<a + t[1], t[2]>>
      BY <1>6, <1>7, <2>1
    <3>3. e[1] = a + t[1] /\ t[1] \in 1 .. b
      BY <1>5, <3>2
    <3> QED
      BY <3>1, <3>3
  <2> QED
    BY <2>1
<1>15. D = S \cup R
  BY <1>12, <1>13
<1>16. Cardinality(D) = Cardinality(S) + Cardinality(R)
  <2>1. Cardinality(D) = Cardinality(S) + Cardinality(R) - Cardinality(S \cap R)
    BY <1>10, <1>11, <1>15, FS_Union
  <2>2. Cardinality(S \cap R) = 0
    BY <1>14, FS_EmptySet
  <2>3. Cardinality(S) \in Nat /\ Cardinality(R) \in Nat
    BY <1>10, <1>11
  <2> QED
    BY <2>1, <2>2, <2>3
<1> QED
  BY <1>1, <1>3, <1>10, <1>11, <1>16

-----------------------------------------------------------------------------
(* The types of the tables. *)

\* A table of at most size objects of R.
Table(t, size, R) == DOMAIN t \subseteq 0 .. size - 1 /\ t \in [DOMAIN t -> R]

RefCount == 0 .. RefMod - 1
PdRec == [ref : RefCount]
AhRec == [ref : RefCount, pd : Nat]
MrRec == [ref : RefCount, pd : Nat, type : MrTypes,
          state : {"VALID", "FREE", "DESTROYED"}]
\* Without "local_sges" a local WR has no scatter list.
SendWr == {wr \in [sges : SgeLists \cup {<<>>}, error : BOOLEAN, local : BOOLEAN] :
             wr.local /\ "local_sges" \notin Calls => wr.sges = <<>>}
QpRec == [type : QpTypes \cup {"MAX"}, pd : Int, scq : Int, rcq : Int,
          sq : Seq(SendWr), rq : Seq(SgeLists), resp : Seq(SgeLists)]

ResTypes ==
  /\ Table(pds, PdSlots, PdRec) /\ Table(cqs, CqSlots, PdRec)
  /\ Table(ahs, AhSlots, AhRec) /\ Table(mrs, MrSlots, MrRec)
  /\ Table(qps, QpSlots, QpRec)
  /\ gsi \in [used : BOOLEAN, handle : {0, Gsi}]
  /\ crash \in {"none", "put_pd", "null_rcq", "gsi_handle", "map_pages"}

\* Scatter lists are lists of MR indices.
LEMMA SgesType == /\ SgeLists \subseteq Seq(Nat) /\ SgeLists \cup {<<>>} \subseteq Seq(Nat)
                  /\ Seq(SgeLists) \subseteq Lists
<1>1. SgeLists \subseteq Seq(Nat) /\ <<>> \in Seq(Nat)
  BY ResourcesAssumption, EmptySeq
<1>2. SgeLists \cup {<<>>} \subseteq Seq(Nat)
  BY <1>1
<1> QED
  BY <1>1, <1>2, SeqMonotonic DEF Lists

LEMMA TableFinite ==
  ASSUME NEW t, NEW size \in Nat, NEW R, Table(t, size, R)
  PROVE  IsFiniteSet(DOMAIN t) /\ Cardinality(DOMAIN t) \in Nat /\ Cardinality(DOMAIN t) <= size
<1>1. IsFiniteSet(0 .. size - 1) /\ Cardinality(0 .. size - 1) <= size
  <2>1. size - 1 \in Int
    OBVIOUS
  <2>2. PICK n \in Int : n = size - 1
    BY <2>1
  <2>3. IsFiniteSet(0 .. n) /\ Cardinality(0 .. n) = IF 0 > n THEN 0 ELSE n - 0 + 1
    BY FS_Interval
  <2>4. Cardinality(0 .. n) <= size
    BY <2>2, <2>3
  <2> QED
    BY <2>2, <2>3, <2>4
<1>2. DOMAIN t \in SUBSET (0 .. size - 1)
  BY DEF Table
<1>3. Cardinality(0 .. size - 1) \in Nat
  BY <1>1, FS_CardinalityType
<1>4. IsFiniteSet(DOMAIN t) /\ Cardinality(DOMAIN t) <= Cardinality(0 .. size - 1)
  BY <1>1, <1>2, FS_Subset
<1>5. Cardinality(DOMAIN t) \in Nat
  BY <1>4, FS_CardinalityType
<1>6. Cardinality(DOMAIN t) <= size
  BY <1>1, <1>3, <1>4, <1>5
<1> QED
  BY <1>4, <1>5, <1>6

\* Another object in the place of one.
Replace(t, h, obj) == [t EXCEPT ![h] = obj]

\* A new object, one object fewer, another object in the place of one.
LEMMA InsertIs ==
  ASSUME NEW t, NEW h, NEW obj
  PROVE  /\ DOMAIN Insert(t, h, obj) = DOMAIN t \cup {h}
         /\ Insert(t, h, obj)[h] = obj
         /\ \A g \in DOMAIN t \ {h} : Insert(t, h, obj)[g] = t[g]
         /\ ResourceFree(Insert(t, h, obj), h) = ResourceFree(t, h)
<1>1. DOMAIN Insert(t, h, obj) = DOMAIN t \cup {h}
  BY DEF Insert
<1>2. Insert(t, h, obj)[h] = obj /\ \A g \in DOMAIN t \ {h} : Insert(t, h, obj)[g] = t[g]
  BY DEF Insert
<1>3. ResourceFree(Insert(t, h, obj), h) = ResourceFree(t, h)
  BY <1>1, <1>2 DEF ResourceFree
<1> QED
  BY <1>1, <1>2, <1>3

LEMMA FreeIs ==
  ASSUME NEW t, NEW h
  PROVE  /\ DOMAIN ResourceFree(t, h) = DOMAIN t \ {h}
         /\ \A g \in DOMAIN t \ {h} : ResourceFree(t, h)[g] = t[g]
  BY DEF ResourceFree

LEMMA ReplaceIs ==
  ASSUME NEW t, NEW h, NEW obj
  PROVE  /\ DOMAIN Replace(t, h, obj) = DOMAIN t
         /\ h \in DOMAIN t => Replace(t, h, obj)[h] = obj
         /\ \A g \in DOMAIN t \ {h} : Replace(t, h, obj)[g] = t[g]
         /\ ResourceFree(Replace(t, h, obj), h) = ResourceFree(t, h)
<1>1. /\ DOMAIN Replace(t, h, obj) = DOMAIN t
      /\ h \in DOMAIN t => Replace(t, h, obj)[h] = obj
      /\ \A g \in DOMAIN t \ {h} : Replace(t, h, obj)[g] = t[g]
  BY DEF Replace
<1>2. ResourceFree(Replace(t, h, obj), h) = ResourceFree(t, h)
  BY <1>1 DEF ResourceFree
<1> QED
  BY <1>1, <1>2

LEMMA TableInsert ==
  ASSUME NEW t, NEW size, NEW R, Table(t, size, R), NEW h, h \in 0 .. size - 1,
         NEW obj, obj \in R
  PROVE  Table(Insert(t, h, obj), size, R)
<1>1. DOMAIN t \subseteq 0 .. size - 1 /\ t \in [DOMAIN t -> R]
  BY DEF Table
<1>2. /\ DOMAIN Insert(t, h, obj) = DOMAIN t \cup {h}
      /\ Insert(t, h, obj) \in [DOMAIN t \cup {h} -> R]
  BY <1>1 DEF Insert
<1> QED
  BY <1>1, <1>2 DEF Table

LEMMA TableFree ==
  ASSUME NEW t, NEW size, NEW R, Table(t, size, R), NEW h
  PROVE  /\ Table(ResourceFree(t, h), size, R)
         /\ h \notin DOMAIN t => ResourceFree(t, h) = t
<1>1. DOMAIN t \subseteq 0 .. size - 1 /\ t \in [DOMAIN t -> R]
  BY DEF Table
<1>2. /\ DOMAIN ResourceFree(t, h) = DOMAIN t \ {h}
      /\ ResourceFree(t, h) \in [DOMAIN t \ {h} -> R]
  BY <1>1 DEF ResourceFree
<1>3. Table(ResourceFree(t, h), size, R)
  BY <1>1, <1>2 DEF Table
<1>4. h \notin DOMAIN t => ResourceFree(t, h) = t
  BY <1>1 DEF ResourceFree
<1> QED
  BY <1>3, <1>4

LEMMA TableReplace ==
  ASSUME NEW t, NEW size, NEW R, Table(t, size, R), NEW h, NEW obj, obj \in R
  PROVE  Table(Replace(t, h, obj), size, R)
<1>1. DOMAIN t \subseteq 0 .. size - 1 /\ t \in [DOMAIN t -> R]
  BY DEF Table
<1>2. Replace(t, h, obj) \in [DOMAIN t -> R] /\ DOMAIN Replace(t, h, obj) = DOMAIN t
  BY <1>1 DEF Replace
<1> QED
  BY <1>1, <1>2 DEF Table

\* A table that is not full gives out a free handle.
LEMMA AllocFree ==
  ASSUME NEW t, NEW size \in Nat, ~Full(size, t)
  PROVE  ResourceAlloc(size, t) \in 0 .. size - 1 /\ ResourceAlloc(size, t) \notin DOMAIN t
<1>1. FreeSlots(size, t) # {} /\ FreeSlots(size, t) \in SUBSET Nat
  BY DEF Full, FreeSlots
<1>2. \E h \in FreeSlots(size, t) : \A g \in FreeSlots(size, t) : h <= g
  BY <1>1, Least
<1>3. ResourceAlloc(size, t) \in FreeSlots(size, t)
  BY <1>2 DEF ResourceAlloc
<1> QED
  BY <1>3 DEF FreeSlots

-----------------------------------------------------------------------------
(* The WRs a QP holds. *)

\* The lists that the WRs of a send queue hold.
HeldOf(sq) == [i \in 1 .. Len(sq) |-> IF sq[i].error THEN <<>> ELSE sq[i].sges]

LEMMA HeldOfType ==
  ASSUME NEW sq \in Seq(SendWr)
  PROVE  HeldOf(sq) \in Lists /\ Len(HeldOf(sq)) = Len(sq)
<1>1. PICK n \in Nat : n = Len(sq)
  OBVIOUS
<1>2. PICK h : h = HeldOf(sq)
  OBVIOUS
<1>3. h = [i \in 1 .. n |-> IF sq[i].error THEN <<>> ELSE sq[i].sges]
  BY <1>1, <1>2 DEF HeldOf
<1>4. \A i \in 1 .. n : h[i] \in Seq(Nat)
  <2>1. ASSUME NEW i \in 1 .. n PROVE h[i] \in Seq(Nat)
    <3>1. sq[i] \in SendWr
      BY <1>1
    <3>2. sq[i].sges \in Seq(Nat) /\ <<>> \in Seq(Nat)
      BY <3>1, SgesType, EmptySeq DEF SendWr
    <3>3. h[i] = IF sq[i].error THEN <<>> ELSE sq[i].sges
      BY <1>3
    <3> QED
      BY <3>2, <3>3
  <2> QED
    BY <2>1
<1>5. h = [i \in 1 .. n |-> h[i]]
  BY <1>3
<1>6. h \in Seq(Seq(Nat)) /\ Len(h) = n
  BY ONLY <1>4, <1>5, n \in Nat
<1> QED
  BY <1>1, <1>2, <1>6 DEF Lists

LEMMA HeldTypes ==
  ASSUME NEW qp \in QpRec
  PROVE  /\ HeldBySq(qp) \in Lists /\ Len(HeldBySq(qp)) = Len(qp.sq)
         /\ qp.rq \in Lists /\ qp.resp \in Lists /\ HeldByQp(qp) \in Lists
         /\ Len(HeldByQp(qp)) = Len(qp.sq) + Len(qp.rq) + Len(qp.resp)
<1>1. qp.sq \in Seq(SendWr) /\ qp.rq \in Lists /\ qp.resp \in Lists
  BY SgesType DEF QpRec
<1>2. PICK h : h = HeldBySq(qp)
  OBVIOUS
<1>3. h \in Lists /\ Len(h) = Len(qp.sq)
  BY <1>1, <1>2, HeldOfType DEF HeldBySq, HeldOf
<1>4. h \o qp.rq \in Lists /\ Len(h \o qp.rq) = Len(h) + Len(qp.rq)
  BY <1>1, <1>3, ConcatProperties DEF Lists
<1>5. h \o qp.rq \o qp.resp \in Lists /\ Len(h \o qp.rq \o qp.resp) = Len(h \o qp.rq) + Len(qp.resp)
  BY <1>1, <1>4, ConcatProperties DEF Lists
<1>6. HeldByQp(qp) = h \o qp.rq \o qp.resp
  BY <1>2 DEF HeldByQp
<1> QED
  BY <1>1, <1>2, <1>3, <1>4, <1>5, <1>6 DEF Lists

\* The MRs a QP uses: by its send queue, its receive queue, and the WR being filled.
LEMMA HeldCount ==
  ASSUME NEW qp \in QpRec, NEW m
  PROVE  /\ CountIn(HeldByQp(qp), m)
              = CountIn(HeldBySq(qp), m) + CountIn(qp.rq, m) + CountIn(qp.resp, m)
         /\ CountIn(HeldBySq(qp) \o qp.rq, m) = CountIn(HeldBySq(qp), m) + CountIn(qp.rq, m)
<1>1. HeldBySq(qp) \in Lists /\ qp.rq \in Lists /\ qp.resp \in Lists
  BY HeldTypes
<1>2. /\ HeldBySq(qp) \o qp.rq \in Lists
      /\ CountIn(HeldBySq(qp) \o qp.rq, m) = CountIn(HeldBySq(qp), m) + CountIn(qp.rq, m)
  BY <1>1, CountConcat
<1>3. CountIn(HeldByQp(qp), m) = CountIn(HeldBySq(qp) \o qp.rq, m) + CountIn(qp.resp, m)
  BY <1>1, <1>2, CountConcat DEF HeldByQp
<1> QED
  BY <1>2, <1>3

-----------------------------------------------------------------------------
(* The uses of an MR, and the holders of a PD or CQ, table entry by entry. *)

\* Uses(m) for any table of QPs.
UsesOf(t, m) ==
  Cardinality(UNION {{q} \X Entries(HeldByQp(t[q]), m) : q \in DOMAIN t})

Scqs(t, h) == Cardinality({q \in DOMAIN t : t[q].scq = h})
Rcqs(t, h) == Cardinality({q \in DOMAIN t : t[q].rcq = h})

LEMMA UsesFinite ==
  ASSUME NEW t, NEW size \in Nat, Table(t, size, QpRec), NEW m
  PROVE  /\ IsFiniteSet(UNION {{q} \X Entries(HeldByQp(t[q]), m) : q \in DOMAIN t})
         /\ UsesOf(t, m) \in Nat
         /\ UsesOf(t, m) > 0 <=> \E q \in DOMAIN t : CountIn(HeldByQp(t[q]), m) > 0
<1> DEFINE Of(q) == {q} \X Entries(HeldByQp(t[q]), m)
<1>1. IsFiniteSet(DOMAIN t) /\ \A q \in DOMAIN t : HeldByQp(t[q]) \in Lists
  BY TableFinite, HeldTypes DEF Table
<1>2. ASSUME NEW q \in DOMAIN t PROVE IsFiniteSet(Of(q))
  BY <1>1, EntriesFinite, FS_Singleton, FS_Product
<1>3. \A q \in DOMAIN t : Of(q) # {} <=> CountIn(HeldByQp(t[q]), m) > 0
  <2>1. ASSUME NEW q \in DOMAIN t PROVE Of(q) # {} <=> CountIn(HeldByQp(t[q]), m) > 0
    <3>1. PICK E : E = Entries(HeldByQp(t[q]), m)
      OBVIOUS
    <3>2. CountIn(HeldByQp(t[q]), m) > 0 <=> E # {}
      BY <1>1, <3>1, EntriesFinite
    <3>3. {q} \X E # {} <=> E # {}
      <4>1. \A e \in E : <<q, e>> \in {q} \X E
        OBVIOUS
      <4>2. \A x \in {q} \X E : x[2] \in E
        OBVIOUS
      <4> QED
        BY <4>1, <4>2
    <3> QED
      BY <3>1, <3>2, <3>3
  <2> QED
    BY <2>1
<1> HIDE DEF Of
<1>4. IsFiniteSet({Of(q) : q \in DOMAIN t})
  <2>1. PICK f : f = [q \in DOMAIN t |-> Of(q)]
    OBVIOUS
  <2>2. f \in Surjection(DOMAIN t, {Of(q) : q \in DOMAIN t})
    BY <2>1, Fun_IsSurj
  <2> QED
    BY <1>1, <2>2, FS_Surjection
<1>5. PICK U : U = UNION {Of(q) : q \in DOMAIN t}
  OBVIOUS
<1>6. IsFiniteSet(U)
  BY <1>2, <1>4, <1>5, FS_UNION
<1>7. U = {} <=> \A q \in DOMAIN t : Of(q) = {}
  BY <1>5
<1>8. Cardinality(U) \in Nat /\ (Cardinality(U) = 0 <=> U = {})
  BY <1>6, FS_CardinalityType, FS_EmptySet
<1>9. UsesOf(t, m) = Cardinality(U) /\ U = UNION {{q} \X Entries(HeldByQp(t[q]), m) : q \in DOMAIN t}
  BY <1>5 DEF UsesOf, Of
<1> QED
  BY <1>3, <1>6, <1>7, <1>8, <1>9

\* The uses by one QP, and those by the others.
LEMMA UsesWithout ==
  ASSUME NEW t, NEW size \in Nat, Table(t, size, QpRec), NEW q \in DOMAIN t, NEW m
  PROVE  /\ UsesOf(t, m) = UsesOf(ResourceFree(t, q), m) + CountIn(HeldByQp(t[q]), m)
         /\ UsesOf(ResourceFree(t, q), m) \in Nat
<1>1. PICK r : r = ResourceFree(t, q)
  OBVIOUS
<1>2. DOMAIN r = DOMAIN t \ {q} /\ Table(r, size, QpRec) /\ \A g \in DOMAIN r : r[g] = t[g]
  BY <1>1, TableFree, FreeIs
<1>3. PICK E : E = Entries(HeldByQp(t[q]), m)
  OBVIOUS
<1>4. PICK U, R, V :
        /\ U = UNION {{g} \X Entries(HeldByQp(t[g]), m) : g \in DOMAIN t}
        /\ R = UNION {{g} \X Entries(HeldByQp(r[g]), m) : g \in DOMAIN r}
        /\ V = {q} \X E
  OBVIOUS
<1>5. U = R \cup V
  <2>1. ASSUME NEW x PROVE x \in U <=> x \in R \/ x \in V
    BY <1>2, <1>3, <1>4
  <2> QED
    BY <2>1
<1>6. R \cap V = {}
  BY <1>2, <1>4
<1>7. IsFiniteSet(E) /\ Cardinality(E) = CountIn(HeldByQp(t[q]), m) /\ Cardinality(E) \in Nat
  <2>1. HeldByQp(t[q]) \in Lists
    BY HeldTypes DEF Table
  <2> QED
    BY <1>3, <2>1, EntriesFinite DEF CountIn
<1>8. IsFiniteSet(V) /\ Cardinality(V) = 1 * Cardinality(E)
  <2>1. PICK Q : Q = {q}
    OBVIOUS
  <2>2. IsFiniteSet(Q) /\ Cardinality(Q) = 1
    BY <2>1, FS_Singleton
  <2>3. IsFiniteSet(Q \X E) /\ Cardinality(Q \X E) = Cardinality(Q) * Cardinality(E)
    BY <1>7, <2>2, FS_Product
  <2> QED
    BY <1>4, <2>1, <2>2, <2>3
<1>9. IsFiniteSet(R) /\ Cardinality(R) = UsesOf(r, m) /\ UsesOf(r, m) \in Nat
  BY <1>2, <1>4, UsesFinite DEF UsesOf
<1>10. Cardinality(U) = Cardinality(R) + Cardinality(V)
  <2>1. Cardinality(U) = Cardinality(R) + Cardinality(V) - Cardinality(R \cap V)
    BY <1>5, <1>8, <1>9, FS_Union
  <2>2. Cardinality(R \cap V) = 0
    BY <1>6, FS_EmptySet
  <2>3. Cardinality(R) \in Nat /\ Cardinality(V) \in Nat
    BY <1>7, <1>8, <1>9
  <2> QED
    BY <2>1, <2>2, <2>3
<1>11. UsesOf(t, m) = Cardinality(U)
  BY <1>4 DEF UsesOf
<1> QED
  BY <1>1, <1>7, <1>8, <1>9, <1>10, <1>11

\* The QP q becomes qp, or is created as qp, or goes.
LEMMA UsesSteps ==
  ASSUME NEW t, NEW size \in Nat, Table(t, size, QpRec), NEW qp \in QpRec,
         NEW q, q \in 0 .. size - 1, NEW m
  PROVE  /\ q \in DOMAIN t =>
              UsesOf(Replace(t, q, qp), m) + CountIn(HeldByQp(t[q]), m)
                = UsesOf(t, m) + CountIn(HeldByQp(qp), m)
         /\ q \in DOMAIN t =>
              UsesOf(Insert(t, q, qp), m) + CountIn(HeldByQp(t[q]), m)
                = UsesOf(t, m) + CountIn(HeldByQp(qp), m)
         /\ q \notin DOMAIN t =>
              UsesOf(Insert(t, q, qp), m) = UsesOf(t, m) + CountIn(HeldByQp(qp), m)
         /\ q \in DOMAIN t =>
              UsesOf(ResourceFree(t, q), m) + CountIn(HeldByQp(t[q]), m) = UsesOf(t, m)
<1>1. PICK e, i, r : e = Replace(t, q, qp) /\ i = Insert(t, q, qp) /\ r = ResourceFree(t, q)
  OBVIOUS
<1>2. /\ Table(e, size, QpRec) /\ Table(i, size, QpRec) /\ Table(r, size, QpRec)
  <2>1. Table(Insert(t, q, qp), size, QpRec)
    BY TableInsert
  <2>2. Table(Replace(t, q, qp), size, QpRec)
    BY TableReplace
  <2>3. Table(ResourceFree(t, q), size, QpRec)
    BY TableFree
  <2> QED
    BY <1>1, <2>1, <2>2, <2>3
<1>3. q \in DOMAIN i /\ ResourceFree(i, q) = r /\ i[q] = qp
  <2>1. DOMAIN Insert(t, q, qp) = DOMAIN t \cup {q}
    BY InsertIs, Zenon
  <2>2. ResourceFree(Insert(t, q, qp), q) = ResourceFree(t, q)
    BY InsertIs, Zenon
  <2>3. Insert(t, q, qp)[q] = qp
    BY DEF Insert
  <2> QED
    BY <1>1, <2>1, <2>2, <2>3
<1>4. q \in DOMAIN t => q \in DOMAIN e /\ e[q] = qp /\ ResourceFree(e, q) = r
  BY <1>1, ReplaceIs
<1>5. UsesOf(i, m) = UsesOf(r, m) + CountIn(HeldByQp(qp), m)
  BY <1>2, <1>3, UsesWithout
<1>6. q \in DOMAIN t => UsesOf(e, m) = UsesOf(r, m) + CountIn(HeldByQp(qp), m)
  BY <1>2, <1>4, UsesWithout
<1>7. q \in DOMAIN t => UsesOf(t, m) = UsesOf(r, m) + CountIn(HeldByQp(t[q]), m)
  BY <1>1, UsesWithout
<1>8. q \notin DOMAIN t => r = t
  BY <1>1, TableFree
<1>9. /\ UsesOf(r, m) \in Nat /\ UsesOf(t, m) \in Nat
      /\ CountIn(HeldByQp(qp), m) \in Nat
      /\ q \in DOMAIN t => CountIn(HeldByQp(t[q]), m) \in Nat
  <2>1. UsesOf(r, m) \in Nat /\ UsesOf(t, m) \in Nat
    BY <1>2, UsesFinite
  <2>2. ASSUME NEW x \in QpRec PROVE CountIn(HeldByQp(x), m) \in Nat
    BY HeldTypes, EntriesFinite
  <2>3. q \in DOMAIN t => t[q] \in QpRec
    BY DEF Table
  <2> QED
    BY <2>1, <2>2, <2>3
<1> QED
  BY <1>1, <1>5, <1>6, <1>7, <1>8, <1>9

\* Every list a QP holds is one of SgeLists, or empty for a WR that failed.
LEMMA HeldLen ==
  ASSUME NEW qp \in QpRec, NEW i \in 1 .. Len(HeldByQp(qp))
  PROVE  HeldByQp(qp)[i] \in SgeLists \cup {<<>>}
<1>1. PICK S : S = SgeLists \cup {<<>>}
  OBVIOUS
<1>2. qp.sq \in Seq(SendWr) /\ qp.rq \in Seq(SgeLists) /\ qp.resp \in Seq(SgeLists)
  BY DEF QpRec
<1>3. qp.rq \in Seq(S) /\ qp.resp \in Seq(S)
  BY <1>1, <1>2, SeqMonotonic
<1>4. PICK n \in Nat : n = Len(qp.sq)
  BY <1>2
<1>5. PICK h : h = HeldBySq(qp)
  OBVIOUS
<1>6. h = [i0 \in 1 .. n |-> IF qp.sq[i0].error THEN <<>> ELSE qp.sq[i0].sges]
  BY <1>4, <1>5 DEF HeldBySq
<1>7. ASSUME NEW k \in 1 .. n PROVE h[k] \in S
  <2>1. qp.sq[k] \in SendWr
    BY <1>2, <1>4
  <2>2. h[k] = IF qp.sq[k].error THEN <<>> ELSE qp.sq[k].sges
    BY <1>6
  <2> QED
    BY <1>1, <2>1, <2>2 DEF SendWr
<1>8. h = [i0 \in 1 .. n |-> h[i0]]
  BY <1>6
<1>9. \A k \in 1 .. n : h[k] \in S
  BY <1>7
<1>10. h \in Seq(S)
  BY ONLY <1>8, <1>9, n \in Nat
<1>11. h \o qp.rq \in Seq(S)
  BY <1>3, <1>10, ConcatProperties
<1>12. h \o qp.rq \o qp.resp \in Seq(S)
  BY <1>3, <1>11, ConcatProperties
<1>13. HeldByQp(qp) = h \o qp.rq \o qp.resp
  BY <1>5 DEF HeldByQp
<1> QED
  BY <1>1, <1>12, <1>13, ElementOfSeq

\* No MR is used more often than the entries of all the queues.
LEMMA UsesBound ==
  ASSUME NEW t, Table(t, QpSlots, QpRec), NEW l \in Nat, \A s \in SgeLists : Len(s) <= l,
         \A q \in DOMAIN t :
           Len(t[q].sq) <= MaxWrs /\ Len(t[q].rq) <= MaxWrs /\ Len(t[q].resp) <= 1,
         NEW m
  PROVE  UsesOf(t, m) <= QpSlots * ((2 * MaxWrs + 1) * l)
<1>1. PICK w \in Nat : w = 2 * MaxWrs + 1 /\ MaxWrs \in Nat
  BY ResourcesAssumption
<1>2. PICK z \in Nat : z = QpSlots /\ z - 1 \in Int /\ z >= 3
  BY ResourcesAssumption
<1>3. PICK P : P = (0 .. z - 1) \X ((1 .. w) \X (1 .. l))
  OBVIOUS
<1>4. IsFiniteSet(P) /\ Cardinality(P) = z * (w * l)
  <2>1. PICK A, B, C : A = 0 .. z - 1 /\ B = 1 .. w /\ C = 1 .. l
    OBVIOUS
  <2>2. IsFiniteSet(A) /\ Cardinality(A) = z
    <3>1. PICK y \in Int : y = z - 1 /\ y >= 0 /\ y + 1 = z
      BY <1>2
    <3>2. IsFiniteSet(0 .. y) /\ Cardinality(0 .. y) = IF 0 > y THEN 0 ELSE y - 0 + 1
      BY FS_Interval
    <3>3. Cardinality(0 .. y) = z
      BY <3>1, <3>2
    <3> QED
      BY <2>1, <3>1, <3>2, <3>3
  <2>3. IsFiniteSet(B) /\ Cardinality(B) = w
    <3>1. IsFiniteSet(1 .. w) /\ Cardinality(1 .. w) = IF 1 > w THEN 0 ELSE w - 1 + 1
      BY FS_Interval
    <3> QED
      BY <2>1, <3>1
  <2>4. IsFiniteSet(C) /\ Cardinality(C) = l
    <3>1. IsFiniteSet(1 .. l) /\ Cardinality(1 .. l) = IF 1 > l THEN 0 ELSE l - 1 + 1
      BY FS_Interval
    <3> QED
      BY <2>1, <3>1
  <2>5. IsFiniteSet(B \X C) /\ Cardinality(B \X C) = w * l
    BY <2>3, <2>4, FS_Product
  <2>6. IsFiniteSet(A \X (B \X C)) /\ Cardinality(A \X (B \X C)) = z * (w * l)
    BY <2>2, <2>5, FS_Product
  <2> QED
    BY <1>3, <2>1, <2>6
<1>5. PICK U : U = UNION {{q} \X Entries(HeldByQp(t[q]), m) : q \in DOMAIN t}
  OBVIOUS
<1>6. ASSUME NEW x \in U PROVE x \in P
  <2>1. PICK q \in DOMAIN t : \E e \in Entries(HeldByQp(t[q]), m) : x = <<q, e>>
    BY <1>5
  <2>2. PICK e \in Entries(HeldByQp(t[q]), m) : x = <<q, e>>
    BY <2>1
  <2>3. t[q] \in QpRec /\ q \in 0 .. z - 1
    BY <1>2 DEF Table
  <2>4. PICK k : k = HeldByQp(t[q])
    OBVIOUS
  <2>5. /\ Len(k) = Len(t[q].sq) + Len(t[q].rq) + Len(t[q].resp)
        /\ k \in Lists
    BY <2>3, <2>4, HeldTypes
  <2>6. Len(t[q].sq) \in Nat /\ Len(t[q].rq) \in Nat /\ Len(t[q].resp) \in Nat
    BY <2>3, LenProperties DEF QpRec
  <2>7. Len(k) \in Nat /\ Len(k) <= w
    <3>1. PICK a \in Nat, b \in Nat, c \in Nat :
            a = Len(t[q].sq) /\ b = Len(t[q].rq) /\ c = Len(t[q].resp)
      BY <2>6
    <3>2. a <= MaxWrs /\ b <= MaxWrs /\ c <= 1
      BY <3>1
    <3>3. Len(k) = a + b + c
      BY <2>5, <3>1
    <3> QED
      BY <1>1, <3>2, <3>3
  <2>8. PICK i \in 1 .. Len(k) : \E j \in 1 .. Len(k[i]) : k[i][j] = m /\ e = <<i, j>>
    BY <2>2, <2>4, EntriesAre
  <2>9. PICK j \in 1 .. Len(k[i]) : e = <<i, j>>
    BY <2>8
  <2>10. k[i] \in SgeLists \cup {<<>>}
    BY <2>3, <2>4, <2>8, HeldLen
  <2>11. Len(k[i]) \in Nat /\ Len(k[i]) <= l
    BY <2>10, SgesType, EmptySeq
  <2>12. i \in 1 .. w /\ j \in 1 .. l
    BY <2>7, <2>8, <2>9, <2>11
  <2> QED
    BY <1>3, <2>2, <2>3, <2>9, <2>12
<1>7. Cardinality(U) <= Cardinality(P)
  BY <1>4, <1>6, FS_Subset
<1> QED
  BY <1>1, <1>2, <1>4, <1>5, <1>7 DEF UsesOf

-----------------------------------------------------------------------------
One(b) == IF b THEN 1 ELSE 0

\* A finite set, with and without an element.
LEMMA OneFewer ==
  ASSUME NEW S, IsFiniteSet(S), NEW q
  PROVE  /\ Cardinality(S) = Cardinality(S \ {q}) + One(q \in S)
         /\ Cardinality(S \ {q}) \in Nat /\ Cardinality(S) \in Nat
<1>1. IsFiniteSet(S \ {q}) /\ Cardinality(S \ {q}) = IF q \in S THEN Cardinality(S) - 1 ELSE Cardinality(S)
  BY FS_RemoveElement
<1>2. Cardinality(S) \in Nat /\ Cardinality(S \ {q}) \in Nat
  BY <1>1, FS_CardinalityType
<1> QED
  BY <1>1, <1>2 DEF One

\* The objects of a table that hold h, with and without the object q.
LEMMA HoldersWithout ==
  ASSUME NEW t, IsFiniteSet(DOMAIN t), NEW q \in DOMAIN t, NEW h
  PROVE  /\ Holders(t, h) = Holders(ResourceFree(t, q), h) + One(t[q].pd = h)
         /\ Holders(ResourceFree(t, q), h) \in Nat
<1>1. PICK r, S : r = ResourceFree(t, q) /\ S = {g \in DOMAIN t : t[g].pd = h}
  OBVIOUS
<1>2. DOMAIN r = DOMAIN t \ {q} /\ \A g \in DOMAIN t \ {q} : r[g] = t[g]
  BY <1>1, FreeIs
<1>3. {g \in DOMAIN r : r[g].pd = h} = S \ {q}
  BY <1>1, <1>2
<1>4. Holders(r, h) = Cardinality(S \ {q}) /\ Holders(t, h) = Cardinality(S)
  BY <1>1, <1>3 DEF Holders
<1>5. S \in SUBSET DOMAIN t /\ (q \in S <=> t[q].pd = h)
  BY <1>1
<1>6. IsFiniteSet(S)
  BY <1>5, FS_Subset
<1>7. Cardinality(S) = Cardinality(S \ {q}) + One(q \in S) /\ Cardinality(S \ {q}) \in Nat
  BY <1>6, OneFewer
<1> QED
  BY <1>1, <1>4, <1>5, <1>7 DEF One

LEMMA ScqsWithout ==
  ASSUME NEW t, IsFiniteSet(DOMAIN t), NEW q \in DOMAIN t, NEW h
  PROVE  /\ Scqs(t, h) = Scqs(ResourceFree(t, q), h) + One(t[q].scq = h)
         /\ Scqs(ResourceFree(t, q), h) \in Nat
<1>1. PICK r, S : r = ResourceFree(t, q) /\ S = {g \in DOMAIN t : t[g].scq = h}
  OBVIOUS
<1>2. DOMAIN r = DOMAIN t \ {q} /\ \A g \in DOMAIN t \ {q} : r[g] = t[g]
  BY <1>1, FreeIs
<1>3. {g \in DOMAIN r : r[g].scq = h} = S \ {q}
  BY <1>1, <1>2
<1>4. Scqs(r, h) = Cardinality(S \ {q}) /\ Scqs(t, h) = Cardinality(S)
  BY <1>1, <1>3 DEF Scqs
<1>5. S \in SUBSET DOMAIN t /\ (q \in S <=> t[q].scq = h)
  BY <1>1
<1>6. IsFiniteSet(S)
  BY <1>5, FS_Subset
<1>7. Cardinality(S) = Cardinality(S \ {q}) + One(q \in S) /\ Cardinality(S \ {q}) \in Nat
  BY <1>6, OneFewer
<1> QED
  BY <1>1, <1>4, <1>5, <1>7 DEF One

LEMMA RcqsWithout ==
  ASSUME NEW t, IsFiniteSet(DOMAIN t), NEW q \in DOMAIN t, NEW h
  PROVE  /\ Rcqs(t, h) = Rcqs(ResourceFree(t, q), h) + One(t[q].rcq = h)
         /\ Rcqs(ResourceFree(t, q), h) \in Nat
<1>1. PICK r, S : r = ResourceFree(t, q) /\ S = {g \in DOMAIN t : t[g].rcq = h}
  OBVIOUS
<1>2. DOMAIN r = DOMAIN t \ {q} /\ \A g \in DOMAIN t \ {q} : r[g] = t[g]
  BY <1>1, FreeIs
<1>3. {g \in DOMAIN r : r[g].rcq = h} = S \ {q}
  BY <1>1, <1>2
<1>4. Rcqs(r, h) = Cardinality(S \ {q}) /\ Rcqs(t, h) = Cardinality(S)
  BY <1>1, <1>3 DEF Rcqs
<1>5. S \in SUBSET DOMAIN t /\ (q \in S <=> t[q].rcq = h)
  BY <1>1
<1>6. IsFiniteSet(S)
  BY <1>5, FS_Subset
<1>7. Cardinality(S) = Cardinality(S \ {q}) + One(q \in S) /\ Cardinality(S \ {q}) \in Nat
  BY <1>6, OneFewer
<1> QED
  BY <1>1, <1>4, <1>5, <1>7 DEF One

\* There are no more holders than entries in the table.
LEMMA HoldersBound ==
  ASSUME NEW t, NEW size \in Nat, NEW R, Table(t, size, R), NEW h
  PROVE  /\ Holders(t, h) \in Nat /\ Holders(t, h) <= size
         /\ Scqs(t, h) \in Nat /\ Scqs(t, h) <= size
         /\ Rcqs(t, h) \in Nat /\ Rcqs(t, h) <= size
<1>1. IsFiniteSet(DOMAIN t) /\ Cardinality(DOMAIN t) \in Nat /\ Cardinality(DOMAIN t) <= size
  BY TableFinite
<1>2. ASSUME NEW S \in SUBSET DOMAIN t PROVE Cardinality(S) \in Nat /\ Cardinality(S) <= size
  <2>1. IsFiniteSet(S) /\ Cardinality(S) <= Cardinality(DOMAIN t)
    BY <1>1, FS_Subset
  <2>2. Cardinality(S) \in Nat
    BY <2>1, FS_CardinalityType
  <2> QED
    BY <1>1, <2>1, <2>2
<1>3. PICK P, S, R0 : /\ P = {g \in DOMAIN t : t[g].pd = h}
                      /\ S = {g \in DOMAIN t : t[g].scq = h}
                      /\ R0 = {g \in DOMAIN t : t[g].rcq = h}
  OBVIOUS
<1>4. P \in SUBSET DOMAIN t /\ S \in SUBSET DOMAIN t /\ R0 \in SUBSET DOMAIN t
  BY <1>3
<1>5. Holders(t, h) = Cardinality(P) /\ Scqs(t, h) = Cardinality(S) /\ Rcqs(t, h) = Cardinality(R0)
  BY <1>3 DEF Holders, Scqs, Rcqs
<1> QED
  BY <1>2, <1>4, <1>5

\* Two tables in which the same objects hold the same.
LEMMA HoldersSame ==
  ASSUME NEW t, NEW r, DOMAIN r = DOMAIN t, \A g \in DOMAIN t : r[g].pd = t[g].pd, NEW h
  PROVE  Holders(r, h) = Holders(t, h)
<1>1. {g \in DOMAIN r : r[g].pd = h} = {g \in DOMAIN t : t[g].pd = h}
  OBVIOUS
<1> QED
  BY <1>1 DEF Holders

-----------------------------------------------------------------------------
(* Reference counts, modulo RefMod. *)

LEMMA Wrap ==
  ASSUME NEW a \in RefCount
  PROVE  /\ (a + 1) % RefMod \in RefCount /\ (a - 1) % RefMod \in RefCount
         /\ a + 1 < RefMod => (a + 1) % RefMod = a + 1
         /\ a > 0 => (a - 1) % RefMod = a - 1
         /\ (((a + 1) % RefMod) - 1) % RefMod = a
<1>1. PICK z \in Nat : z = RefMod /\ z > 0
  BY ResourcesAssumption
<1>2. a \in Nat /\ a < z
  BY <1>1 DEF RefCount
<1>3. /\ (a + 1) % z \in 0 .. z - 1 /\ (a - 1) % z \in 0 .. z - 1
      /\ a + 1 < z => (a + 1) % z = a + 1
      /\ a > 0 => (a - 1) % z = a - 1
  BY ONLY <1>2, z \in Nat, z > 0, <1>1
<1>4. (((a + 1) % z) - 1) % z = a
  <2>1. CASE a + 1 < z
    BY <1>2, <1>3, <2>1
  <2>2. CASE ~(a + 1 < z)
    <3>1. a + 1 = z
      BY <1>1, <1>2, <2>2
    <3>2. z % z = 0 /\ (0 - 1) % z = z - 1
      BY <1>1
    <3> QED
      BY <1>1, <1>2, <3>1, <3>2
  <2> QED
    BY <2>1, <2>2
<1> QED
  BY <1>1, <1>3, <1>4 DEF RefCount

\* An object, with its reference count changed by n.
Counted(obj, n) == [obj EXCEPT !.ref = (@ + n) % RefMod]

\* The records of R have a reference count, and what is put is what was got.
HasRef(R) ==
  \A r \in R : /\ r.ref \in RefCount /\ Counted(r, 1) \in R /\ Counted(r, -1) \in R
               /\ Counted(Counted(r, 1), -1) = r

LEMMA RefRecords == HasRef(PdRec) /\ HasRef(AhRec) /\ HasRef(MrRec)
<1>1. ASSUME NEW c \in RefCount
      PROVE  /\ (c + 1) % RefMod \in RefCount /\ (c + (-1)) % RefMod \in RefCount
             /\ (((c + 1) % RefMod) + (-1)) % RefMod = c
  <2>1. /\ (c + 1) % RefMod \in RefCount /\ (c - 1) % RefMod \in RefCount
        /\ (((c + 1) % RefMod) - 1) % RefMod = c
    BY Wrap
  <2>2. \A d \in RefCount : d + (-1) = d - 1
    BY DEF RefCount
  <2> QED
    BY <2>1, <2>2
<1>2. HasRef(PdRec)
  BY <1>1 DEF HasRef, PdRec, Counted
<1>3. HasRef(AhRec)
  BY <1>1 DEF HasRef, AhRec, Counted
<1>4. HasRef(MrRec)
  BY <1>1 DEF HasRef, MrRec, Counted
<1> QED
  BY <1>2, <1>3, <1>4

\* What counting does to a table.
LEMMA CountIs ==
  ASSUME NEW t, NEW size, NEW R, Table(t, size, R), HasRef(R), NEW h, NEW n \in {1, -1}
  PROVE  /\ Table(Count(t, h, n), size, R)
         /\ DOMAIN Count(t, h, n) = DOMAIN t
         /\ \A g \in DOMAIN t \ {h} : Count(t, h, n)[g] = t[g]
         /\ h \in DOMAIN t => Count(t, h, n)[h] = Counted(t[h], n)
         /\ h \notin DOMAIN t => Count(t, h, n) = t
<1>1. CASE h \in DOMAIN t
  <2>1. Count(t, h, n) = Replace(t, h, Counted(t[h], n))
    BY <1>1 DEF Count, Found, Replace, Counted
  <2>2. Counted(t[h], n) \in R
    BY <1>1 DEF Table, HasRef
  <2>3. Table(Replace(t, h, Counted(t[h], n)), size, R)
    BY <2>2, TableReplace
  <2> QED
    BY <1>1, <2>1, <2>3, ReplaceIs
<1>2. CASE h \notin DOMAIN t
  BY <1>2 DEF Count, Found
<1> QED
  BY <1>1, <1>2

LEMMA PutGet ==
  ASSUME NEW t, NEW size, NEW R, Table(t, size, R), HasRef(R), NEW h
  PROVE  Put(Get(t, h), h) = t
<1>1. PICK g : g = Get(t, h)
  OBVIOUS
<1>2. /\ Table(g, size, R) /\ DOMAIN g = DOMAIN t
      /\ \A k \in DOMAIN t \ {h} : g[k] = t[k]
      /\ h \in DOMAIN t => g[h] = Counted(t[h], 1)
  BY <1>1, CountIs DEF Get
<1>3. PICK p : p = Put(g, h)
  OBVIOUS
<1>4. /\ Table(p, size, R) /\ DOMAIN p = DOMAIN g
      /\ \A k \in DOMAIN g \ {h} : p[k] = g[k]
      /\ h \in DOMAIN g => p[h] = Counted(g[h], -1)
  BY <1>2, <1>3, CountIs DEF Put
<1>5. \A k \in DOMAIN t : p[k] = t[k]
  BY <1>2, <1>4 DEF Table, HasRef
<1>6. t = [k \in DOMAIN t |-> t[k]] /\ p = [k \in DOMAIN p |-> p[k]]
  BY <1>4 DEF Table
<1> QED
  BY <1>1, <1>2, <1>3, <1>4, <1>5, <1>6

-----------------------------------------------------------------------------
(* Putting and getting the MRs of lists, entry by entry. *)

TablesType(s) ==
  /\ s = [mrs |-> s.mrs, pds |-> s.pds, ok |-> s.ok] /\ s.ok \in BOOLEAN
  /\ Table(s.mrs, MrSlots, MrRec) /\ Table(s.pds, PdSlots, PdRec)

\* The tables f[k] after k entries of the list.
GetAllSteps(s, p, f) ==
  /\ f[0] = s /\ \A k \in 1 .. Len(p) : f[k] = GetMr(f[k - 1], p[k])
  /\ GetAll(s, p) = f[Len(p)]

\* GetAll goes through the list with GetMr.
LEMMA GetAllLoop ==
  ASSUME NEW s, NEW p, Len(p) \in Nat
  PROVE  \E f : GetAllSteps(s, p, f)
<1>0. PICK n \in Nat : n = Len(p)
  OBVIOUS
<1> DEFINE Builds(f, m) ==
             f = [k \in 0 .. m |-> IF k = 0 THEN s ELSE GetMr(f[k - 1], p[k])]
           S == {m \in 0 .. n : ~\E f : Builds(f, m)}
<1>1. \E f : Builds(f, 0)
  <2>1. PICK g : g = [k \in 0 .. 0 |-> s]
    OBVIOUS
  <2>2. \A k \in 0 .. 0 : k = 0
    OBVIOUS
  <2>3. g = [k \in 0 .. 0 |-> IF k = 0 THEN s ELSE GetMr(g[k - 1], p[k])]
    BY <2>1, <2>2
  <2> QED
    BY <2>3
<1>2. ASSUME NEW m \in 1 .. n, \E f : Builds(f, m - 1)
      PROVE  \E f : Builds(f, m)
  <2>1. PICK f : Builds(f, m - 1)
    BY <1>2
  <2>2. m \in Nat /\ m - 1 \in Nat /\ m # 0
    OBVIOUS
  <2>3. PICK g : g = [k \in 0 .. m |-> IF k = m THEN GetMr(f[m - 1], p[m]) ELSE f[k]]
    OBVIOUS
  <2>4. g[m] = GetMr(f[m - 1], p[m]) /\ \A k \in 0 .. m - 1 : g[k] = f[k]
    BY <2>2, <2>3
  <2>5. f[0] = s /\ \A k \in 1 .. m - 1 : f[k] = GetMr(f[k - 1], p[k])
    <3>1. f = [k \in 0 .. m - 1 |-> IF k = 0 THEN s ELSE GetMr(f[k - 1], p[k])]
      BY <2>1
    <3>2. 0 \in 0 .. m - 1 /\ \A k \in 1 .. m - 1 : k \in 0 .. m - 1 /\ k # 0
      BY <2>2
    <3> QED
      BY <3>1, <3>2
  <2>6. \A k \in 0 .. m : g[k] = IF k = 0 THEN s ELSE GetMr(g[k - 1], p[k])
    <3>1. ASSUME NEW k \in 0 .. m
          PROVE  g[k] = IF k = 0 THEN s ELSE GetMr(g[k - 1], p[k])
      <4>1. CASE k = 0
        BY <2>2, <2>4, <2>5, <4>1
      <4>2. CASE k = m
        BY <2>2, <2>4, <4>2
      <4>3. CASE k # 0 /\ k # m
        <5>1. k \in 1 .. m - 1 /\ k \in 0 .. m - 1 /\ k - 1 \in 0 .. m - 1
          BY <2>2, <4>3
        <5> QED
          BY <2>4, <2>5, <4>3, <5>1
      <4> QED
        BY <4>1, <4>2, <4>3
    <3> QED
      BY <3>1
  <2>7. g = [k \in 0 .. m |-> g[k]]
    BY <2>3
  <2>8. Builds(g, m)
    BY <2>6, <2>7
  <2> QED
    BY <2>8
<1>3. S = {}
  <2>1. SUFFICES ASSUME S # {} PROVE FALSE
    OBVIOUS
  <2>2. S \in SUBSET Nat
    OBVIOUS
  <2> HIDE DEF S
  <2>3. PICK m \in S : \A j \in S : m <= j
    BY <2>1, <2>2, Least
  <2> USE DEF S
  <2>4. m \in 0 .. n /\ ~\E f : Builds(f, m)
    BY <2>3
  <2> HIDE DEF Builds
  <2>5. m \in 1 .. n /\ m - 1 \in 0 .. n /\ ~(m <= m - 1)
    BY <1>1, <2>4
  <2>6. \E f : Builds(f, m - 1)
    BY <2>3, <2>5
  <2> QED
    BY <1>2, <2>4, <2>5, <2>6
<1>4. \E f : Builds(f, n)
  <2>1. n \in 0 .. n
    OBVIOUS
  <2> HIDE DEF Builds
  <2> QED
    BY <1>3, <2>1
<1>5. GetAll(s, p) = (CHOOSE f : Builds(f, n))[n]
  BY <1>0 DEF GetAll
<1> HIDE DEF Builds
<1>6. PICK f : f = (CHOOSE g : Builds(g, n)) /\ Builds(f, n)
  BY <1>4
<1> USE DEF Builds
<1>7. f = [k \in 0 .. n |-> IF k = 0 THEN s ELSE GetMr(f[k - 1], p[k])]
  BY <1>6
<1>8. 0 \in 0 .. n /\ \A k \in 1 .. n : k \in 0 .. n /\ k # 0
  OBVIOUS
<1>9. f[0] = s /\ \A k \in 1 .. n : f[k] = GetMr(f[k - 1], p[k])
  BY <1>7, <1>8
<1> HIDE DEF Builds
<1> QED
  BY <1>0, <1>5, <1>6, <1>9 DEF GetAllSteps

\* The tables f[k] after k entries of the list.
PutMrsSteps(s, p, f) ==
  /\ f[0] = s /\ \A k \in 1 .. Len(p) : f[k] = PutMr(f[k - 1], p[k])
  /\ PutMrs(s, p) = f[Len(p)]

\* PutMrs goes through the list with PutMr.
LEMMA PutMrsLoop ==
  ASSUME NEW s, NEW p, Len(p) \in Nat
  PROVE  \E f : PutMrsSteps(s, p, f)
<1>0. PICK n \in Nat : n = Len(p)
  OBVIOUS
<1> DEFINE Builds(f, m) ==
             f = [k \in 0 .. m |-> IF k = 0 THEN s ELSE PutMr(f[k - 1], p[k])]
           S == {m \in 0 .. n : ~\E f : Builds(f, m)}
<1>1. \E f : Builds(f, 0)
  <2>1. PICK g : g = [k \in 0 .. 0 |-> s]
    OBVIOUS
  <2>2. \A k \in 0 .. 0 : k = 0
    OBVIOUS
  <2>3. g = [k \in 0 .. 0 |-> IF k = 0 THEN s ELSE PutMr(g[k - 1], p[k])]
    BY <2>1, <2>2
  <2> QED
    BY <2>3
<1>2. ASSUME NEW m \in 1 .. n, \E f : Builds(f, m - 1)
      PROVE  \E f : Builds(f, m)
  <2>1. PICK f : Builds(f, m - 1)
    BY <1>2
  <2>2. m \in Nat /\ m - 1 \in Nat /\ m # 0
    OBVIOUS
  <2>3. PICK g : g = [k \in 0 .. m |-> IF k = m THEN PutMr(f[m - 1], p[m]) ELSE f[k]]
    OBVIOUS
  <2>4. g[m] = PutMr(f[m - 1], p[m]) /\ \A k \in 0 .. m - 1 : g[k] = f[k]
    BY <2>2, <2>3
  <2>5. f[0] = s /\ \A k \in 1 .. m - 1 : f[k] = PutMr(f[k - 1], p[k])
    <3>1. f = [k \in 0 .. m - 1 |-> IF k = 0 THEN s ELSE PutMr(f[k - 1], p[k])]
      BY <2>1
    <3>2. 0 \in 0 .. m - 1 /\ \A k \in 1 .. m - 1 : k \in 0 .. m - 1 /\ k # 0
      BY <2>2
    <3> QED
      BY <3>1, <3>2
  <2>6. \A k \in 0 .. m : g[k] = IF k = 0 THEN s ELSE PutMr(g[k - 1], p[k])
    <3>1. ASSUME NEW k \in 0 .. m
          PROVE  g[k] = IF k = 0 THEN s ELSE PutMr(g[k - 1], p[k])
      <4>1. CASE k = 0
        BY <2>2, <2>4, <2>5, <4>1
      <4>2. CASE k = m
        BY <2>2, <2>4, <4>2
      <4>3. CASE k # 0 /\ k # m
        <5>1. k \in 1 .. m - 1 /\ k \in 0 .. m - 1 /\ k - 1 \in 0 .. m - 1
          BY <2>2, <4>3
        <5> QED
          BY <2>4, <2>5, <4>3, <5>1
      <4> QED
        BY <4>1, <4>2, <4>3
    <3> QED
      BY <3>1
  <2>7. g = [k \in 0 .. m |-> g[k]]
    BY <2>3
  <2>8. Builds(g, m)
    BY <2>6, <2>7
  <2> QED
    BY <2>8
<1>3. S = {}
  <2>1. SUFFICES ASSUME S # {} PROVE FALSE
    OBVIOUS
  <2>2. S \in SUBSET Nat
    OBVIOUS
  <2> HIDE DEF S
  <2>3. PICK m \in S : \A j \in S : m <= j
    BY <2>1, <2>2, Least
  <2> USE DEF S
  <2>4. m \in 0 .. n /\ ~\E f : Builds(f, m)
    BY <2>3
  <2> HIDE DEF Builds
  <2>5. m \in 1 .. n /\ m - 1 \in 0 .. n /\ ~(m <= m - 1)
    BY <1>1, <2>4
  <2>6. \E f : Builds(f, m - 1)
    BY <2>3, <2>5
  <2> QED
    BY <1>2, <2>4, <2>5, <2>6
<1>4. \E f : Builds(f, n)
  <2>1. n \in 0 .. n
    OBVIOUS
  <2> HIDE DEF Builds
  <2> QED
    BY <1>3, <2>1
<1>5. PutMrs(s, p) = (CHOOSE f : Builds(f, n))[n]
  BY <1>0 DEF PutMrs
<1> HIDE DEF Builds
<1>6. PICK f : f = (CHOOSE g : Builds(g, n)) /\ Builds(f, n)
  BY <1>4
<1> USE DEF Builds
<1>7. f = [k \in 0 .. n |-> IF k = 0 THEN s ELSE PutMr(f[k - 1], p[k])]
  BY <1>6
<1>8. 0 \in 0 .. n /\ \A k \in 1 .. n : k \in 0 .. n /\ k # 0
  OBVIOUS
<1>9. f[0] = s /\ \A k \in 1 .. n : f[k] = PutMr(f[k - 1], p[k])
  BY <1>7, <1>8
<1> HIDE DEF Builds
<1> QED
  BY <1>0, <1>5, <1>6, <1>9 DEF PutMrsSteps

\* The tables f[k] after k entries of the list.
PutWrsSteps(s, p, f) ==
  /\ f[0] = s /\ \A k \in 1 .. Len(p) : f[k] = PutMrs(f[k - 1], p[k])
  /\ PutWrs(s, p) = f[Len(p)]

\* PutWrs goes through the list with PutMrs.
LEMMA PutWrsLoop ==
  ASSUME NEW s, NEW p, Len(p) \in Nat
  PROVE  \E f : PutWrsSteps(s, p, f)
<1>0. PICK n \in Nat : n = Len(p)
  OBVIOUS
<1> DEFINE Builds(f, m) ==
             f = [k \in 0 .. m |-> IF k = 0 THEN s ELSE PutMrs(f[k - 1], p[k])]
           S == {m \in 0 .. n : ~\E f : Builds(f, m)}
<1>1. \E f : Builds(f, 0)
  <2>1. PICK g : g = [k \in 0 .. 0 |-> s]
    OBVIOUS
  <2>2. \A k \in 0 .. 0 : k = 0
    OBVIOUS
  <2>3. g = [k \in 0 .. 0 |-> IF k = 0 THEN s ELSE PutMrs(g[k - 1], p[k])]
    BY <2>1, <2>2
  <2> QED
    BY <2>3
<1>2. ASSUME NEW m \in 1 .. n, \E f : Builds(f, m - 1)
      PROVE  \E f : Builds(f, m)
  <2>1. PICK f : Builds(f, m - 1)
    BY <1>2
  <2>2. m \in Nat /\ m - 1 \in Nat /\ m # 0
    OBVIOUS
  <2>3. PICK g : g = [k \in 0 .. m |-> IF k = m THEN PutMrs(f[m - 1], p[m]) ELSE f[k]]
    OBVIOUS
  <2>4. g[m] = PutMrs(f[m - 1], p[m]) /\ \A k \in 0 .. m - 1 : g[k] = f[k]
    BY <2>2, <2>3
  <2>5. f[0] = s /\ \A k \in 1 .. m - 1 : f[k] = PutMrs(f[k - 1], p[k])
    <3>1. f = [k \in 0 .. m - 1 |-> IF k = 0 THEN s ELSE PutMrs(f[k - 1], p[k])]
      BY <2>1
    <3>2. 0 \in 0 .. m - 1 /\ \A k \in 1 .. m - 1 : k \in 0 .. m - 1 /\ k # 0
      BY <2>2
    <3> QED
      BY <3>1, <3>2
  <2>6. \A k \in 0 .. m : g[k] = IF k = 0 THEN s ELSE PutMrs(g[k - 1], p[k])
    <3>1. ASSUME NEW k \in 0 .. m
          PROVE  g[k] = IF k = 0 THEN s ELSE PutMrs(g[k - 1], p[k])
      <4>1. CASE k = 0
        BY <2>2, <2>4, <2>5, <4>1
      <4>2. CASE k = m
        BY <2>2, <2>4, <4>2
      <4>3. CASE k # 0 /\ k # m
        <5>1. k \in 1 .. m - 1 /\ k \in 0 .. m - 1 /\ k - 1 \in 0 .. m - 1
          BY <2>2, <4>3
        <5> QED
          BY <2>4, <2>5, <4>3, <5>1
      <4> QED
        BY <4>1, <4>2, <4>3
    <3> QED
      BY <3>1
  <2>7. g = [k \in 0 .. m |-> g[k]]
    BY <2>3
  <2>8. Builds(g, m)
    BY <2>6, <2>7
  <2> QED
    BY <2>8
<1>3. S = {}
  <2>1. SUFFICES ASSUME S # {} PROVE FALSE
    OBVIOUS
  <2>2. S \in SUBSET Nat
    OBVIOUS
  <2> HIDE DEF S
  <2>3. PICK m \in S : \A j \in S : m <= j
    BY <2>1, <2>2, Least
  <2> USE DEF S
  <2>4. m \in 0 .. n /\ ~\E f : Builds(f, m)
    BY <2>3
  <2> HIDE DEF Builds
  <2>5. m \in 1 .. n /\ m - 1 \in 0 .. n /\ ~(m <= m - 1)
    BY <1>1, <2>4
  <2>6. \E f : Builds(f, m - 1)
    BY <2>3, <2>5
  <2> QED
    BY <1>2, <2>4, <2>5, <2>6
<1>4. \E f : Builds(f, n)
  <2>1. n \in 0 .. n
    OBVIOUS
  <2> HIDE DEF Builds
  <2> QED
    BY <1>3, <2>1
<1>5. PutWrs(s, p) = (CHOOSE f : Builds(f, n))[n]
  BY <1>0 DEF PutWrs
<1> HIDE DEF Builds
<1>6. PICK f : f = (CHOOSE g : Builds(g, n)) /\ Builds(f, n)
  BY <1>4
<1> USE DEF Builds
<1>7. f = [k \in 0 .. n |-> IF k = 0 THEN s ELSE PutMrs(f[k - 1], p[k])]
  BY <1>6
<1>8. 0 \in 0 .. n /\ \A k \in 1 .. n : k \in 0 .. n /\ k # 0
  OBVIOUS
<1>9. f[0] = s /\ \A k \in 1 .. n : f[k] = PutMrs(f[k - 1], p[k])
  BY <1>7, <1>8
<1> HIDE DEF Builds
<1> QED
  BY <1>0, <1>5, <1>6, <1>9 DEF PutWrsSteps

-----------------------------------------------------------------------------
(* What getting and putting an MR do to the tables. *)

LEMMA GetMrIs ==
  ASSUME NEW s, TablesType(s), NEW m
  PROVE  /\ TablesType(GetMr(s, m)) /\ GetMr(s, m).mrs = Get(s.mrs, m)
         /\ GetMr(s, m).pds = s.pds /\ GetMr(s, m).ok = s.ok
<1>1. GetMr(s, m) = [mrs |-> Get(s.mrs, m), pds |-> s.pds, ok |-> s.ok]
  BY DEF GetMr, TablesType
<1>2. Table(Get(s.mrs, m), MrSlots, MrRec)
  BY RefRecords, CountIs DEF TablesType, Get
<1> QED
  BY <1>1, <1>2 DEF TablesType

LEMMA DestroyMrInIs ==
  ASSUME NEW s, TablesType(s), NEW m, m \in DOMAIN s.mrs
  PROVE  /\ TablesType(DestroyMrIn(s, m))
         /\ s.mrs[m].ref # 0 =>
              /\ DestroyMrIn(s, m).mrs
                   = Replace(s.mrs, m, [s.mrs[m] EXCEPT !.state = "DESTROYED"])
              /\ DestroyMrIn(s, m).pds = s.pds /\ DestroyMrIn(s, m).ok = s.ok
         /\ s.mrs[m].ref = 0 =>
              /\ DestroyMrIn(s, m).mrs = ResourceFree(s.mrs, m)
              /\ DestroyMrIn(s, m).pds = Put(s.pds, s.mrs[m].pd)
              /\ DestroyMrIn(s, m).ok = (s.ok /\ Found(s.pds, s.mrs[m].pd))
<1>1. s.mrs[m] \in MrRec
  BY DEF TablesType, Table
<1>2. CASE s.mrs[m].ref # 0
  <2>1. PICK obj : obj = [s.mrs[m] EXCEPT !.state = "DESTROYED"]
    OBVIOUS
  <2>2. obj \in MrRec
    BY <1>1, <2>1 DEF MrRec
  <2>3. DestroyMrIn(s, m) = [mrs |-> Replace(s.mrs, m, obj), pds |-> s.pds, ok |-> s.ok]
    BY <1>2, <2>1 DEF DestroyMrIn, TablesType, Replace
  <2>4. Table(Replace(s.mrs, m, obj), MrSlots, MrRec)
    BY <2>2, TableReplace DEF TablesType
  <2> QED
    BY <1>2, <2>1, <2>3, <2>4 DEF TablesType
<1>3. CASE s.mrs[m].ref = 0
  <2>1. DestroyMrIn(s, m)
          = [mrs |-> ResourceFree(s.mrs, m), pds |-> Put(s.pds, s.mrs[m].pd),
             ok |-> s.ok /\ Found(s.pds, s.mrs[m].pd)]
    BY <1>3 DEF DestroyMrIn
  <2>2. Table(ResourceFree(s.mrs, m), MrSlots, MrRec)
    BY TableFree DEF TablesType
  <2>3. Table(Put(s.pds, s.mrs[m].pd), PdSlots, PdRec)
    BY RefRecords, CountIs DEF TablesType, Put
  <2> QED
    BY <1>3, <2>1, <2>2, <2>3 DEF TablesType
<1> QED
  BY <1>2, <1>3

LEMMA PutMrIs ==
  ASSUME NEW s, TablesType(s), NEW m
  PROVE  /\ TablesType(PutMr(s, m))
         /\ m \notin DOMAIN s.mrs => PutMr(s, m) = s
         /\ \E t : /\ TablesType(t) /\ t.mrs = Put(s.mrs, m) /\ t.pds = s.pds /\ t.ok = s.ok
                   /\ m \in DOMAIN s.mrs =>
                        PutMr(s, m) = IF s.mrs[m].state = "DESTROYED" THEN DestroyMrIn(t, m)
                                      ELSE t
<1>1. PICK t : t = [s EXCEPT !.mrs = Put(@, m)]
  OBVIOUS
<1>2. t = [mrs |-> Put(s.mrs, m), pds |-> s.pds, ok |-> s.ok]
  BY <1>1 DEF TablesType
<1>3. /\ Table(Put(s.mrs, m), MrSlots, MrRec) /\ DOMAIN Put(s.mrs, m) = DOMAIN s.mrs
      /\ m \in DOMAIN s.mrs => Put(s.mrs, m)[m] = Counted(s.mrs[m], -1)
      /\ m \notin DOMAIN s.mrs => Put(s.mrs, m) = s.mrs
  BY RefRecords, CountIs DEF TablesType, Put
<1>4. TablesType(t) /\ t.mrs = Put(s.mrs, m) /\ t.pds = s.pds /\ t.ok = s.ok
  BY <1>2, <1>3 DEF TablesType
<1>5. PutMr(s, m) = IF Found(s.mrs, m) /\ t.mrs[m].state = "DESTROYED" THEN DestroyMrIn(t, m) ELSE t
  BY <1>1 DEF PutMr
<1>6. CASE m \in DOMAIN s.mrs
  <2>1. s.mrs[m] \in MrRec
    BY <1>6 DEF TablesType, Table
  <2>2. t.mrs[m].state = s.mrs[m].state
    BY <1>3, <1>4, <1>6, <2>1 DEF Counted, MrRec
  <2>3. PutMr(s, m) = IF s.mrs[m].state = "DESTROYED" THEN DestroyMrIn(t, m) ELSE t
    BY <1>5, <1>6, <2>2 DEF Found
  <2>4. TablesType(PutMr(s, m))
    BY <1>3, <1>4, <1>6, <2>3, DestroyMrInIs
  <2> QED
    BY <1>4, <1>6, <2>3, <2>4
<1>7. CASE m \notin DOMAIN s.mrs
  <2>1. PutMr(s, m) = t
    BY <1>5, <1>7 DEF Found
  <2>2. t = s
    BY <1>2, <1>3, <1>7 DEF TablesType
  <2> QED
    BY <1>4, <1>7, <2>1, <2>2
<1> QED
  BY <1>6, <1>7

LEMMA GetAllType ==
  ASSUME NEW s, TablesType(s), NEW p \in Seq(Nat)
  PROVE  TablesType(GetAll(s, p))
<1>1. PICK n \in Nat : n = Len(p)
  OBVIOUS
<1>2. PICK f : /\ f[0] = s /\ \A k \in 1 .. n : f[k] = GetMr(f[k - 1], p[k])
               /\ GetAll(s, p) = f[n]
  <2>1. Len(p) \in Nat
    BY <1>1
  <2>2. \E f : GetAllSteps(s, p, f)
    BY <2>1, GetAllLoop
  <2> QED
    BY <1>1, <2>2 DEF GetAllSteps
<1>3. PICK S : S = {k \in 0 .. n : ~TablesType(f[k])}
  OBVIOUS
<1>4. S = {}
  <2>1. SUFFICES ASSUME S # {} PROVE FALSE
    OBVIOUS
  <2>2. PICK k \in S : \A j \in S : k <= j
    <3>1. S \in SUBSET Nat
      BY <1>3
    <3> QED
      BY <2>1, <3>1, Least
  <2>3. k \in 0 .. n /\ k # 0 /\ ~TablesType(f[k])
    BY <1>2, <1>3, <2>2
  <2>4. k \in 1 .. n /\ k - 1 \in 0 .. n /\ ~(k <= k - 1)
    BY <2>3
  <2>5. TablesType(f[k - 1])
    BY <1>3, <2>2, <2>4
  <2>6. TablesType(GetMr(f[k - 1], p[k]))
    BY <2>5, GetMrIs
  <2> QED
    BY <1>2, <2>3, <2>4, <2>6
<1>5. n \in 0 .. n
  OBVIOUS
<1> QED
  BY <1>2, <1>3, <1>4, <1>5

LEMMA PutMrsType ==
  ASSUME NEW s, TablesType(s), NEW p \in Seq(Nat)
  PROVE  TablesType(PutMrs(s, p))
<1>1. PICK n \in Nat : n = Len(p)
  OBVIOUS
<1>2. PICK f : /\ f[0] = s /\ \A k \in 1 .. n : f[k] = PutMr(f[k - 1], p[k])
               /\ PutMrs(s, p) = f[n]
  <2>1. Len(p) \in Nat
    BY <1>1
  <2>2. \E f : PutMrsSteps(s, p, f)
    BY <2>1, PutMrsLoop
  <2> QED
    BY <1>1, <2>2 DEF PutMrsSteps
<1>3. PICK S : S = {k \in 0 .. n : ~TablesType(f[k])}
  OBVIOUS
<1>4. S = {}
  <2>1. SUFFICES ASSUME S # {} PROVE FALSE
    OBVIOUS
  <2>2. PICK k \in S : \A j \in S : k <= j
    <3>1. S \in SUBSET Nat
      BY <1>3
    <3> QED
      BY <2>1, <3>1, Least
  <2>3. k \in 0 .. n /\ k # 0 /\ ~TablesType(f[k])
    BY <1>2, <1>3, <2>2
  <2>4. k \in 1 .. n /\ k - 1 \in 0 .. n /\ ~(k <= k - 1)
    BY <2>3
  <2>5. TablesType(f[k - 1])
    BY <1>3, <2>2, <2>4
  <2>6. TablesType(PutMr(f[k - 1], p[k]))
    BY <2>5, PutMrIs
  <2> QED
    BY <1>2, <2>3, <2>4, <2>6
<1>5. n \in 0 .. n
  OBVIOUS
<1> QED
  BY <1>2, <1>3, <1>4, <1>5

LEMMA PutWrsType ==
  ASSUME NEW s, TablesType(s), NEW p \in Lists
  PROVE  TablesType(PutWrs(s, p))
<1>1. PICK n \in Nat : n = Len(p)
  BY DEF Lists
<1>2. PICK f : /\ f[0] = s /\ \A k \in 1 .. n : f[k] = PutMrs(f[k - 1], p[k])
               /\ PutWrs(s, p) = f[n]
  <2>1. Len(p) \in Nat
    BY <1>1
  <2>2. \E f : PutWrsSteps(s, p, f)
    BY <2>1, PutWrsLoop
  <2> QED
    BY <1>1, <2>2 DEF PutWrsSteps
<1>3. PICK S : S = {k \in 0 .. n : ~TablesType(f[k])}
  OBVIOUS
<1>4. S = {}
  <2>1. SUFFICES ASSUME S # {} PROVE FALSE
    OBVIOUS
  <2>2. PICK k \in S : \A j \in S : k <= j
    <3>1. S \in SUBSET Nat
      BY <1>3
    <3> QED
      BY <2>1, <3>1, Least
  <2>3. k \in 0 .. n /\ k # 0 /\ ~TablesType(f[k])
    BY <1>2, <1>3, <2>2
  <2>4. k \in 1 .. n /\ k - 1 \in 0 .. n /\ ~(k <= k - 1)
    BY <2>3
  <2>5. TablesType(f[k - 1]) /\ p[k] \in Seq(Nat)
    BY <1>1, <1>3, <2>2, <2>4 DEF Lists
  <2>6. TablesType(PutMrs(f[k - 1], p[k]))
    BY <2>5, PutMrsType
  <2> QED
    BY <1>2, <2>3, <2>4, <2>6
<1>5. n \in 0 .. n
  OBVIOUS
<1> QED
  BY <1>2, <1>3, <1>4, <1>5

\* The found MRs of a list are a prefix of it; if it is the whole list, all are found.
LEMMA FoundPrefixIs ==
  ASSUME NEW s, NEW p \in Seq(Nat)
  PROVE  /\ FoundPrefix(s, p) \in Seq(Nat) /\ Len(FoundPrefix(s, p)) <= Len(p)
         /\ \A j \in 1 .. Len(FoundPrefix(s, p)) :
              Found(s.mrs, FoundPrefix(s, p)[j]) /\ FoundPrefix(s, p)[j] = p[j]
<1>1. PICK n \in Nat : n = Len(p)
  OBVIOUS
<1>2. PICK I : I = {i \in 1 .. n : ~Found(s.mrs, p[i])}
  OBVIOUS
<1>3. CASE I = {}
  <2>1. SelectInSeq(p, LAMBDA m : ~Found(s.mrs, m)) = 0
    BY <1>1, <1>2, <1>3 DEF SelectInSeq
  <2>2. FoundPrefix(s, p) = p
    BY <2>1 DEF FoundPrefix
  <2>3. \A j \in 1 .. n : Found(s.mrs, p[j])
    BY <1>2, <1>3
  <2> QED
    BY <1>1, <2>2, <2>3
<1>4. CASE I # {}
  <2>1. I \in SUBSET Nat
    BY <1>2
  <2>2. PICK k \in I : \A j \in I : k <= j
    BY <1>4, <2>1, Least
  <2>3. \A j \in I : (\A i \in I : j <= i) => j = k
    BY <2>1, <2>2
  <2>4. (CHOOSE j \in I : \A i \in I : j <= i) = k
    BY <2>2, <2>3
  <2>5. SelectInSeq(p, LAMBDA m : ~Found(s.mrs, m)) = k
    BY <1>1, <1>2, <1>4, <2>4 DEF SelectInSeq, Min
  <2>6. k \in 1 .. n /\ k # 0
    BY <1>2, <2>2
  <2>7. FoundPrefix(s, p) = SubSeq(p, 1, k - 1)
    BY <2>5, <2>6 DEF FoundPrefix
  <2>8. PICK q : q = SubSeq(p, 1, k - 1)
    OBVIOUS
  <2>9. /\ q \in Seq(Nat) /\ Len(q) = k - 1 /\ \A j \in 1 .. k - 1 : q[j] = p[j]
    BY <1>1, <2>6, <2>8
  <2>10. \A j \in 1 .. k - 1 : j \in 1 .. n /\ ~(k <= j)
    BY <2>6
  <2>11. \A j \in 1 .. k - 1 : Found(s.mrs, p[j])
    BY <1>2, <2>2, <2>10
  <2> QED
    BY <1>1, <2>6, <2>7, <2>8, <2>9, <2>11
<1> QED
  BY <1>3, <1>4

LEMMA GetMrsType ==
  ASSUME NEW s, TablesType(s), NEW p \in Seq(Nat)
  PROVE  TablesType(GetMrs(s, p))
<1>1. FoundPrefix(s, p) \in Seq(Nat)
  BY FoundPrefixIs
<1>2. TablesType(GetAll(s, FoundPrefix(s, p)))
  BY <1>1, GetAllType
<1>3. Reverse(FoundPrefix(s, p)) \in Seq(Nat)
  BY <1>1, NamesReverse
<1>4. TablesType(PutMrs(GetAll(s, FoundPrefix(s, p)), Reverse(FoundPrefix(s, p))))
  BY <1>2, <1>3, PutMrsType
<1> QED
  BY <1>2, <1>4 DEF GetMrs

-----------------------------------------------------------------------------
(* The send queue: failed WRs and local WRs without a scatter list hold nothing, *)
(* and leave the queue at its head.                                              *)

LEMMA HeldOfConcat ==
  ASSUME NEW A \in Seq(SendWr), NEW B \in Seq(SendWr)
  PROVE  HeldOf(A \o B) = HeldOf(A) \o HeldOf(B)
<1>1. PICK C : C = A \o B
  OBVIOUS
<1>2. PICK a \in Nat, b \in Nat : a = Len(A) /\ b = Len(B)
  BY LenProperties
<1>3. /\ C \in Seq(SendWr) /\ Len(C) = a + b
      /\ \A i \in 1 .. a + b : C[i] = IF i <= a THEN A[i] ELSE B[i - a]
  BY <1>1, <1>2, ConcatProperties
<1>4. PICK h, k, c : h = HeldOf(A) /\ k = HeldOf(B) /\ c = HeldOf(C)
  OBVIOUS
<1>5. h \in Lists /\ Len(h) = a /\ k \in Lists /\ Len(k) = b /\ c \in Lists /\ Len(c) = a + b
  BY <1>2, <1>3, <1>4, HeldOfType
<1>6. /\ h \o k \in Seq(Seq(Nat)) /\ Len(h \o k) = a + b
      /\ \A i \in 1 .. a + b : (h \o k)[i] = IF i <= a THEN h[i] ELSE k[i - a]
  BY <1>5, ConcatProperties DEF Lists
<1>7. /\ \A i \in 1 .. a : h[i] = IF A[i].error THEN <<>> ELSE A[i].sges
      /\ \A i \in 1 .. b : k[i] = IF B[i].error THEN <<>> ELSE B[i].sges
      /\ \A i \in 1 .. a + b : c[i] = IF C[i].error THEN <<>> ELSE C[i].sges
  BY <1>2, <1>3, <1>4 DEF HeldOf
<1>8. ASSUME NEW i \in 1 .. a + b PROVE c[i] = (h \o k)[i]
  <2>1. CASE i <= a
    <3>1. i \in 1 .. a
      BY <2>1
    <3> QED
      BY <1>3, <1>6, <1>7, <2>1, <3>1
  <2>2. CASE ~(i <= a)
    <3>1. i - a \in 1 .. b
      BY <2>2
    <3> QED
      BY <1>3, <1>6, <1>7, <2>2, <3>1
  <2> QED
    BY <2>1, <2>2
<1>9. c = h \o k
  BY <1>5, <1>6, <1>8, SeqEqual DEF Lists
<1> QED
  BY <1>1, <1>4, <1>9

LEMMA HeldOfFailed ==
  ASSUME NEW sq \in Seq(SendWr), \A i \in 1 .. Len(sq) : sq[i].error \/ sq[i].sges = <<>>, NEW m
  PROVE  CountIn(HeldOf(sq), m) = 0
<1>1. PICK h : h = HeldOf(sq)
  OBVIOUS
<1>2. Len(h) = Len(sq) /\ \A i \in 1 .. Len(sq) : h[i] = <<>>
  BY <1>1, HeldOfType DEF HeldOf
<1>3. Len(<<>>) = 0 /\ 1 .. 0 = {}
  BY EmptySeq
<1>4. Entries(h, m) = {}
  <2>1. ASSUME NEW e \in Entries(h, m) PROVE FALSE
    <3>1. PICK i \in 1 .. Len(h) : \E j \in 1 .. Len(h[i]) : h[i][j] = m /\ e = <<i, j>>
      BY EntriesAre
    <3>2. h[i] = <<>>
      BY <1>2, <3>1
    <3> QED
      BY <1>3, <3>1, <3>2
  <2> QED
    BY <2>1
<1> QED
  BY <1>1, <1>4, FS_EmptySet DEF CountIn

\* A sequence is what comes before n and what comes from n on.
LEMMA SplitAt ==
  ASSUME NEW S, NEW p \in Seq(S), NEW n \in 1 .. Len(p)
  PROVE  /\ SubSeq(p, 1, n - 1) \in Seq(S) /\ SubSeq(p, n, Len(p)) \in Seq(S)
         /\ Len(SubSeq(p, 1, n - 1)) = n - 1 /\ Len(SubSeq(p, n, Len(p))) = (Len(p) - n) + 1
         /\ \A i \in 1 .. n - 1 : SubSeq(p, 1, n - 1)[i] = p[i]
         /\ SubSeq(p, n, Len(p))[1] = p[n]
         /\ p = SubSeq(p, 1, n - 1) \o SubSeq(p, n, Len(p))
<1>1. PICK l \in Nat : l = Len(p)
  OBVIOUS
<1>2. n \in Nat /\ 1 <= n /\ n <= l /\ n - 1 \in Nat /\ (l - n) + 1 \in Nat
  BY <1>1
<1>3. PICK a, b : a = SubSeq(p, 1, n - 1) /\ b = SubSeq(p, n, l)
  OBVIOUS
<1>4. /\ a \in Seq(S) /\ Len(a) = n - 1 /\ \A i \in 1 .. n - 1 : a[i] = p[i]
  BY <1>1, <1>2, <1>3
<1>5. \A i \in n .. l : p[i] \in S
  BY <1>1, <1>2
<1>6. /\ b \in Seq(S) /\ Len(b) = (l - n) + 1
      /\ \A i \in 1 .. (l - n) + 1 : b[i] = p[(n + i) - 1]
  <2>1. PICK j \in Int, k \in Int : j = n /\ k = l
    BY <1>2
  <2>2. /\ SubSeq(p, j, k) \in Seq(S)
        /\ Len(SubSeq(p, j, k)) = IF j <= k THEN k - j + 1 ELSE 0
        /\ \A i \in 1 .. k - j + 1 : SubSeq(p, j, k)[i] = p[j + i - 1]
    BY <1>5, <2>1, SubSeqProperties
  <2>3. j + 0 = n /\ j <= k /\ k - j + 1 = (l - n) + 1
        /\ \A i \in 1 .. (l - n) + 1 : j + i - 1 = (n + i) - 1
    BY <1>2, <2>1
  <2> QED
    BY <1>3, <2>1, <2>2, <2>3
<1>7. /\ a \o b \in Seq(S) /\ Len(a \o b) = (n - 1) + ((l - n) + 1)
      /\ \A i \in 1 .. (n - 1) + ((l - n) + 1) :
           (a \o b)[i] = IF i <= n - 1 THEN a[i] ELSE b[i - (n - 1)]
  <2>1. PICK x \in Nat, y \in Nat : x = n - 1 /\ y = (l - n) + 1
    BY <1>2
  <2>2. Len(a) = x /\ Len(b) = y
    BY <1>4, <1>6, <2>1
  <2>3. /\ a \o b \in Seq(S) /\ Len(a \o b) = x + y
        /\ \A i \in 1 .. x + y : (a \o b)[i] = IF i <= x THEN a[i] ELSE b[i - x]
    BY <1>4, <1>6, <2>2, ConcatProperties
  <2> QED
    BY <2>1, <2>3
<1>8. (n - 1) + ((l - n) + 1) = l
  BY <1>2
<1>9. ASSUME NEW i \in 1 .. l PROVE (a \o b)[i] = p[i]
  <2>1. (a \o b)[i] = IF i <= n - 1 THEN a[i] ELSE b[i - (n - 1)]
    BY <1>7, <1>8
  <2>2. CASE i <= n - 1
    BY <1>2, <1>4, <2>1, <2>2
  <2>3. CASE ~(i <= n - 1)
    <3>1. i - (n - 1) \in 1 .. (l - n) + 1 /\ (n + (i - (n - 1))) - 1 = i
      BY <1>2, <2>3
    <3> QED
      BY <1>6, <2>1, <2>3, <3>1
  <2> QED
    BY <2>2, <2>3
<1>10. a \o b = p
  BY <1>1, <1>7, <1>8, <1>9, SeqEqual
<1>11. b[1] = p[n]
  <2>1. 1 \in 1 .. (l - n) + 1 /\ (n + 1) - 1 = n
    BY <1>2
  <2> QED
    BY <1>6, <2>1
<1> QED
  BY <1>1, <1>3, <1>4, <1>6, <1>10, <1>11

LEMMA CompleteHeadIs ==
  ASSUME NEW sq \in Seq(SendWr)
  PROVE  /\ CompleteHead(sq) \in Seq(SendWr) /\ Len(CompleteHead(sq)) <= Len(sq)
         /\ CompleteHead(sq) # <<>> => ~Head(CompleteHead(sq)).error
         /\ "local_sges" \notin Calls =>
              \A m : CountIn(HeldOf(CompleteHead(sq)), m) = CountIn(HeldOf(sq), m)
<1>1. PICK n \in Nat : n = Len(sq)
  OBVIOUS
<1>2. PICK I : I = {i \in 1 .. n : ~sq[i].local /\ ~sq[i].error}
  OBVIOUS
<1>3. CASE I = {}
  <2>1. SelectInSeq(sq, LAMBDA wr : ~wr.local /\ ~wr.error) = 0
    BY <1>1, <1>2, <1>3 DEF SelectInSeq
  <2>2. CompleteHead(sq) = <<>>
    BY <2>1 DEF CompleteHead
  <2>3. ASSUME "local_sges" \notin Calls, NEW i \in 1 .. Len(sq)
        PROVE  sq[i].error \/ sq[i].sges = <<>>
    <3>1. sq[i] \in SendWr
      BY <1>1
    <3>2. sq[i].local \/ sq[i].error
      BY <1>1, <1>2, <1>3, <3>1 DEF SendWr
    <3> QED
      BY <2>3, <3>1, <3>2 DEF SendWr
  <2>4. ASSUME "local_sges" \notin Calls, NEW m
        PROVE  CountIn(HeldOf(<<>>), m) = CountIn(HeldOf(sq), m)
    <3>1. CountIn(HeldOf(sq), m) = 0
      BY <2>3, <2>4, HeldOfFailed
    <3>2. <<>> \in Seq(SendWr) /\ \A i \in 1 .. Len(<<>>) : <<>>[i].error \/ <<>>[i].sges = <<>>
      BY EmptySeq
    <3>3. CountIn(HeldOf(<<>>), m) = 0
      BY <3>2, HeldOfFailed
    <3> QED
      BY <3>1, <3>3
  <2>5. <<>> \in Seq(SendWr) /\ Len(<<>>) = 0
    BY EmptySeq
  <2> QED
    BY <1>1, <2>2, <2>4, <2>5
<1>4. CASE I # {}
  <2>1. I \in SUBSET Nat
    BY <1>2
  <2>2. PICK k \in I : \A j \in I : k <= j
    BY <1>4, <2>1, Least
  <2>3. \A j \in I : (\A i \in I : j <= i) => j = k
    BY <2>1, <2>2
  <2>4. (CHOOSE j \in I : \A i \in I : j <= i) = k
    BY <2>2, <2>3
  <2>5. SelectInSeq(sq, LAMBDA wr : ~wr.local /\ ~wr.error) = k
    BY <1>1, <1>2, <1>4, <2>4 DEF SelectInSeq, Min
  <2>6. k \in 1 .. n /\ k # 0 /\ ~sq[k].error
    BY <1>2, <2>2
  <2>7. CompleteHead(sq) = SubSeq(sq, k, Len(sq))
    BY <2>5, <2>6 DEF CompleteHead
  <2>8. PICK a, b : a = SubSeq(sq, 1, k - 1) /\ b = SubSeq(sq, k, Len(sq))
    OBVIOUS
  <2>9. /\ a \in Seq(SendWr) /\ b \in Seq(SendWr) /\ Len(a) = k - 1 /\ Len(b) = (n - k) + 1
        /\ \A i \in 1 .. k - 1 : a[i] = sq[i]
        /\ b[1] = sq[k] /\ sq = a \o b
    BY <1>1, <2>6, <2>8, SplitAt
  <2>10. ASSUME "local_sges" \notin Calls
         PROVE  \A i \in 1 .. Len(a) : a[i].error \/ a[i].sges = <<>>
    <3>1. ASSUME NEW i \in 1 .. k - 1 PROVE a[i].error \/ a[i].sges = <<>>
      <4>1. i \in 1 .. n /\ ~(k <= i)
        BY <2>6
      <4>2. sq[i] \in SendWr
        BY <1>1, <4>1
      <4>3. sq[i].local \/ sq[i].error
        BY <1>2, <2>2, <4>1, <4>2 DEF SendWr
      <4>4. sq[i].error \/ sq[i].sges = <<>>
        BY <2>10, <4>2, <4>3 DEF SendWr
      <4> QED
        BY <2>9, <4>4
    <3> QED
      BY <2>9, <3>1
  <2>11. ASSUME "local_sges" \notin Calls, NEW m
         PROVE  CountIn(HeldOf(b), m) = CountIn(HeldOf(sq), m)
    <3>1. HeldOf(sq) = HeldOf(a) \o HeldOf(b)
      BY <2>9, HeldOfConcat
    <3>2. HeldOf(a) \in Lists /\ HeldOf(b) \in Lists
      BY <2>9, HeldOfType
    <3>3. CountIn(HeldOf(a), m) = 0
      BY <2>9, <2>10, <2>11, HeldOfFailed
    <3>4. CountIn(HeldOf(sq), m) = CountIn(HeldOf(a), m) + CountIn(HeldOf(b), m)
      BY <3>1, <3>2, CountConcat
    <3>5. CountIn(HeldOf(b), m) \in Nat
      BY <3>2, EntriesFinite
    <3> QED
      BY <3>3, <3>4, <3>5
  <2>12. Len(b) <= n /\ ~Head(b).error
    <3>1. Head(b) = b[1]
      OBVIOUS
    <3> QED
      BY <2>6, <2>9, <3>1
  <2> QED
    BY <1>1, <2>7, <2>8, <2>9, <2>11, <2>12
<1> QED
  BY <1>3, <1>4

-----------------------------------------------------------------------------
(* Every step keeps the types. *)

\* A new QP, and what the handlers make of one.
LEMMA QpUpdates ==
  ASSUME NEW qp \in QpRec
  PROVE  /\ \A sq \in Seq(SendWr) : [qp EXCEPT !.sq = sq] \in QpRec
         /\ \A rq \in Seq(SgeLists) : [qp EXCEPT !.rq = rq] \in QpRec
         /\ \A rq, resp \in Seq(SgeLists) : [qp EXCEPT !.rq = rq, !.resp = resp] \in QpRec
  BY DEF QpRec

LEMMA NewQpType ==
  /\ \A type \in QpTypes \cup {"MAX"}, pd, scq, rcq \in Int : NewQp(type, pd, scq, rcq) \in QpRec
  /\ Unused \in QpRec
<1>1. \A S : <<>> \in Seq(S)
  BY EmptySeq
<1>2. ASSUME NEW type \in QpTypes \cup {"MAX"}, NEW pd \in Int, NEW scq \in Int, NEW rcq \in Int
      PROVE  NewQp(type, pd, scq, rcq) \in QpRec
  BY <1>1 DEF NewQp, QpRec
<1>3. Unused \in QpRec
  BY <1>2 DEF Unused, Null
<1> QED
  BY <1>2, <1>3

LEMMA TablesNow == ASSUME ResTypes PROVE TablesType(Tables)
  BY DEF ResTypes, TablesType, Tables

LEMMA SlotsType ==
  /\ PdSlots \in Nat /\ CqSlots \in Nat /\ AhSlots \in Nat /\ MrSlots \in Nat
  /\ QpSlots \in Nat /\ QpSlots >= 3 /\ RefMod \in Nat /\ RefMod > 0 /\ MaxWrs \in Nat
  /\ 0 \in RefCount
  BY ResourcesAssumption DEF RefCount

LEMMA BecomesType ==
  ASSUME ResTypes, NEW s, TablesType(s), NEW q \in DOMAIN qps, NEW qp \in QpRec,
         Becomes(s, q, qp), UNCHANGED <<cqs, ahs, gsi>>
  PROVE  ResTypes'
<1>1. mrs' = s.mrs /\ pds' = s.pds /\ qps' = Replace(qps, q, qp) /\ crash' \in {crash, "put_pd"}
  BY DEF Becomes, Replace
<1>2. Table(qps', QpSlots, QpRec)
  BY <1>1, TableReplace DEF ResTypes
<1>3. Table(pds', PdSlots, PdRec) /\ Table(mrs', MrSlots, MrRec)
  BY <1>1 DEF TablesType
<1>4. cqs' = cqs /\ ahs' = ahs /\ gsi' = gsi
  OBVIOUS
<1> QED
  BY <1>1, <1>2, <1>3, <1>4 DEF ResTypes

\* A call that leaves all tables but pds and one other alone.
LEMMA CreateTypes ==
  ASSUME ResTypes
  PROVE  /\ AllocPd => ResTypes'
         /\ CreateCq => ResTypes'
         /\ \A pd \in 0 .. PdSlots, ok \in BOOLEAN :
              /\ CreateAh(pd, ok) => ResTypes'
              /\ \A type \in MrTypes : CreateMr(pd, type, ok) => ResTypes'
<1>1. /\ Table(pds, PdSlots, PdRec) /\ Table(cqs, CqSlots, PdRec)
      /\ Table(ahs, AhSlots, AhRec) /\ Table(mrs, MrSlots, MrRec) /\ Table(qps, QpSlots, QpRec)
  BY DEF ResTypes
<1>2. ASSUME AllocPd PROVE ResTypes'
  <2>1. PICK h : h = ResourceAlloc(PdSlots, pds)
    OBVIOUS
  <2>2. h \in 0 .. PdSlots - 1
    BY <1>2, <2>1, SlotsType, AllocFree DEF AllocPd
  <2>3. [ref |-> 0] \in PdRec
    BY SlotsType DEF PdRec
  <2>4. Table(Insert(pds, h, [ref |-> 0]), PdSlots, PdRec)
    BY <1>1, <2>2, <2>3, TableInsert
  <2> QED
    BY <1>2, <2>1, <2>4 DEF AllocPd, ResTypes
<1>3. ASSUME CreateCq PROVE ResTypes'
  <2>1. PICK h : h = ResourceAlloc(CqSlots, cqs)
    OBVIOUS
  <2>2. h \in 0 .. CqSlots - 1
    BY <1>3, <2>1, SlotsType, AllocFree DEF CreateCq
  <2>3. [ref |-> 0] \in PdRec
    BY SlotsType DEF PdRec
  <2>4. Table(Insert(cqs, h, [ref |-> 0]), CqSlots, PdRec)
    BY <1>1, <2>2, <2>3, TableInsert
  <2> QED
    BY <1>3, <2>1, <2>4 DEF CreateCq, ResTypes
<1>4. \A pd : Table(Get(pds, pd), PdSlots, PdRec) /\ Table(Put(Get(pds, pd), pd), PdSlots, PdRec)
  <2>1. ASSUME NEW pd
        PROVE  Table(Get(pds, pd), PdSlots, PdRec) /\ Table(Put(Get(pds, pd), pd), PdSlots, PdRec)
    <3>1. Table(Get(pds, pd), PdSlots, PdRec)
      BY <1>1, RefRecords, CountIs DEF Get
    <3>2. Put(Get(pds, pd), pd) = pds
      BY <1>1, RefRecords, PutGet
    <3> QED
      BY <1>1, <3>1, <3>2
  <2> QED
    BY <2>1
<1>5. ASSUME NEW pd \in 0 .. PdSlots, NEW ok \in BOOLEAN, CreateAh(pd, ok) PROVE ResTypes'
  <2>1. Table(pds', PdSlots, PdRec)
    BY <1>4, <1>5 DEF CreateAh
  <2>2. Table(ahs', AhSlots, AhRec)
    <3>1. CASE ok /\ ~Full(AhSlots, ahs)
      <4>1. PICK h : h = ResourceAlloc(AhSlots, ahs)
        OBVIOUS
      <4>2. h \in 0 .. AhSlots - 1
        BY <3>1, <4>1, SlotsType, AllocFree
      <4>3. [ref |-> 0, pd |-> pd] \in AhRec
        BY SlotsType DEF AhRec
      <4>4. Table(Insert(ahs, h, [ref |-> 0, pd |-> pd]), AhSlots, AhRec)
        BY <1>1, <4>2, <4>3, TableInsert
      <4> QED
        BY <1>5, <3>1, <4>1, <4>4 DEF CreateAh
    <3>2. CASE ~(ok /\ ~Full(AhSlots, ahs))
      BY <1>1, <1>5, <3>2 DEF CreateAh
    <3> QED
      BY <3>1, <3>2
  <2> QED
    BY <1>5, <2>1, <2>2 DEF CreateAh, ResTypes
<1>6. ASSUME NEW pd \in 0 .. PdSlots, NEW ok \in BOOLEAN, NEW type \in MrTypes,
             CreateMr(pd, type, ok)
      PROVE  ResTypes'
  <2>1. Table(pds', PdSlots, PdRec)
    BY <1>4, <1>6 DEF CreateMr
  <2>2. Table(mrs', MrSlots, MrRec)
    <3>1. PICK mr : mr = [ref |-> 0, pd |-> pd, type |-> type,
                          state |-> IF type = "FRMR" THEN "FREE" ELSE "VALID"]
      OBVIOUS
    <3>2. mr \in MrRec
      BY <3>1, SlotsType DEF MrRec
    <3>3. CASE ok /\ ~Full(MrSlots, mrs)
      <4>1. PICK h : h = ResourceAlloc(MrSlots, mrs)
        OBVIOUS
      <4>2. h \in 0 .. MrSlots - 1
        BY <3>3, <4>1, SlotsType, AllocFree
      <4>3. Table(Insert(mrs, h, mr), MrSlots, MrRec)
        BY <1>1, <4>2, <3>2, TableInsert
      <4> QED
        BY <1>6, <3>1, <3>3, <4>1, <4>3 DEF CreateMr
    <3>4. CASE ~(ok /\ ~Full(MrSlots, mrs))
      BY <1>1, <1>6, <3>4 DEF CreateMr
    <3> QED
      BY <3>3, <3>4
  <2> QED
    BY <1>6, <2>1, <2>2 DEF CreateMr, ResTypes
<1> QED
  BY <1>2, <1>3, <1>5, <1>6

LEMMA DestroyTypes ==
  ASSUME ResTypes
  PROVE  /\ \A h \in DOMAIN pds : DeallocPd(h) => ResTypes'
         /\ \A h \in DOMAIN cqs : DestroyCq(h) => ResTypes'
         /\ \A h \in DOMAIN ahs : DestroyAh(h) => ResTypes'
         /\ \A m \in DOMAIN mrs : DestroyMr(m) => ResTypes'
<1>1. /\ Table(pds, PdSlots, PdRec) /\ Table(cqs, CqSlots, PdRec)
      /\ Table(ahs, AhSlots, AhRec) /\ Table(mrs, MrSlots, MrRec) /\ Table(qps, QpSlots, QpRec)
  BY DEF ResTypes
<1>2. ASSUME NEW h \in DOMAIN pds, DeallocPd(h) PROVE ResTypes'
  <2>1. Table(ResourceFree(pds, h), PdSlots, PdRec)
    BY <1>1, TableFree
  <2> QED
    BY <1>2, <2>1 DEF DeallocPd, ResTypes
<1>3. ASSUME NEW h \in DOMAIN cqs, DestroyCq(h) PROVE ResTypes'
  <2>1. Table(ResourceFree(cqs, h), CqSlots, PdRec)
    BY <1>1, TableFree
  <2> QED
    BY <1>3, <2>1 DEF DestroyCq, ResTypes
<1>4. ASSUME NEW h \in DOMAIN ahs, DestroyAh(h) PROVE ResTypes'
  <2>1. Table(ResourceFree(ahs, h), AhSlots, AhRec)
    BY <1>1, TableFree
  <2>2. Table(Put(pds, ahs[h].pd), PdSlots, PdRec)
    BY <1>1, RefRecords, CountIs DEF Put
  <2> QED
    BY <1>4, <2>1, <2>2 DEF DestroyAh, ResTypes
<1>5. ASSUME NEW m \in DOMAIN mrs, DestroyMr(m) PROVE ResTypes'
  <2>1. PICK s : s = DestroyMrIn(Tables, m)
    OBVIOUS
  <2>2. TablesType(s)
    <3>1. TablesType(Tables) /\ m \in DOMAIN Tables.mrs
      BY TablesNow DEF Tables
    <3> QED
      BY <2>1, <3>1, DestroyMrInIs
  <2>3. mrs' = s.mrs /\ pds' = s.pds /\ crash' \in {crash, "put_pd"}
    BY <1>5, <2>1 DEF DestroyMr
  <2>4. Table(pds', PdSlots, PdRec) /\ Table(mrs', MrSlots, MrRec)
    BY <2>2, <2>3 DEF TablesType
  <2> QED
    BY <1>5, <2>3, <2>4 DEF DestroyMr, ResTypes
<1> QED
  BY <1>2, <1>3, <1>4, <1>5

LEMMA CreateQpTypes ==
  ASSUME ResTypes, NEW pd \in 0 .. PdSlots, NEW ok \in BOOLEAN, NEW type \in QpTypes,
         NEW scq \in 0 .. CqSlots, NEW rcq \in 0 .. CqSlots, CreateQp(type, pd, scq, rcq, ok)
  PROVE  ResTypes'
<1>1. /\ Table(pds, PdSlots, PdRec) /\ Table(cqs, CqSlots, PdRec)
      /\ Table(ahs, AhSlots, AhRec) /\ Table(mrs, MrSlots, MrRec) /\ Table(qps, QpSlots, QpRec)
      /\ gsi \in [used : BOOLEAN, handle : {0, Gsi}]
      /\ crash \in {"none", "put_pd", "null_rcq", "gsi_handle", "map_pages"}
  BY DEF ResTypes
<1>2. PICK held, qp, refused :
        /\ held = Get(Get(cqs, scq), rcq)
        /\ qp = NewQp(type, pd, scq, IF Found(cqs, rcq) THEN rcq ELSE Null)
        /\ refused = (\/ ~Found(cqs, scq)
                      \/ type = "GSI" /\ gsi.used
                      \/ type # "GSI" /\ (~ok \/ Full(QpSlots, qps)))
  OBVIOUS
<1>3. Table(Get(pds, pd), PdSlots, PdRec) /\ Put(Get(pds, pd), pd) = pds
  BY <1>1, RefRecords, CountIs, PutGet DEF Get
<1>4. Table(held, CqSlots, PdRec) /\ Table(Put(Put(held, scq), rcq), CqSlots, PdRec)
  <2>1. Table(Get(cqs, scq), CqSlots, PdRec)
    BY <1>1, RefRecords, CountIs DEF Get
  <2>2. Table(Get(Get(cqs, scq), rcq), CqSlots, PdRec)
    BY <2>1, RefRecords, CountIs DEF Get
  <2>3. Table(Put(held, scq), CqSlots, PdRec)
    BY <1>2, <2>2, RefRecords, CountIs DEF Put
  <2>4. Table(Put(Put(held, scq), rcq), CqSlots, PdRec)
    BY <2>3, RefRecords, CountIs DEF Put
  <2> QED
    BY <1>2, <2>2, <2>4
<1>5. ahs' = ahs /\ mrs' = mrs
  BY DEF CreateQp
<1>6. CASE refused
  <2>1. /\ pds' = Put(Get(pds, pd), pd) /\ cqs' = Put(Put(held, scq), rcq)
        /\ qps' = qps /\ gsi' = gsi /\ crash' = crash
    BY <1>2, <1>6 DEF CreateQp
  <2> QED
    BY <1>1, <1>3, <1>4, <1>5, <2>1 DEF ResTypes
<1>7. CASE ~refused /\ type = "GSI" /\ gsi.handle # Gsi
  <2>1. crash' = "gsi_handle" /\ pds' = pds /\ cqs' = cqs /\ qps' = qps /\ gsi' = gsi
    BY <1>2, <1>7 DEF CreateQp
  <2> QED
    BY <1>1, <1>5, <2>1 DEF ResTypes
<1>8. CASE ~refused /\ ~(type = "GSI" /\ gsi.handle # Gsi)
  <2>1. PICK h : h = IF type = "GSI" THEN gsi.handle ELSE ResourceAlloc(QpSlots, qps)
    OBVIOUS
  <2>2. /\ pds' = Get(pds, pd) /\ cqs' = held /\ crash' = crash
        /\ qps' = Insert(qps, h, qp)
        /\ gsi' = IF type = "GSI" THEN [gsi EXCEPT !.used = TRUE] ELSE gsi
    BY <1>2, <1>8, <2>1 DEF CreateQp
  <2>3. h \in 0 .. QpSlots - 1
    <3>1. CASE type = "GSI"
      BY <1>1, <1>8, <2>1, <3>1, SlotsType DEF Gsi
    <3>2. CASE type # "GSI"
      BY <1>2, <1>8, <2>1, <3>2, SlotsType, AllocFree
    <3> QED
      BY <3>1, <3>2
  <2>4. qp \in QpRec
    <3>1. pd \in Int /\ scq \in Int /\ rcq \in Int /\ Null \in Int
      BY DEF Null
    <3>2. PICK r \in Int : r = IF Found(cqs, rcq) THEN rcq ELSE Null
      BY <3>1
    <3> QED
      BY <1>2, <3>1, <3>2, NewQpType
  <2>5. Table(qps', QpSlots, QpRec)
    BY <1>1, <2>2, <2>3, <2>4, TableInsert
  <2>6. gsi' \in [used : BOOLEAN, handle : {0, Gsi}]
    BY <1>1, <2>2
  <2> QED
    BY <1>1, <1>3, <1>4, <1>5, <2>2, <2>5, <2>6 DEF ResTypes
<1> QED
  BY <1>6, <1>7, <1>8

LEMMA DestroyQpTypes ==
  ASSUME ResTypes, NEW q \in DOMAIN qps, DestroyQp(q)
  PROVE  ResTypes'
<1>1. /\ Table(pds, PdSlots, PdRec) /\ Table(cqs, CqSlots, PdRec)
      /\ Table(ahs, AhSlots, AhRec) /\ Table(mrs, MrSlots, MrRec) /\ Table(qps, QpSlots, QpRec)
      /\ gsi \in [used : BOOLEAN, handle : {0, Gsi}]
      /\ crash \in {"none", "put_pd", "null_rcq", "gsi_handle", "map_pages"}
  BY DEF ResTypes
<1>2. PICK qp, s :
        /\ qp = qps[q]
        /\ s = PutWrs([Tables EXCEPT !.pds = Put(@, qp.pd)], HeldBySq(qp) \o qp.rq)
  OBVIOUS
<1>3. qp \in QpRec
  BY <1>1, <1>2 DEF Table
<1>4. ahs' = ahs
  BY DEF DestroyQp
<1>5. CASE qp.rcq = Null
  <2>1. crash' = "null_rcq" /\ pds' = pds /\ cqs' = cqs /\ mrs' = mrs /\ qps' = qps /\ gsi' = gsi
    BY <1>2, <1>5 DEF DestroyQp
  <2> QED
    BY <1>1, <1>4, <2>1 DEF ResTypes
<1>6. CASE qp.rcq # Null
  <2>1. /\ pds' = s.pds /\ mrs' = s.mrs /\ cqs' = Put(Put(cqs, qp.scq), qp.rcq)
        /\ qps' = ResourceFree(qps, q)
        /\ gsi' = IF qp.type = "GSI" THEN [used |-> FALSE, handle |-> 0] ELSE gsi
        /\ crash' \in {crash, "put_pd"}
    BY <1>2, <1>6 DEF DestroyQp
  <2>2. PICK s0 : s0 = [Tables EXCEPT !.pds = Put(@, qp.pd)]
    OBVIOUS
  <2>3. TablesType(s0)
    <3>1. Table(Put(pds, qp.pd), PdSlots, PdRec)
      BY <1>1, RefRecords, CountIs DEF Put
    <3>2. s0 = [mrs |-> mrs, pds |-> Put(pds, qp.pd), ok |-> TRUE]
      BY <2>2 DEF Tables
    <3> QED
      BY <1>1, <3>1, <3>2 DEF TablesType
  <2>4. HeldBySq(qp) \o qp.rq \in Lists
    BY <1>3, HeldTypes, CountConcat
  <2>5. TablesType(s)
    BY <1>2, <2>2, <2>3, <2>4, PutWrsType
  <2>6. Table(Put(Put(cqs, qp.scq), qp.rcq), CqSlots, PdRec)
    <3>1. Table(Put(cqs, qp.scq), CqSlots, PdRec)
      BY <1>1, RefRecords, CountIs DEF Put
    <3> QED
      BY <3>1, RefRecords, CountIs DEF Put
  <2>7. Table(ResourceFree(qps, q), QpSlots, QpRec)
    BY <1>1, TableFree
  <2>8. gsi' \in [used : BOOLEAN, handle : {0, Gsi}]
    BY <1>1, <2>1
  <2> QED
    BY <1>1, <1>4, <2>1, <2>5, <2>6, <2>7, <2>8 DEF ResTypes, TablesType
<1> QED
  BY <1>5, <1>6

LEMMA PostTypes ==
  ASSUME ResTypes, NEW q \in DOMAIN qps, NEW sges \in SgeLists \cup {<<>>}, NEW local \in BOOLEAN
  PROVE  /\ sges \in SgeLists /\ PostRecv(q, sges) => ResTypes'
         /\ PostSendRc(q, sges, local) => ResTypes'
         /\ \A ah \in 0 .. AhSlots, fits \in BOOLEAN : PostSendUd(q, sges, ah, fits) => ResTypes'
<1>1. /\ Table(pds, PdSlots, PdRec) /\ Table(cqs, CqSlots, PdRec)
      /\ Table(ahs, AhSlots, AhRec) /\ Table(mrs, MrSlots, MrRec) /\ Table(qps, QpSlots, QpRec)
      /\ gsi \in [used : BOOLEAN, handle : {0, Gsi}]
      /\ crash \in {"none", "put_pd", "null_rcq", "gsi_handle", "map_pages"}
  BY DEF ResTypes
<1>2. PICK qp : qp = qps[q] /\ qp \in QpRec
  BY <1>1 DEF Table
<1>3. sges \in Seq(Nat) /\ TablesType(Tables)
  BY SgesType, TablesNow
<1>4. PICK s : s = GetMrs(Tables, sges) /\ TablesType(s)
  BY <1>3, GetMrsType
<1>5. TablesType(PutMrs(s, sges))
  BY <1>3, <1>4, PutMrsType
<1>6. PICK known : known = (FoundPrefix(Tables, sges) = sges)
  OBVIOUS
<1>7. qp.sq \in Seq(SendWr) /\ qp.rq \in Seq(SgeLists) /\ qp.resp \in Seq(SgeLists)
  BY <1>2 DEF QpRec
<1>8. ASSUME sges \in SgeLists, PostRecv(q, sges) PROVE ResTypes'
  <2>1. UNCHANGED <<cqs, ahs, gsi>>
    BY <1>8 DEF PostRecv
  <2>2. CASE known
    <3>1. PICK r : r = [qp EXCEPT !.rq = Append(@, sges)]
      OBVIOUS
    <3>2. r \in QpRec
      <4>1. Append(qp.rq, sges) \in Seq(SgeLists)
        BY <1>7, <1>8, AppendProperties
      <4> QED
        BY <1>2, <3>1, <4>1, QpUpdates
    <3>3. Becomes(s, q, r)
      BY <1>2, <1>4, <1>6, <1>8, <2>2, <3>1 DEF PostRecv
    <3> QED
      BY <1>4, <2>1, <3>2, <3>3, BecomesType
  <2>3. CASE ~known
    <3>1. Becomes(PutMrs(s, sges), q, qp)
      BY <1>2, <1>4, <1>6, <1>8, <2>3 DEF PostRecv
    <3> QED
      BY <1>2, <1>5, <2>1, <3>1, BecomesType
  <2> QED
    BY <2>2, <2>3
<1>9. ASSUME PostSendRc(q, sges, local) PROVE ResTypes'
  <2>1. UNCHANGED <<cqs, ahs, gsi>>
    BY <1>9 DEF PostSendRc
  <2>2. CASE known /\ ~local /\ ~Mappable(qps[q], sges)
    <3>1. crash' = "map_pages" /\ pds' = pds /\ mrs' = mrs /\ qps' = qps
      BY <1>6, <1>9, <2>2 DEF PostSendRc
    <3> QED
      BY <1>1, <2>1, <3>1 DEF ResTypes
  <2>3. CASE ~(known /\ ~local /\ ~Mappable(qps[q], sges))
    <3>1. PICK wr : wr = [sges |-> sges, error |-> ~known, local |-> local]
      OBVIOUS
    <3>2. wr \in SendWr
      <4>1. local /\ sges # <<>> => "local_sges" \in Calls
        BY <1>9 DEF PostSendRc
      <4> QED
        BY <1>6, <3>1, <4>1 DEF SendWr
    <3>3. PICK r : r = [qp EXCEPT !.sq = CompleteHead(Append(@, wr))]
      OBVIOUS
    <3>4. r \in QpRec
      <4>1. Append(qp.sq, wr) \in Seq(SendWr)
        BY <1>7, <3>2, AppendProperties
      <4>2. CompleteHead(Append(qp.sq, wr)) \in Seq(SendWr)
        BY <4>1, CompleteHeadIs
      <4> QED
        BY <1>2, <3>3, <4>2, QpUpdates
    <3>5. Becomes(s, q, r)
      BY <1>2, <1>4, <1>6, <1>9, <2>3, <3>1, <3>3 DEF PostSendRc
    <3> QED
      BY <1>4, <2>1, <3>4, <3>5, BecomesType
  <2> QED
    BY <2>2, <2>3
<1>10. ASSUME NEW ah \in 0 .. AhSlots, NEW fits \in BOOLEAN, PostSendUd(q, sges, ah, fits)
       PROVE  ResTypes'
  <2>1. ahs' = ahs /\ cqs' = cqs /\ gsi' = gsi
    BY <1>1, <1>10, RefRecords, PutGet DEF PostSendUd
  <2>2. PICK sent : sent = (known /\ fits /\ Found(ahs, ah))
    OBVIOUS
  <2>3. CASE sent /\ ~Mappable(qps[q], sges)
    <3>1. crash' = "map_pages" /\ pds' = pds /\ mrs' = mrs /\ qps' = qps
      BY <1>6, <1>10, <2>2, <2>3 DEF PostSendUd
    <3> QED
      BY <1>1, <2>1, <3>1 DEF ResTypes
  <2>4. CASE ~(sent /\ ~Mappable(qps[q], sges))
    <3>1. PICK t : t = IF known THEN PutMrs(s, sges) ELSE s
      OBVIOUS
    <3>2. TablesType(t)
      BY <1>4, <1>5, <3>1
    <3>3. Becomes(t, q, qp)
      BY <1>2, <1>4, <1>6, <1>10, <2>2, <2>4, <3>1 DEF PostSendUd
    <3> QED
      BY <1>2, <2>1, <3>2, <3>3, BecomesType
  <2> QED
    BY <2>3, <2>4
<1> QED
  BY <1>8, <1>9, <1>10

LEMMA CompleteTypes ==
  ASSUME ResTypes, NEW q \in DOMAIN qps
  PROVE  /\ CompleteSend(q) => ResTypes'
         /\ \A first, last, ok \in BOOLEAN : RecvPayload(q, first, last, ok) => ResTypes'
<1>1. PICK qp : qp = qps[q] /\ qp \in QpRec
  BY DEF ResTypes, Table
<1>2. qp.sq \in Seq(SendWr) /\ qp.rq \in Seq(SgeLists) /\ qp.resp \in Seq(SgeLists)
  BY <1>1 DEF QpRec
<1>3. TablesType(Tables)
  BY TablesNow
<1>4. ASSUME CompleteSend(q) PROVE ResTypes'
  <2>1. qp.sq # <<>>
    BY <1>1, <1>4 DEF CompleteSend
  <2>2. Head(qp.sq) \in SendWr /\ Tail(qp.sq) \in Seq(SendWr)
    BY <1>2, <2>1, HeadTailProperties
  <2>3. Head(qp.sq).sges \in Seq(Nat)
    BY <2>2, SgesType DEF SendWr
  <2>4. TablesType(PutMrs(Tables, Head(qp.sq).sges))
    BY <1>3, <2>3, PutMrsType
  <2>5. PICK r : r = [qp EXCEPT !.sq = CompleteHead(Tail(@))]
    OBVIOUS
  <2>6. r \in QpRec
    <3>1. CompleteHead(Tail(qp.sq)) \in Seq(SendWr)
      BY <2>2, CompleteHeadIs
    <3> QED
      BY <1>1, <2>5, <3>1, QpUpdates
  <2>7. Becomes(PutMrs(Tables, Head(qp.sq).sges), q, r) /\ UNCHANGED <<cqs, ahs, gsi>>
    BY <1>1, <1>4, <2>5 DEF CompleteSend
  <2> QED
    BY <2>4, <2>6, <2>7, BecomesType
<1>5. ASSUME NEW first \in BOOLEAN, NEW last \in BOOLEAN, NEW ok \in BOOLEAN,
             RecvPayload(q, first, last, ok)
      PROVE  ResTypes'
  <2>1. PICK wr, popped : /\ wr = Head(IF first THEN qp.rq ELSE qp.resp)
                          /\ popped = IF first THEN Tail(qp.rq) ELSE qp.rq
    OBVIOUS
  <2>2. (first => qp.rq # <<>>) /\ (first <=> qp.resp = <<>>)
    BY <1>1, <1>5 DEF RecvPayload
  <2>3. wr \in SgeLists /\ popped \in Seq(SgeLists)
    <3>1. CASE first
      BY <1>2, <2>1, <2>2, <3>1, HeadTailProperties
    <3>2. CASE ~first
      BY <1>2, <2>1, <2>2, <3>2, HeadTailProperties
    <3> QED
      BY <3>1, <3>2
  <2>4. <<wr>> \in Seq(SgeLists) /\ <<>> \in Seq(SgeLists)
    BY <2>3, EmptySeq
  <2>5. PICK r, k : /\ r = [qp EXCEPT !.rq = popped, !.resp = <<>>]
                    /\ k = [qp EXCEPT !.rq = popped, !.resp = <<wr>>]
    OBVIOUS
  <2>6. r \in QpRec /\ k \in QpRec
    BY <1>1, <2>3, <2>4, <2>5, QpUpdates
  <2>7. TablesType(PutMrs(Tables, wr))
    BY <1>3, <2>3, SgesType, PutMrsType
  <2>8. UNCHANGED <<cqs, ahs, gsi>>
    BY <1>5 DEF RecvPayload
  <2>9. CASE ok /\ last
    <3>1. Becomes(PutMrs(Tables, wr), q, r)
      BY <1>1, <1>5, <2>1, <2>5, <2>9 DEF RecvPayload
    <3> QED
      BY <2>6, <2>7, <2>8, <3>1, BecomesType
  <2>10. CASE ~(ok /\ last)
    <3>1. Becomes(Tables, q, k)
      BY <1>1, <1>5, <2>1, <2>5, <2>10 DEF RecvPayload
    <3> QED
      BY <1>3, <2>6, <2>8, <3>1, BecomesType
  <2> QED
    BY <2>9, <2>10
<1> QED
  BY <1>4, <1>5

LEMMA TypesInit == ResInit => ResTypes
<1>1. ASSUME ResInit PROVE ResTypes
  <2>1. \A size, R : Table(<<>>, size, R)
    <3>1. DOMAIN <<>> = {}
      OBVIOUS
    <3>2. \A R : <<>> \in [{} -> R]
      OBVIOUS
    <3> QED
      BY <3>1, <3>2 DEF Table
  <2>2. Table(qps, QpSlots, QpRec)
    BY <1>1, NewQpType, SlotsType DEF ResInit, Table, Smi, Gsi
  <2>3. gsi \in [used : BOOLEAN, handle : {0, Gsi}] /\ crash = "none"
    BY <1>1 DEF ResInit
  <2> QED
    BY <1>1, <2>1, <2>2, <2>3 DEF ResInit, ResTypes
<1> QED
  BY <1>1

LEMMA TypesNext == ResTypes /\ [ResNext]_res_vars => ResTypes'
<1> SUFFICES ASSUME ResTypes, [ResNext]_res_vars PROVE ResTypes'
  OBVIOUS
<1>1. CASE AllocPd \/ CreateCq
  BY <1>1, CreateTypes
<1>2. CASE \/ \E h \in DOMAIN pds : DeallocPd(h)
           \/ \E h \in DOMAIN cqs : DestroyCq(h)
           \/ \E h \in DOMAIN ahs : DestroyAh(h)
           \/ \E m \in DOMAIN mrs : DestroyMr(m)
  BY <1>2, DestroyTypes
<1>3. CASE \E q \in DOMAIN qps : DestroyQp(q)
  BY <1>3, DestroyQpTypes
<1>4. CASE \E pd \in 0 .. PdSlots, ok \in BOOLEAN :
             CreateAh(pd, ok) \/ \E type \in MrTypes : CreateMr(pd, type, ok)
  BY <1>4, CreateTypes
<1>5. CASE \E pd \in 0 .. PdSlots, ok \in BOOLEAN :
             \E type \in QpTypes, scq, rcq \in 0 .. CqSlots : CreateQp(type, pd, scq, rcq, ok)
  BY <1>5, CreateQpTypes
<1>6. CASE \E q \in DOMAIN qps, sges \in SgeLists :
             \/ PostRecv(q, sges)
             \/ PostSendRc(q, sges, FALSE)
             \/ \E ah \in 0 .. AhSlots, fits \in BOOLEAN : PostSendUd(q, sges, ah, fits)
  BY <1>6, PostTypes
<1>7. CASE \E q \in DOMAIN qps, sges \in SgeLists \cup {<<>>} : PostSendRc(q, sges, TRUE)
  BY <1>7, PostTypes
<1>8. CASE \/ \E q \in DOMAIN qps : CompleteSend(q)
           \/ \E q \in DOMAIN qps, first, last, ok \in BOOLEAN : RecvPayload(q, first, last, ok)
  BY <1>8, CompleteTypes
<1>9. CASE UNCHANGED res_vars
  BY <1>9 DEF res_vars, ResTypes
<1> QED
  BY <1>1, <1>2, <1>3, <1>4, <1>5, <1>6, <1>7, <1>8, <1>9 DEF ResNext

(***************************************************************************)
(* Every handle that roce_resource_alloc gives out is an index of its      *)
(* table and every reference count a uint32_t, whatever calls are made,    *)
(* the ones the code goes wrong on included.                               *)
(***************************************************************************)
THEOREM ResTypeOKHolds == ResSpec => []ResTypeOK
<1>1. ResTypes => ResTypeOK
  BY DEF ResTypes, ResTypeOK, Table, Handles, PdRec, AhRec, MrRec, RefCount
<1> QED
  BY <1>1, TypesInit, TypesNext, PTL DEF ResSpec

-----------------------------------------------------------------------------
(***************************************************************************)
(* Exact counts while a call is under way: in the tables s, the MR m has   *)
(* u[m] uses and the PD h has x[h] holders besides the MRs.                *)
(***************************************************************************)
GoodTables(s, u, x) ==
  /\ TablesType(s) /\ s.ok = TRUE /\ u \in [Nat -> Nat] /\ x \in [Nat -> Nat]
  /\ \A m \in Nat : u[m] > 0 => m \in DOMAIN s.mrs
  /\ \A m \in DOMAIN s.mrs :
       /\ s.mrs[m].ref = u[m]
       /\ s.mrs[m].state = "DESTROYED" => u[m] > 0
       /\ s.mrs[m].pd \in DOMAIN s.pds
  /\ \A h \in DOMAIN s.pds : s.pds[h].ref = Holders(s.mrs, h) + x[h]

\* Handles are numbers, and their objects records.
LEMMA TablesFacts ==
  ASSUME NEW s, TablesType(s)
  PROVE  /\ DOMAIN s.mrs \subseteq Nat /\ DOMAIN s.pds \subseteq Nat
         /\ IsFiniteSet(DOMAIN s.mrs)
         /\ \A m \in DOMAIN s.mrs : s.mrs[m] \in MrRec /\ s.mrs[m].ref \in RefCount
                                    /\ s.mrs[m].pd \in Nat
         /\ \A h \in DOMAIN s.pds : s.pds[h] \in PdRec /\ s.pds[h].ref \in RefCount
<1>1. Table(s.mrs, MrSlots, MrRec) /\ Table(s.pds, PdSlots, PdRec)
  BY DEF TablesType
<1>2. DOMAIN s.mrs \subseteq Nat /\ DOMAIN s.pds \subseteq Nat
  BY <1>1, SlotsType DEF Table
<1>3. IsFiniteSet(DOMAIN s.mrs)
  BY <1>1, SlotsType, TableFinite
<1>4. \A m \in DOMAIN s.mrs : s.mrs[m] \in MrRec
  BY <1>1 DEF Table
<1>5. \A h \in DOMAIN s.pds : s.pds[h] \in PdRec
  BY <1>1 DEF Table
<1> QED
  BY <1>2, <1>3, <1>4, <1>5 DEF MrRec, PdRec

\* What a changed reference count leaves alone.
LEMMA CountedIs ==
  /\ \A r \in MrRec, n \in {1, -1} :
       /\ Counted(r, n).pd = r.pd /\ Counted(r, n).state = r.state /\ Counted(r, n).type = r.type
       /\ Counted(r, n).ref = (r.ref + n) % RefMod
  /\ \A r \in AhRec, n \in {1, -1} :
       Counted(r, n).pd = r.pd /\ Counted(r, n).ref = (r.ref + n) % RefMod
  /\ \A r \in PdRec, n \in {1, -1} : Counted(r, n).ref = (r.ref + n) % RefMod
<1>1. \A r \in MrRec, n \in {1, -1} :
       /\ Counted(r, n).pd = r.pd /\ Counted(r, n).state = r.state /\ Counted(r, n).type = r.type
       /\ Counted(r, n).ref = (r.ref + n) % RefMod
  BY DEF Counted, MrRec
<1>2. \A r \in AhRec, n \in {1, -1} :
       Counted(r, n).pd = r.pd /\ Counted(r, n).ref = (r.ref + n) % RefMod
  BY DEF Counted, AhRec
<1>3. \A r \in PdRec, n \in {1, -1} : Counted(r, n).ref = (r.ref + n) % RefMod
  BY DEF Counted, PdRec
<1> QED
  BY <1>1, <1>2, <1>3

\* Counting down from more than 0, and up to less than RefMod.
LEMMA WrapBy ==
  ASSUME NEW a \in RefCount
  PROVE  /\ a > 0 => (a + (-1)) % RefMod = a - 1
         /\ a + 1 < RefMod => (a + 1) % RefMod = a + 1
<1>1. a + (-1) = a - 1
  BY DEF RefCount
<1> QED
  BY <1>1, Wrap

\* A PD, or a CQ, that loses a holder that was counted.
LEMMA PutPd ==
  ASSUME NEW t, NEW size, Table(t, size, PdRec), NEW h, NEW p, p = Put(t, h),
         h \in DOMAIN t => t[h].ref > 0
  PROVE  /\ Table(p, size, PdRec) /\ DOMAIN p = DOMAIN t
         /\ \A g \in DOMAIN t : p[g].ref = t[g].ref - One(g = h)
<1>1. /\ Table(p, size, PdRec) /\ DOMAIN p = DOMAIN t
      /\ \A g \in DOMAIN t \ {h} : p[g] = t[g]
      /\ h \in DOMAIN t => p[h] = Counted(t[h], -1)
  BY RefRecords, CountIs DEF Put
<1>2. \A g \in DOMAIN t : t[g] \in PdRec /\ t[g].ref \in RefCount /\ t[g].ref \in Int
  BY DEF Table, PdRec, RefCount
<1>3. ASSUME NEW g \in DOMAIN t PROVE p[g].ref = t[g].ref - One(g = h)
  <2>1. CASE g = h
    <3>1. p[g].ref = (t[g].ref + (-1)) % RefMod
      BY <1>1, <1>2, <2>1, CountedIs
    <3>2. (t[g].ref + (-1)) % RefMod = t[g].ref - 1
      BY <1>2, <2>1, WrapBy
    <3> QED
      BY <2>1, <3>1, <3>2 DEF One
  <2>2. CASE g # h
    BY <1>1, <1>2, <2>2 DEF One
  <2> QED
    BY <2>1, <2>2
<1> QED
  BY <1>1, <1>3

\* And one that gains a holder.
LEMMA GetPd ==
  ASSUME NEW t, NEW size, Table(t, size, PdRec), NEW h, NEW p, p = Get(t, h),
         h \in DOMAIN t => t[h].ref + 1 < RefMod
  PROVE  /\ Table(p, size, PdRec) /\ DOMAIN p = DOMAIN t
         /\ \A g \in DOMAIN t : p[g].ref = t[g].ref + One(g = h)
<1>1. /\ Table(p, size, PdRec) /\ DOMAIN p = DOMAIN t
      /\ \A g \in DOMAIN t \ {h} : p[g] = t[g]
      /\ h \in DOMAIN t => p[h] = Counted(t[h], 1)
  BY RefRecords, CountIs DEF Get
<1>2. \A g \in DOMAIN t : t[g] \in PdRec /\ t[g].ref \in RefCount /\ t[g].ref \in Int
  BY DEF Table, PdRec, RefCount
<1>3. ASSUME NEW g \in DOMAIN t PROVE p[g].ref = t[g].ref + One(g = h)
  <2>1. CASE g = h
    <3>1. p[g].ref = (t[g].ref + 1) % RefMod
      BY <1>1, <1>2, <2>1, CountedIs
    <3>2. (t[g].ref + 1) % RefMod = t[g].ref + 1
      BY <1>2, <2>1, WrapBy
    <3> QED
      BY <2>1, <3>1, <3>2 DEF One
  <2>2. CASE g # h
    BY <1>1, <1>2, <2>2 DEF One
  <2> QED
    BY <2>1, <2>2
<1> QED
  BY <1>1, <1>3

\* An MR gets one use more.
LEMMA GetMrGood ==
  ASSUME NEW s, NEW u, NEW x, GoodTables(s, u, x), NEW m, m \in DOMAIN s.mrs,
         u[m] + 1 < RefMod,
         NEW v \in [Nat -> Nat], \A g \in Nat : v[g] = u[g] + One(g = m)
  PROVE  /\ GoodTables(GetMr(s, m), v, x)
         /\ DOMAIN GetMr(s, m).mrs = DOMAIN s.mrs /\ DOMAIN GetMr(s, m).pds = DOMAIN s.pds
<1>1. PICK t : t = GetMr(s, m)
  OBVIOUS
<1>2. TablesType(s)
  BY DEF GoodTables
<1>3. TablesType(t) /\ t.mrs = Get(s.mrs, m) /\ t.pds = s.pds /\ t.ok = TRUE
  BY <1>1, <1>2, GetMrIs DEF GoodTables
<1>4. /\ DOMAIN t.mrs = DOMAIN s.mrs
      /\ \A g \in DOMAIN s.mrs \ {m} : t.mrs[g] = s.mrs[g]
      /\ t.mrs[m] = Counted(s.mrs[m], 1)
  BY <1>2, <1>3, RefRecords, CountIs DEF Get, TablesType
<1>5. DOMAIN s.mrs \subseteq Nat /\ s.mrs[m] \in MrRec /\ s.mrs[m].ref \in RefCount
  BY <1>2, TablesFacts
<1>6. /\ t.mrs[m].ref = u[m] + 1 /\ t.mrs[m].pd = s.mrs[m].pd
      /\ t.mrs[m].state = s.mrs[m].state
  <2>1. /\ t.mrs[m].ref = (s.mrs[m].ref + 1) % RefMod /\ t.mrs[m].pd = s.mrs[m].pd
        /\ t.mrs[m].state = s.mrs[m].state
    BY <1>4, <1>5, CountedIs
  <2>2. s.mrs[m].ref = u[m]
    BY DEF GoodTables
  <2> QED
    BY <1>5, <2>1, <2>2, WrapBy
<1>7. \A h : Holders(t.mrs, h) = Holders(s.mrs, h)
  <2>1. \A g \in DOMAIN s.mrs : t.mrs[g].pd = s.mrs[g].pd
    BY <1>4, <1>6
  <2>2. ASSUME NEW h PROVE Holders(t.mrs, h) = Holders(s.mrs, h)
    BY <1>4, <2>1, HoldersSame
  <2> QED
    BY <2>2
<1>8. u \in [Nat -> Nat] /\ x \in [Nat -> Nat]
  BY DEF GoodTables
<1>9. \A g \in DOMAIN t.mrs :
        /\ t.mrs[g].ref = v[g]
        /\ t.mrs[g].state = "DESTROYED" => v[g] > 0
        /\ t.mrs[g].pd \in DOMAIN t.pds
  <2>1. ASSUME NEW g \in DOMAIN s.mrs
        PROVE  /\ t.mrs[g].ref = v[g]
               /\ t.mrs[g].state = "DESTROYED" => v[g] > 0
               /\ t.mrs[g].pd \in DOMAIN t.pds
    <3>1. /\ s.mrs[g].ref = u[g] /\ (s.mrs[g].state = "DESTROYED" => u[g] > 0)
          /\ s.mrs[g].pd \in DOMAIN s.pds
      BY DEF GoodTables
    <3>2. g \in Nat /\ u[g] \in Nat /\ v[g] = u[g] + One(g = m)
      BY <1>5, <1>8
    <3>3. CASE g = m
      BY <1>3, <1>6, <3>1, <3>2, <3>3 DEF One
    <3>4. CASE g # m
      BY <1>3, <1>4, <3>1, <3>2, <3>4 DEF One
    <3> QED
      BY <3>3, <3>4
  <2> QED
    BY <1>4, <2>1
<1>10. \A g \in Nat : v[g] > 0 => g \in DOMAIN t.mrs
  <2>1. ASSUME NEW g \in Nat, v[g] > 0 PROVE g \in DOMAIN t.mrs
    <3>1. CASE g = m
      BY <1>4, <3>1
    <3>2. CASE g # m
      <4>1. u[g] > 0
        BY <1>8, <2>1, <3>2 DEF One
      <4> QED
        BY <1>4, <4>1 DEF GoodTables
    <3> QED
      BY <3>1, <3>2
  <2> QED
    BY <2>1
<1>11. \A h \in DOMAIN t.pds : t.pds[h].ref = Holders(t.mrs, h) + x[h]
  BY <1>3, <1>7 DEF GoodTables
<1> QED
  BY <1>1, <1>3, <1>4, <1>8, <1>9, <1>10, <1>11 DEF GoodTables

\* An MR loses a use; a destroyed one goes with its last use, and puts its PD.
LEMMA PutMrGood ==
  ASSUME NEW s, NEW u, NEW x, GoodTables(s, u, x), NEW m \in Nat, u[m] > 0,
         NEW v \in [Nat -> Nat], \A g \in Nat : u[g] = v[g] + One(g = m)
  PROVE  GoodTables(PutMr(s, m), v, x) /\ DOMAIN PutMr(s, m).pds = DOMAIN s.pds
<1>1. TablesType(s) /\ m \in DOMAIN s.mrs /\ s.ok = TRUE /\ u \in [Nat -> Nat] /\ x \in [Nat -> Nat]
  BY DEF GoodTables
<1>2. PICK t : /\ TablesType(t) /\ t.mrs = Put(s.mrs, m) /\ t.pds = s.pds /\ t.ok = s.ok
               /\ PutMr(s, m) = IF s.mrs[m].state = "DESTROYED" THEN DestroyMrIn(t, m) ELSE t
  BY <1>1, PutMrIs
<1>3. /\ DOMAIN t.mrs = DOMAIN s.mrs
      /\ \A g \in DOMAIN s.mrs \ {m} : t.mrs[g] = s.mrs[g]
      /\ t.mrs[m] = Counted(s.mrs[m], -1)
  BY <1>1, <1>2, RefRecords, CountIs DEF Put, TablesType
<1>4. /\ DOMAIN s.mrs \subseteq Nat /\ s.mrs[m] \in MrRec /\ s.mrs[m].ref \in RefCount
      /\ s.mrs[m].ref = u[m] /\ s.mrs[m].pd \in DOMAIN s.pds /\ v[m] \in Nat /\ u[m] = v[m] + 1
  BY <1>1, TablesFacts DEF GoodTables, One
<1>5. /\ t.mrs[m].ref = v[m] /\ t.mrs[m].pd = s.mrs[m].pd
      /\ t.mrs[m].state = s.mrs[m].state
  <2>1. /\ t.mrs[m].ref = (s.mrs[m].ref + (-1)) % RefMod /\ t.mrs[m].pd = s.mrs[m].pd
        /\ t.mrs[m].state = s.mrs[m].state
    BY <1>3, <1>4, CountedIs
  <2>2. (s.mrs[m].ref + (-1)) % RefMod = s.mrs[m].ref - 1
    BY <1>4, WrapBy
  <2> QED
    BY <1>4, <2>1, <2>2
<1>6. \A h : Holders(t.mrs, h) = Holders(s.mrs, h)
  <2>1. \A g \in DOMAIN s.mrs : t.mrs[g].pd = s.mrs[g].pd
    BY <1>3, <1>5
  <2>2. ASSUME NEW h PROVE Holders(t.mrs, h) = Holders(s.mrs, h)
    BY <1>3, <2>1, HoldersSame
  <2> QED
    BY <2>2
\* The other MRs are as they were.
<1>7. \A g \in DOMAIN s.mrs \ {m} :
        /\ t.mrs[g].ref = v[g]
        /\ t.mrs[g].state = "DESTROYED" => v[g] > 0
        /\ t.mrs[g].pd \in DOMAIN s.pds
  <2>1. ASSUME NEW g \in DOMAIN s.mrs \ {m}
        PROVE  /\ t.mrs[g].ref = v[g]
               /\ t.mrs[g].state = "DESTROYED" => v[g] > 0
               /\ t.mrs[g].pd \in DOMAIN s.pds
    <3>1. /\ s.mrs[g].ref = u[g] /\ (s.mrs[g].state = "DESTROYED" => u[g] > 0)
          /\ s.mrs[g].pd \in DOMAIN s.pds
      BY DEF GoodTables
    <3>2. v[g] = u[g] /\ t.mrs[g] = s.mrs[g]
      BY <1>1, <1>3, <1>4 DEF One
    <3> QED
      BY <3>1, <3>2
  <2> QED
    BY <2>1
<1>8. \A g \in Nat \ {m} : v[g] > 0 => g \in DOMAIN s.mrs
  <2>1. ASSUME NEW g \in Nat \ {m}, v[g] > 0 PROVE g \in DOMAIN s.mrs
    <3>1. u[g] > 0
      BY <1>1, <2>1 DEF One
    <3> QED
      BY <3>1 DEF GoodTables
  <2> QED
    BY <2>1
<1>9. \A h \in DOMAIN s.pds : s.pds[h].ref = Holders(s.mrs, h) + x[h]
  BY DEF GoodTables
\* The MR stays, marked or not.
<1>10. ASSUME NEW w, TablesType(w), w.ok = TRUE, w.pds = s.pds, DOMAIN w.mrs = DOMAIN s.mrs,
              \A g \in DOMAIN s.mrs \ {m} : w.mrs[g] = t.mrs[g],
              w.mrs[m].ref = v[m], w.mrs[m].pd = s.mrs[m].pd,
              w.mrs[m].state = "DESTROYED" => v[m] > 0
       PROVE  GoodTables(w, v, x) /\ DOMAIN w.pds = DOMAIN s.pds
  <2>1. \A g \in DOMAIN s.mrs : w.mrs[g].pd = t.mrs[g].pd
    BY <1>5, <1>10
  <2>2. ASSUME NEW h PROVE Holders(w.mrs, h) = Holders(s.mrs, h)
    <3>1. DOMAIN w.mrs = DOMAIN t.mrs /\ \A g \in DOMAIN t.mrs : w.mrs[g].pd = t.mrs[g].pd
      BY <1>3, <1>10, <2>1
    <3>2. Holders(w.mrs, h) = Holders(t.mrs, h)
      BY <3>1, HoldersSame
    <3> QED
      BY <1>6, <3>2
  <2>3. \A g \in DOMAIN w.mrs :
          /\ w.mrs[g].ref = v[g]
          /\ w.mrs[g].state = "DESTROYED" => v[g] > 0
          /\ w.mrs[g].pd \in DOMAIN w.pds
    BY <1>4, <1>7, <1>10
  <2>4. \A g \in Nat : v[g] > 0 => g \in DOMAIN w.mrs
    BY <1>1, <1>8, <1>10
  <2>5. \A h \in DOMAIN w.pds : w.pds[h].ref = Holders(w.mrs, h) + x[h]
    BY <1>9, <1>10, <2>2
  <2> QED
    BY <1>1, <1>10, <2>3, <2>4, <2>5 DEF GoodTables
<1>11. CASE s.mrs[m].state # "DESTROYED"
  <2>1. PutMr(s, m) = t
    BY <1>2, <1>11
  <2> QED
    BY <1>1, <1>2, <1>3, <1>5, <1>10, <1>11, <2>1
<1>12. CASE s.mrs[m].state = "DESTROYED" /\ v[m] # 0
  <2>1. PICK w, obj : w = DestroyMrIn(t, m) /\ obj = [t.mrs[m] EXCEPT !.state = "DESTROYED"]
    OBVIOUS
  <2>2. PutMr(s, m) = w
    BY <1>2, <1>12, <2>1
  <2>3. /\ TablesType(w) /\ w.mrs = Replace(t.mrs, m, obj) /\ w.pds = t.pds /\ w.ok = t.ok
    BY <1>1, <1>2, <1>3, <1>5, <1>12, <2>1, DestroyMrInIs
  <2>4. t.mrs[m] \in MrRec
    BY <1>1, <1>2, <1>3, TablesFacts
  <2>5. obj.ref = v[m] /\ obj.pd = s.mrs[m].pd
    BY <1>5, <2>1, <2>4 DEF MrRec
  <2>6. /\ DOMAIN w.mrs = DOMAIN s.mrs /\ w.mrs[m] = obj
        /\ \A g \in DOMAIN s.mrs \ {m} : w.mrs[g] = t.mrs[g]
    BY <1>1, <1>3, <2>3, ReplaceIs
  <2>7. /\ w.ok = TRUE /\ w.pds = s.pds
        /\ w.mrs[m].ref = v[m] /\ w.mrs[m].pd = s.mrs[m].pd
        /\ w.mrs[m].state = "DESTROYED" => v[m] > 0
    BY <1>1, <1>2, <1>4, <1>12, <2>3, <2>5, <2>6
  <2>8. GoodTables(w, v, x) /\ DOMAIN w.pds = DOMAIN s.pds
    BY <1>10, <2>3, <2>6, <2>7
  <2> QED
    BY <2>2, <2>8
<1>13. CASE s.mrs[m].state = "DESTROYED" /\ v[m] = 0
  <2>1. PICK w, p : w = DestroyMrIn(t, m) /\ p = s.mrs[m].pd
    OBVIOUS
  <2>2. PutMr(s, m) = w
    BY <1>2, <1>13, <2>1
  <2>3. /\ TablesType(w) /\ w.mrs = ResourceFree(t.mrs, m) /\ w.pds = Put(s.pds, p)
        /\ w.ok = (s.ok /\ p \in DOMAIN s.pds)
    <3>1. m \in DOMAIN t.mrs /\ t.mrs[m].ref = 0 /\ t.mrs[m].pd = p
      BY <1>1, <1>3, <1>5, <1>13, <2>1
    <3>2. TablesType(t)
      BY <1>2
    <3>3. TablesType(w)
      BY <2>1, <3>1, <3>2, DestroyMrInIs
    <3>4. w.mrs = ResourceFree(t.mrs, m)
      BY <2>1, <3>1, <3>2, DestroyMrInIs
    <3>5. w.pds = Put(t.pds, t.mrs[m].pd)
      BY <2>1, <3>1, <3>2, DestroyMrInIs
    <3>6. w.ok = (t.ok /\ Found(t.pds, t.mrs[m].pd))
      BY <2>1, <3>1, <3>2, DestroyMrInIs
    <3> QED
      BY <1>2, <3>1, <3>3, <3>4, <3>5, <3>6 DEF Found
  <2>4. /\ DOMAIN w.mrs = DOMAIN s.mrs \ {m}
        /\ \A g \in DOMAIN s.mrs \ {m} : w.mrs[g] = t.mrs[g]
    <3>1. /\ DOMAIN ResourceFree(t.mrs, m) = DOMAIN t.mrs \ {m}
          /\ \A g \in DOMAIN t.mrs \ {m} : ResourceFree(t.mrs, m)[g] = t.mrs[g]
      BY FreeIs
    <3> QED
      BY <1>3, <2>3, <3>1
  <2>5. ASSUME NEW h
        PROVE  /\ Holders(s.mrs, h) = Holders(w.mrs, h) + One(p = h)
               /\ Holders(w.mrs, h) \in Nat
    <3>1. IsFiniteSet(DOMAIN t.mrs) /\ m \in DOMAIN t.mrs
      BY <1>1, <1>2, <1>3, TablesFacts
    <3>2. /\ Holders(t.mrs, h) = Holders(ResourceFree(t.mrs, m), h) + One(t.mrs[m].pd = h)
          /\ Holders(ResourceFree(t.mrs, m), h) \in Nat
      BY <3>1, HoldersWithout
    <3> QED
      BY <1>5, <1>6, <2>1, <2>3, <3>2
  <2>6. p \in DOMAIN s.pds /\ s.pds[p].ref > 0
    <3>1. p \in DOMAIN s.pds /\ p \in Nat
      BY <1>1, <1>4, <2>1, TablesFacts
    <3>2. s.pds[p].ref = Holders(w.mrs, p) + 1 + x[p]
      BY <1>9, <2>5, <3>1 DEF One
    <3> QED
      BY <1>1, <2>5, <3>1, <3>2
  <2>7. /\ DOMAIN w.pds = DOMAIN s.pds
        /\ \A g \in DOMAIN s.pds : w.pds[g].ref = s.pds[g].ref - One(g = p)
    <3>1. Table(s.pds, PdSlots, PdRec)
      BY <1>1 DEF TablesType
    <3> QED
      BY <2>3, <2>6, <3>1, PutPd
  <2>8. \A h \in DOMAIN w.pds : w.pds[h].ref = Holders(w.mrs, h) + x[h]
    <3>1. ASSUME NEW h \in DOMAIN s.pds PROVE w.pds[h].ref = Holders(w.mrs, h) + x[h]
      <4>1. h \in Nat /\ x[h] \in Nat
        BY <1>1, TablesFacts
      <4>2. s.pds[h].ref = Holders(w.mrs, h) + One(p = h) + x[h]
        BY <1>9, <2>5
      <4> QED
        BY <2>5, <2>7, <4>1, <4>2 DEF One
    <3> QED
      BY <2>7, <3>1
  <2>9. \A g \in DOMAIN w.mrs :
          /\ w.mrs[g].ref = v[g]
          /\ w.mrs[g].state = "DESTROYED" => v[g] > 0
          /\ w.mrs[g].pd \in DOMAIN w.pds
    BY <1>7, <2>4, <2>7
  <2>10. \A g \in Nat : v[g] > 0 => g \in DOMAIN w.mrs
    BY <1>8, <1>13, <2>4
  <2>11. w.ok = TRUE
    BY <1>1, <2>3, <2>6
  <2> QED
    BY <1>1, <2>2, <2>3, <2>7, <2>8, <2>9, <2>10, <2>11 DEF GoodTables
<1> QED
  BY <1>11, <1>12, <1>13

-----------------------------------------------------------------------------
(* Lists of MRs, entry by entry. *)

\* Induction up to n, with a set of the numbers for which the claim holds.
LEMMA UpTo ==
  ASSUME NEW n \in Nat, NEW S, 0 \in S, \A k \in 1 .. n : k - 1 \in S => k \in S
  PROVE  \A k \in 0 .. n : k \in S
<1>1. PICK T : T = {k \in 0 .. n : k \notin S}
  OBVIOUS
<1>2. T = {}
  <2>1. SUFFICES ASSUME T # {} PROVE FALSE
    OBVIOUS
  <2>2. T \in SUBSET Nat
    BY <1>1
  <2>3. PICK k \in T : \A j \in T : k <= j
    BY <2>1, <2>2, Least
  <2>4. k \in 1 .. n /\ k - 1 \in 0 .. n /\ ~(k <= k - 1) /\ k \notin S
    BY <1>1, <2>3
  <2>5. k - 1 \in S
    BY <1>1, <2>3, <2>4
  <2> QED
    BY <2>4, <2>5
<1> QED
  BY <1>1, <1>2

\* From u to v in n steps: c[k][g] is what the first k steps take from g.
Stairs(n, c) ==
  /\ \A k \in 0 .. n, g \in Nat : c[k][g] \in Nat /\ c[k][g] <= c[n][g]
  /\ \A g \in Nat : c[0][g] = 0

Down(n, c, u, v, w) ==
  /\ w[0] = u /\ w[n] = v
  /\ \A k \in 0 .. n : w[k] \in [Nat -> Nat]
  /\ \A k \in 0 .. n, g \in Nat : w[k][g] + c[k][g] = u[g]

Up(n, c, u, v, w) ==
  /\ w[0] = u /\ w[n] = v
  /\ \A k \in 0 .. n : w[k] \in [Nat -> Nat]
  /\ \A k \in 0 .. n, g \in Nat : w[k][g] = u[g] + c[k][g] /\ w[k][g] <= v[g]

\* What u has of every MR that v has not is named by the list, or the lists.
Taken(u, v, sges) == \A g \in Nat : u[g] = v[g] + Names(sges, g)
AllTaken(u, v, lists) == \A g \in Nat : u[g] = v[g] + CountIn(lists, g)

LEMMA StairsDown ==
  ASSUME NEW n \in Nat, NEW c, Stairs(n, c), NEW u \in [Nat -> Nat], NEW v \in [Nat -> Nat],
         \A g \in Nat : u[g] = v[g] + c[n][g]
  PROVE  \E w : Down(n, c, u, v, w)
<1>1. PICK w : w = [k \in 0 .. n |-> [g \in Nat |-> u[g] - c[k][g]]]
  OBVIOUS
<1>2. 0 \in 0 .. n /\ n \in 0 .. n
  OBVIOUS
<1>3. \A k \in 0 .. n : w[k] = [g \in Nat |-> u[g] - c[k][g]]
  BY <1>1
<1>4. ASSUME NEW k \in 0 .. n, NEW g \in Nat
      PROVE  u[g] - c[k][g] \in Nat /\ (u[g] - c[k][g]) + c[k][g] = u[g]
  <2>1. PICK a \in Nat, b \in Nat, d \in Nat, e \in Nat :
          a = c[k][g] /\ b = c[n][g] /\ d = u[g] /\ e = v[g]
    BY <1>2 DEF Stairs
  <2>2. a <= b /\ d = e + b
    BY <2>1 DEF Stairs
  <2> QED
    BY <2>1, <2>2
<1>5. ASSUME NEW k \in 0 .. n PROVE w[k] \in [Nat -> Nat]
  <2>1. \A g \in Nat : u[g] - c[k][g] \in Nat
    BY <1>4
  <2>2. [g \in Nat |-> u[g] - c[k][g]] \in [Nat -> Nat]
    BY <2>1
  <2> QED
    BY <1>3, <2>2
<1>6. ASSUME NEW k \in 0 .. n, NEW g \in Nat PROVE w[k][g] + c[k][g] = u[g]
  <2>1. w[k][g] = u[g] - c[k][g]
    BY <1>3
  <2> QED
    BY <1>4, <2>1
<1>7. w[0] = u
  <2>1. w[0] = [g \in Nat |-> u[g] - c[0][g]]
    BY <1>2, <1>3
  <2>2. \A g \in Nat : u[g] - c[0][g] = u[g]
    BY DEF Stairs
  <2>3. u = [g \in Nat |-> u[g]]
    OBVIOUS
  <2> QED
    BY <2>1, <2>2, <2>3
<1>8. w[n] = v
  <2>1. w[n] = [g \in Nat |-> u[g] - c[n][g]]
    BY <1>2, <1>3
  <2>2. ASSUME NEW g \in Nat PROVE u[g] - c[n][g] = v[g]
    <3>1. PICK b \in Nat, e \in Nat : b = c[n][g] /\ e = v[g]
      BY <1>2 DEF Stairs
    <3> QED
      BY <3>1
  <2>3. v = [g \in Nat |-> v[g]]
    OBVIOUS
  <2> QED
    BY <2>1, <2>2, <2>3
<1> QED
  BY <1>5, <1>6, <1>7, <1>8 DEF Down

LEMMA StairsUp ==
  ASSUME NEW n \in Nat, NEW c, Stairs(n, c), NEW u \in [Nat -> Nat], NEW v \in [Nat -> Nat],
         \A g \in Nat : v[g] = u[g] + c[n][g]
  PROVE  \E w : Up(n, c, u, v, w)
<1>1. PICK w : w = [k \in 0 .. n |-> [g \in Nat |-> u[g] + c[k][g]]]
  OBVIOUS
<1>2. 0 \in 0 .. n /\ n \in 0 .. n
  OBVIOUS
<1>3. \A k \in 0 .. n : w[k] = [g \in Nat |-> u[g] + c[k][g]]
  BY <1>1
<1>4. ASSUME NEW k \in 0 .. n, NEW g \in Nat
      PROVE  u[g] + c[k][g] \in Nat /\ u[g] + c[k][g] <= v[g]
  <2>1. PICK a \in Nat, b \in Nat, d \in Nat, e \in Nat :
          a = c[k][g] /\ b = c[n][g] /\ d = u[g] /\ e = v[g]
    BY <1>2 DEF Stairs
  <2>2. a <= b /\ e = d + b
    BY <2>1 DEF Stairs
  <2> QED
    BY <2>1, <2>2
<1>5. ASSUME NEW k \in 0 .. n PROVE w[k] \in [Nat -> Nat]
  <2>1. \A g \in Nat : u[g] + c[k][g] \in Nat
    BY <1>4
  <2>2. [g \in Nat |-> u[g] + c[k][g]] \in [Nat -> Nat]
    BY <2>1
  <2> QED
    BY <1>3, <2>2
<1>6. ASSUME NEW k \in 0 .. n, NEW g \in Nat PROVE w[k][g] = u[g] + c[k][g] /\ w[k][g] <= v[g]
  <2>1. w[k][g] = u[g] + c[k][g]
    BY <1>3
  <2> QED
    BY <1>4, <2>1
<1>7. w[0] = u
  <2>1. w[0] = [g \in Nat |-> u[g] + c[0][g]]
    BY <1>2, <1>3
  <2>2. \A g \in Nat : u[g] + c[0][g] = u[g]
    BY DEF Stairs
  <2>3. u = [g \in Nat |-> u[g]]
    OBVIOUS
  <2> QED
    BY <2>1, <2>2, <2>3
<1>8. w[n] = v
  <2>1. w[n] = [g \in Nat |-> u[g] + c[n][g]]
    BY <1>2, <1>3
  <2>2. v = [g \in Nat |-> v[g]]
    OBVIOUS
  <2> QED
    BY <2>1, <2>2
<1> QED
  BY <1>5, <1>6, <1>7, <1>8 DEF Up

\* How often the first k entries name m.
NamesUpTo(p, k, m) == Cardinality({j \in 1 .. k : p[j] = m})

LEMMA NamesUpToIs ==
  ASSUME NEW p \in Seq(Nat), NEW m
  PROVE  /\ \A k \in 0 .. Len(p) : NamesUpTo(p, k, m) \in Nat /\ NamesUpTo(p, k, m) <= Names(p, m)
         /\ NamesUpTo(p, 0, m) = 0 /\ NamesUpTo(p, Len(p), m) = Names(p, m)
         /\ \A k \in 1 .. Len(p) : NamesUpTo(p, k, m) = NamesUpTo(p, k - 1, m) + One(m = p[k])
<1>1. PICK n \in Nat : n = Len(p)
  OBVIOUS
<1>2. PICK T : T = {j \in 1 .. n : p[j] = m}
  OBVIOUS
<1>3. IsFiniteSet(T) /\ Names(p, m) = Cardinality(T) /\ Cardinality(T) \in Nat
  BY <1>1, <1>2, NamesType DEF Names
<1>4. ASSUME NEW k \in 0 .. n, NEW S, S = {j \in 1 .. k : p[j] = m}
      PROVE  IsFiniteSet(S) /\ Cardinality(S) \in Nat /\ Cardinality(S) <= Cardinality(T)
  <2>1. S \in SUBSET T
    BY <1>2, <1>4
  <2>2. IsFiniteSet(S) /\ Cardinality(S) <= Cardinality(T)
    BY <1>3, <2>1, FS_Subset
  <2> QED
    BY <2>2, FS_CardinalityType
<1>5. \A k \in 0 .. n : NamesUpTo(p, k, m) \in Nat /\ NamesUpTo(p, k, m) <= Names(p, m)
  BY <1>3, <1>4 DEF NamesUpTo
<1>6. NamesUpTo(p, 0, m) = 0
  <2>1. {j \in 1 .. 0 : p[j] = m} = {}
    OBVIOUS
  <2> QED
    BY <2>1, FS_EmptySet DEF NamesUpTo
<1>7. NamesUpTo(p, n, m) = Names(p, m)
  BY <1>1 DEF NamesUpTo, Names
<1>8. ASSUME NEW k \in 1 .. n
      PROVE  NamesUpTo(p, k, m) = NamesUpTo(p, k - 1, m) + One(m = p[k])
  <2>1. PICK S, R : S = {j \in 1 .. k : p[j] = m} /\ R = {j \in 1 .. k - 1 : p[j] = m}
    OBVIOUS
  <2>2. k \in 0 .. n /\ k - 1 \in 0 .. n /\ k \in Nat
    BY <1>1
  <2>3. R = S \ {k}
    BY <2>1, <2>2
  <2>4. k \in S <=> m = p[k]
    BY <2>1, <2>2
  <2>5. IsFiniteSet(S)
    BY <1>4, <2>1, <2>2
  <2>6. Cardinality(S) = Cardinality(R) + One(k \in S)
    BY <2>3, <2>5, OneFewer
  <2> QED
    BY <2>1, <2>4, <2>6 DEF NamesUpTo, One
<1> QED
  BY <1>1, <1>5, <1>6, <1>7, <1>8

\* Putting all MRs of a list takes as many uses from each as the list names it.
LEMMA PutMrsGood ==
  ASSUME NEW s, NEW u, NEW x, GoodTables(s, u, x), NEW p, p \in Seq(Nat),
         NEW v \in [Nat -> Nat], Taken(u, v, p)
  PROVE  GoodTables(PutMrs(s, p), v, x) /\ DOMAIN PutMrs(s, p).pds = DOMAIN s.pds
<1>1. PICK n \in Nat : n = Len(p) /\ \A j \in 1 .. n : p[j] \in Nat
  <2>1. Len(p) \in Nat /\ \A j \in 1 .. Len(p) : p[j] \in Nat
    BY ElementOfSeq, LenProperties
  <2> QED
    BY <2>1
<1>2. PICK f : /\ f[0] = s /\ \A k \in 1 .. n : f[k] = PutMr(f[k - 1], p[k])
               /\ PutMrs(s, p) = f[n]
  <2>1. Len(p) \in Nat
    BY <1>1
  <2>2. \E f : PutMrsSteps(s, p, f)
    BY <2>1, PutMrsLoop
  <2> QED
    BY <1>1, <2>2 DEF PutMrsSteps
<1>3. u \in [Nat -> Nat]
  BY DEF GoodTables
<1>4. PICK c : c = [k \in 0 .. n |-> [g \in Nat |-> NamesUpTo(p, k, g)]]
  OBVIOUS
<1>5. 0 \in 0 .. n /\ n \in 0 .. n /\ \A k \in 0 .. n, g \in Nat : c[k][g] = NamesUpTo(p, k, g)
  BY <1>4
<1>6. Stairs(n, c) /\ \A g \in Nat : c[n][g] = Names(p, g)
  <2>1. ASSUME NEW g \in Nat PROVE c[n][g] = Names(p, g) /\ c[0][g] = 0
    <3>1. NamesUpTo(p, 0, g) = 0 /\ NamesUpTo(p, n, g) = Names(p, g)
      BY <1>1, NamesUpToIs
    <3> QED
      BY <1>5, <3>1
  <2>2. ASSUME NEW k \in 0 .. n, NEW g \in Nat PROVE c[k][g] \in Nat /\ c[k][g] <= Names(p, g)
    <3>1. NamesUpTo(p, k, g) \in Nat /\ NamesUpTo(p, k, g) <= Names(p, g)
      BY <1>1, NamesUpToIs
    <3> QED
      BY <1>5, <3>1
  <2> QED
    BY <2>1, <2>2 DEF Stairs
<1>7. \A g \in Nat : u[g] = v[g] + c[n][g]
  BY <1>6 DEF Taken
<1>8. PICK w : /\ w[0] = u /\ w[n] = v
               /\ \A k \in 0 .. n : w[k] \in [Nat -> Nat]
               /\ \A k \in 0 .. n, g \in Nat : w[k][g] + c[k][g] = u[g]
  <2>1. \E w : Down(n, c, u, v, w)
    BY <1>3, <1>6, <1>7, StairsDown
  <2> QED
    BY <2>1 DEF Down
<1>9. ASSUME NEW k \in 1 .. n, NEW g \in Nat
      PROVE  w[k - 1][g] = w[k][g] + One(g = p[k])
  <2>1. k \in 0 .. n /\ k - 1 \in 0 .. n
    OBVIOUS
  <2>2. NamesUpTo(p, k, g) = NamesUpTo(p, k - 1, g) + One(g = p[k])
    BY <1>1, NamesUpToIs
  <2>3. PICK d \in Nat, e \in Nat : d = One(g = p[k]) /\ e = u[g]
    <3>1. One(g = p[k]) \in Nat
      BY DEF One
    <3> QED
      BY <1>3, <3>1
  <2>4. PICK a \in Nat, b \in Nat : a = c[k][g] /\ b = c[k - 1][g]
    BY <1>6, <2>1 DEF Stairs
  <2>5. a = b + d
    BY <1>5, <2>1, <2>2, <2>3, <2>4
  <2>6. PICK i \in Nat, j \in Nat : i = w[k][g] /\ j = w[k - 1][g]
    BY <1>8, <2>1
  <2>7. i + a = e /\ j + b = e
    BY <1>8, <2>1, <2>3, <2>4, <2>6
  <2>8. j = i + d
    BY <2>5, <2>7
  <2> QED
    BY <2>3, <2>6, <2>8
<1>10. PICK S : S = {k \in 0 .. n : GoodTables(f[k], w[k], x) /\ DOMAIN f[k].pds = DOMAIN s.pds}
  OBVIOUS
<1>11. 0 \in S
  BY <1>2, <1>5, <1>8, <1>10
<1>12. ASSUME NEW k \in 1 .. n, k - 1 \in S PROVE k \in S
  <2>1. PICK r, y, z, m : r = f[k - 1] /\ y = w[k - 1] /\ z = w[k] /\ m = p[k]
    OBVIOUS
  <2>2. GoodTables(r, y, x) /\ DOMAIN r.pds = DOMAIN s.pds
    BY <1>10, <1>12, <2>1
  <2>3. k \in 0 .. n /\ k - 1 \in 0 .. n /\ z \in [Nat -> Nat] /\ y \in [Nat -> Nat]
    <3>1. k \in 0 .. n /\ k - 1 \in 0 .. n
      OBVIOUS
    <3>2. w[k] \in [Nat -> Nat] /\ w[k - 1] \in [Nat -> Nat]
      BY <1>8, <3>1
    <3> QED
      BY <2>1, <3>1, <3>2
  <2>4. m \in Nat
    BY <1>1, <2>1
  <2>5. \A g \in Nat : y[g] = z[g] + One(g = m)
    BY <1>9, <2>1
  <2>6. y[m] > 0
    BY <2>3, <2>4, <2>5 DEF One
  <2>7. GoodTables(PutMr(r, m), z, x) /\ DOMAIN PutMr(r, m).pds = DOMAIN r.pds
    <3>1. GoodTables(r, y, x)
      BY <2>2
    <3>2. z \in [Nat -> Nat]
      BY <2>3
    <3> QED
      BY ONLY <3>1, <3>2, <2>2, <2>4, <2>5, <2>6, PutMrGood
  <2>8. f[k] = PutMr(r, m)
    BY <1>2, <2>1
  <2> QED
    BY <1>10, <2>1, <2>2, <2>3, <2>7, <2>8
<1>13. n \in S
  BY <1>5, <1>11, <1>12, UpTo
<1> QED
  BY <1>2, <1>8, <1>10, <1>13

\* Getting them gives as many.
LEMMA GetAllGood ==
  ASSUME NEW s, NEW u, NEW x, GoodTables(s, u, x), NEW p, p \in Seq(Nat),
         \A j \in 1 .. Len(p) : p[j] \in DOMAIN s.mrs,
         NEW v \in [Nat -> Nat], Taken(v, u, p), \A g \in Nat : v[g] < RefMod
  PROVE  /\ GoodTables(GetAll(s, p), v, x)
         /\ DOMAIN GetAll(s, p).mrs = DOMAIN s.mrs /\ DOMAIN GetAll(s, p).pds = DOMAIN s.pds
<1>1. PICK n \in Nat : n = Len(p) /\ \A j \in 1 .. n : p[j] \in Nat
  <2>1. Len(p) \in Nat /\ \A j \in 1 .. Len(p) : p[j] \in Nat
    BY ElementOfSeq, LenProperties
  <2> QED
    BY <2>1
<1>2. PICK f : /\ f[0] = s /\ \A k \in 1 .. n : f[k] = GetMr(f[k - 1], p[k])
               /\ GetAll(s, p) = f[n]
  <2>1. Len(p) \in Nat
    BY <1>1
  <2>2. \E f : GetAllSteps(s, p, f)
    BY <2>1, GetAllLoop
  <2> QED
    BY <1>1, <2>2 DEF GetAllSteps
<1>3. u \in [Nat -> Nat]
  BY DEF GoodTables
<1>4. PICK c : c = [k \in 0 .. n |-> [g \in Nat |-> NamesUpTo(p, k, g)]]
  OBVIOUS
<1>5. 0 \in 0 .. n /\ n \in 0 .. n /\ \A k \in 0 .. n, g \in Nat : c[k][g] = NamesUpTo(p, k, g)
  BY <1>4
<1>6. Stairs(n, c) /\ \A g \in Nat : c[n][g] = Names(p, g)
  <2>1. ASSUME NEW g \in Nat PROVE c[n][g] = Names(p, g) /\ c[0][g] = 0
    <3>1. NamesUpTo(p, 0, g) = 0 /\ NamesUpTo(p, n, g) = Names(p, g)
      BY <1>1, NamesUpToIs
    <3> QED
      BY <1>5, <3>1
  <2>2. ASSUME NEW k \in 0 .. n, NEW g \in Nat PROVE c[k][g] \in Nat /\ c[k][g] <= Names(p, g)
    <3>1. NamesUpTo(p, k, g) \in Nat /\ NamesUpTo(p, k, g) <= Names(p, g)
      BY <1>1, NamesUpToIs
    <3> QED
      BY <1>5, <3>1
  <2> QED
    BY <2>1, <2>2 DEF Stairs
<1>7. \A g \in Nat : v[g] = u[g] + c[n][g]
  BY <1>6 DEF Taken
<1>8. PICK w : /\ w[0] = u /\ w[n] = v
               /\ \A k \in 0 .. n : w[k] \in [Nat -> Nat]
               /\ \A k \in 0 .. n, g \in Nat : w[k][g] = u[g] + c[k][g] /\ w[k][g] <= v[g]
  <2>1. \E w : Up(n, c, u, v, w)
    BY <1>3, <1>6, <1>7, StairsUp
  <2> QED
    BY <2>1 DEF Up
<1>9. ASSUME NEW k \in 1 .. n, NEW g \in Nat
      PROVE  w[k][g] = w[k - 1][g] + One(g = p[k])
  <2>1. k \in 0 .. n /\ k - 1 \in 0 .. n
    OBVIOUS
  <2>2. NamesUpTo(p, k, g) = NamesUpTo(p, k - 1, g) + One(g = p[k])
    BY <1>1, NamesUpToIs
  <2>3. PICK d \in Nat, e \in Nat : d = One(g = p[k]) /\ e = u[g]
    <3>1. One(g = p[k]) \in Nat
      BY DEF One
    <3> QED
      BY <1>3, <3>1
  <2>4. PICK a \in Nat, b \in Nat : a = c[k][g] /\ b = c[k - 1][g]
    BY <1>6, <2>1 DEF Stairs
  <2>5. a = b + d
    BY <1>5, <2>1, <2>2, <2>3, <2>4
  <2>6. PICK i \in Nat, j \in Nat : i = w[k][g] /\ j = w[k - 1][g]
    BY <1>8, <2>1
  <2>7. i = e + a /\ j = e + b
    BY <1>8, <2>1, <2>3, <2>4, <2>6
  <2>8. i = j + d
    BY <2>5, <2>7
  <2> QED
    BY <2>3, <2>6, <2>8
<1>10. PICK S : S = {k \in 0 .. n : GoodTables(f[k], w[k], x) /\ DOMAIN f[k].mrs = DOMAIN s.mrs
                               /\ DOMAIN f[k].pds = DOMAIN s.pds}
  OBVIOUS
<1>11. 0 \in S
  BY <1>2, <1>5, <1>8, <1>10
<1>12. ASSUME NEW k \in 1 .. n, k - 1 \in S PROVE k \in S
  <2>1. PICK r, y, z, m : r = f[k - 1] /\ y = w[k - 1] /\ z = w[k] /\ m = p[k]
    OBVIOUS
  <2>2. GoodTables(r, y, x) /\ DOMAIN r.mrs = DOMAIN s.mrs /\ DOMAIN r.pds = DOMAIN s.pds
    BY <1>10, <1>12, <2>1
  <2>3. k \in 0 .. n /\ k - 1 \in 0 .. n /\ z \in [Nat -> Nat] /\ y \in [Nat -> Nat]
    <3>1. k \in 0 .. n /\ k - 1 \in 0 .. n
      OBVIOUS
    <3>2. w[k] \in [Nat -> Nat] /\ w[k - 1] \in [Nat -> Nat]
      BY <1>8, <3>1
    <3> QED
      BY <2>1, <3>1, <3>2
  <2>4. m \in Nat /\ m \in DOMAIN s.mrs
    BY <1>1, <2>1
  <2>5. \A g \in Nat : z[g] = y[g] + One(g = m)
    BY <1>9, <2>1
  <2>6. y[m] + 1 < RefMod
    <3>1. z[m] = y[m] + 1 /\ z[m] \in Nat
      BY <2>3, <2>4, <2>5 DEF One
    <3>2. z[m] <= v[m] /\ v[m] < RefMod
      BY <1>8, <2>1, <2>3, <2>4
    <3>3. PICK i \in Nat, j \in Nat, h \in Nat, o \in Nat :
            i = z[m] /\ j = y[m] /\ h = v[m] /\ o = RefMod
      BY <2>3, <2>4, SlotsType
    <3>4. i = j + 1 /\ i <= h /\ h < o
      BY <3>1, <3>2, <3>3
    <3>5. j + 1 < o
      BY <3>4
    <3> QED
      BY <3>3, <3>5
  <2>7. /\ GoodTables(GetMr(r, m), z, x)
        /\ DOMAIN GetMr(r, m).mrs = DOMAIN r.mrs /\ DOMAIN GetMr(r, m).pds = DOMAIN r.pds
    <3>1. GoodTables(r, y, x)
      BY <2>2
    <3>2. z \in [Nat -> Nat]
      BY <2>3
    <3> QED
      BY ONLY <3>1, <3>2, <2>2, <2>4, <2>5, <2>6, GetMrGood
  <2>8. f[k] = GetMr(r, m)
    BY <1>2, <2>1
  <2> QED
    BY <1>10, <2>1, <2>2, <2>3, <2>7, <2>8
<1>13. n \in S
  BY <1>5, <1>11, <1>12, UpTo
<1> QED
  BY <1>2, <1>8, <1>10, <1>13

\* How often the first k lists name m.
CountUpTo(p, k, m) == CountIn(SubSeq(p, 1, k), m)

LEMMA CountUpToIs ==
  ASSUME NEW p \in Lists, NEW m
  PROVE  /\ \A k \in 0 .. Len(p) : CountUpTo(p, k, m) \in Nat /\ CountUpTo(p, k, m) <= CountIn(p, m)
         /\ CountUpTo(p, 0, m) = 0 /\ CountUpTo(p, Len(p), m) = CountIn(p, m)
         /\ \A k \in 1 .. Len(p) : CountUpTo(p, k, m) = CountUpTo(p, k - 1, m) + Names(p[k], m)
<1>1. PICK n \in Nat : n = Len(p)
  BY DEF Lists
<1>2. p \in Seq(Seq(Nat))
  BY DEF Lists
<1>3. SubSeq(p, 1, 0) = <<>> /\ SubSeq(p, 1, n) = p
  BY <1>1, <1>2
<1>4. CountUpTo(p, 0, m) = 0 /\ CountUpTo(p, n, m) = CountIn(p, m)
  BY <1>3, CountEmpty DEF CountUpTo
<1>5. ASSUME NEW k \in 0 .. n
      PROVE  CountUpTo(p, k, m) \in Nat /\ CountUpTo(p, k, m) <= CountIn(p, m)
  <2>1. PICK a : a = SubSeq(p, 1, k)
    OBVIOUS
  <2>2. a \in Lists /\ Len(a) = k /\ \A i \in 1 .. k : a[i] = p[i]
    BY <1>1, <1>2, <2>1 DEF Lists
  <2>3. Entries(a, m) \in SUBSET Entries(p, m)
    <3>1. ASSUME NEW e \in Entries(a, m) PROVE e \in Entries(p, m)
      <4>1. PICK i \in 1 .. Len(a) : \E j \in 1 .. Len(a[i]) : a[i][j] = m /\ e = <<i, j>>
        BY EntriesAre
      <4>2. i \in 1 .. Len(p) /\ a[i] = p[i]
        BY <1>1, <2>2, <4>1
      <4> QED
        BY <4>1, <4>2, EntriesAre
    <3> QED
      BY <3>1
  <2>4. IsFiniteSet(Entries(p, m))
    BY EntriesFinite
  <2>5. Cardinality(Entries(a, m)) <= Cardinality(Entries(p, m))
    BY <2>3, <2>4, FS_Subset
  <2> QED
    BY <2>1, <2>2, <2>5, EntriesFinite DEF CountUpTo, CountIn
<1>6. ASSUME NEW k \in 1 .. n
      PROVE  CountUpTo(p, k, m) = CountUpTo(p, k - 1, m) + Names(p[k], m)
  <2>1. PICK a, b : a = SubSeq(p, 1, k - 1) /\ b = SubSeq(p, 1, k)
    OBVIOUS
  <2>2. a \in Seq(Seq(Nat)) /\ p[k] \in Seq(Nat) /\ b = Append(a, p[k])
    BY <1>1, <1>2, <2>1, PrefixAppend
  <2>3. PICK e : e = <<p[k]>>
    OBVIOUS
  <2>4. e \in Seq(Seq(Nat)) /\ b = a \o e
    BY <2>2, <2>3
  <2>5. CountIn(b, m) = CountIn(a, m) + CountIn(e, m)
    BY <2>2, <2>4, CountConcat DEF Lists
  <2>6. CountIn(e, m) = Names(p[k], m)
    BY <2>2, <2>3, CountOne
  <2> QED
    BY <2>1, <2>5, <2>6 DEF CountUpTo
<1> QED
  BY <1>1, <1>4, <1>5, <1>6

\* And the lists of several WRs.
LEMMA PutWrsGood ==
  ASSUME NEW s, NEW u, NEW x, GoodTables(s, u, x), NEW p, p \in Lists,
         NEW v \in [Nat -> Nat], AllTaken(u, v, p)
  PROVE  GoodTables(PutWrs(s, p), v, x) /\ DOMAIN PutWrs(s, p).pds = DOMAIN s.pds
<1>1. PICK n \in Nat : n = Len(p) /\ \A j \in 1 .. n : p[j] \in Seq(Nat)
  <2>1. Len(p) \in Nat /\ \A j \in 1 .. Len(p) : p[j] \in Seq(Nat)
    BY DEF Lists
  <2> QED
    BY <2>1
<1>2. PICK f : /\ f[0] = s /\ \A k \in 1 .. n : f[k] = PutMrs(f[k - 1], p[k])
               /\ PutWrs(s, p) = f[n]
  <2>1. Len(p) \in Nat
    BY <1>1
  <2>2. \E f : PutWrsSteps(s, p, f)
    BY <2>1, PutWrsLoop
  <2> QED
    BY <1>1, <2>2 DEF PutWrsSteps
<1>3. u \in [Nat -> Nat]
  BY DEF GoodTables
<1>4. PICK c : c = [k \in 0 .. n |-> [g \in Nat |-> CountUpTo(p, k, g)]]
  OBVIOUS
<1>5. 0 \in 0 .. n /\ n \in 0 .. n /\ \A k \in 0 .. n, g \in Nat : c[k][g] = CountUpTo(p, k, g)
  BY <1>4
<1>6. Stairs(n, c) /\ \A g \in Nat : c[n][g] = CountIn(p, g)
  <2>1. ASSUME NEW g \in Nat PROVE c[n][g] = CountIn(p, g) /\ c[0][g] = 0
    <3>1. CountUpTo(p, 0, g) = 0 /\ CountUpTo(p, n, g) = CountIn(p, g)
      BY <1>1, CountUpToIs
    <3> QED
      BY <1>5, <3>1
  <2>2. ASSUME NEW k \in 0 .. n, NEW g \in Nat PROVE c[k][g] \in Nat /\ c[k][g] <= CountIn(p, g)
    <3>1. CountUpTo(p, k, g) \in Nat /\ CountUpTo(p, k, g) <= CountIn(p, g)
      BY <1>1, CountUpToIs
    <3> QED
      BY <1>5, <3>1
  <2> QED
    BY <2>1, <2>2 DEF Stairs
<1>7. \A g \in Nat : u[g] = v[g] + c[n][g]
  BY <1>6 DEF AllTaken
<1>8. PICK w : /\ w[0] = u /\ w[n] = v
               /\ \A k \in 0 .. n : w[k] \in [Nat -> Nat]
               /\ \A k \in 0 .. n, g \in Nat : w[k][g] + c[k][g] = u[g]
  <2>1. \E w : Down(n, c, u, v, w)
    BY <1>3, <1>6, <1>7, StairsDown
  <2> QED
    BY <2>1 DEF Down
<1>9. ASSUME NEW k \in 1 .. n, NEW g \in Nat
      PROVE  w[k - 1][g] = w[k][g] + Names(p[k], g)
  <2>1. k \in 0 .. n /\ k - 1 \in 0 .. n
    OBVIOUS
  <2>2. CountUpTo(p, k, g) = CountUpTo(p, k - 1, g) + Names(p[k], g)
    BY <1>1, CountUpToIs
  <2>3. PICK d \in Nat, e \in Nat : d = Names(p[k], g) /\ e = u[g]
    <3>1. Names(p[k], g) \in Nat
      <4>1. p[k] \in Seq(Nat)
        BY <1>1
      <4> QED
        BY <4>1, NamesType
    <3> QED
      BY <1>3, <3>1
  <2>4. PICK a \in Nat, b \in Nat : a = c[k][g] /\ b = c[k - 1][g]
    BY <1>6, <2>1 DEF Stairs
  <2>5. a = b + d
    BY <1>5, <2>1, <2>2, <2>3, <2>4
  <2>6. PICK i \in Nat, j \in Nat : i = w[k][g] /\ j = w[k - 1][g]
    BY <1>8, <2>1
  <2>7. i + a = e /\ j + b = e
    BY <1>8, <2>1, <2>3, <2>4, <2>6
  <2>8. j = i + d
    BY <2>5, <2>7
  <2> QED
    BY <2>3, <2>6, <2>8
<1>10. PICK S : S = {k \in 0 .. n : GoodTables(f[k], w[k], x) /\ DOMAIN f[k].pds = DOMAIN s.pds}
  OBVIOUS
<1>11. 0 \in S
  BY <1>2, <1>5, <1>8, <1>10
<1>12. ASSUME NEW k \in 1 .. n, k - 1 \in S PROVE k \in S
  <2>1. PICK r, y, z, m : r = f[k - 1] /\ y = w[k - 1] /\ z = w[k] /\ m = p[k]
    OBVIOUS
  <2>2. GoodTables(r, y, x) /\ DOMAIN r.pds = DOMAIN s.pds
    BY <1>10, <1>12, <2>1
  <2>3. k \in 0 .. n /\ k - 1 \in 0 .. n /\ z \in [Nat -> Nat] /\ y \in [Nat -> Nat]
    <3>1. k \in 0 .. n /\ k - 1 \in 0 .. n
      OBVIOUS
    <3>2. w[k] \in [Nat -> Nat] /\ w[k - 1] \in [Nat -> Nat]
      BY <1>8, <3>1
    <3> QED
      BY <2>1, <3>1, <3>2
  <2>4. m \in Seq(Nat)
    BY <1>1, <2>1
  <2>5. Taken(y, z, m)
    <3>1. \A g \in Nat : y[g] = z[g] + Names(m, g)
      BY <1>9, <2>1
    <3> QED
      BY <3>1 DEF Taken
  <2>7. GoodTables(PutMrs(r, m), z, x) /\ DOMAIN PutMrs(r, m).pds = DOMAIN r.pds
    <3>1. GoodTables(r, y, x)
      BY <2>2
    <3>2. z \in [Nat -> Nat]
      BY <2>3
    <3> QED
      BY ONLY <3>1, <3>2, <2>2, <2>4, <2>5, PutMrsGood
  <2>8. f[k] = PutMrs(r, m)
    BY <1>2, <2>1
  <2> QED
    BY <1>10, <2>1, <2>2, <2>3, <2>7, <2>8
<1>13. n \in S
  BY <1>5, <1>11, <1>12, UpTo
<1> QED
  BY <1>2, <1>8, <1>10, <1>13

\* The entries found before one is missing are a prefix: it names nothing more often.
LEMMA FoundPrefixNames ==
  ASSUME NEW s, NEW p \in Seq(Nat), NEW m
  PROVE  Names(FoundPrefix(s, p), m) <= Names(p, m)
<1>1. PICK q : q = FoundPrefix(s, p)
  OBVIOUS
<1>2. /\ q \in Seq(Nat) /\ Len(q) <= Len(p)
      /\ \A j \in 1 .. Len(q) : q[j] = p[j]
  BY <1>1, FoundPrefixIs
<1>3. PICK n \in Nat, k \in Nat : n = Len(p) /\ k = Len(q)
  BY <1>2
<1>4. {j \in 1 .. Len(q) : q[j] = m} = {j \in 1 .. k : p[j] = m}
  BY <1>2, <1>3
<1>5. Names(q, m) = NamesUpTo(p, k, m)
  BY <1>4 DEF Names, NamesUpTo
<1>6. k \in 0 .. n
  BY <1>2, <1>3
<1>7. NamesUpTo(p, k, m) <= Names(p, m)
  BY <1>3, <1>6, NamesUpToIs
<1> QED
  BY <1>1, <1>5, <1>7

\* roce_get_mrs gives every use the list asks for, or none.
LEMMA GetMrsGood ==
  ASSUME NEW s, NEW u, NEW x, GoodTables(s, u, x), NEW p, p \in Seq(Nat),
         NEW v \in [Nat -> Nat], Taken(v, u, p), \A g \in Nat : v[g] < RefMod
  PROVE  /\ DOMAIN GetMrs(s, p).pds = DOMAIN s.pds
         /\ FoundPrefix(s, p) = p => GoodTables(GetMrs(s, p), v, x)
         /\ FoundPrefix(s, p) # p => GoodTables(GetMrs(s, p), u, x)
<1>1. PICK q : q = FoundPrefix(s, p)
  OBVIOUS
<1>2. q \in Seq(Nat) /\ \A j \in 1 .. Len(q) : q[j] \in DOMAIN s.mrs
  BY <1>1, FoundPrefixIs DEF Found
<1>3. u \in [Nat -> Nat]
  BY DEF GoodTables
<1>4. ASSUME NEW g \in Nat
      PROVE  Names(q, g) \in Nat /\ u[g] + Names(q, g) \in Nat /\ u[g] + Names(q, g) < RefMod
  <2>1. Names(q, g) \in Nat /\ Names(p, g) \in Nat /\ Names(q, g) <= Names(p, g)
    BY <1>1, <1>2, NamesType, FoundPrefixNames
  <2>2. v[g] = u[g] + Names(p, g) /\ v[g] < RefMod
    BY DEF Taken
  <2>3. PICK a \in Nat, b \in Nat, c \in Nat, d \in Nat, e \in Nat :
          a = u[g] /\ b = Names(q, g) /\ c = Names(p, g) /\ d = v[g] /\ e = RefMod
    BY <1>3, <2>1, SlotsType
  <2>4. b <= c /\ d = a + c /\ d < e
    BY <2>1, <2>2, <2>3
  <2>5. a + b \in Nat /\ a + b < e
    BY <2>4
  <2> QED
    BY <2>3, <2>5
<1>5. PICK w : w = [g \in Nat |-> u[g] + Names(q, g)]
  OBVIOUS
<1>6. w \in [Nat -> Nat] /\ \A g \in Nat : w[g] < RefMod
  BY <1>4, <1>5
<1>7. Taken(w, u, q)
  BY <1>5 DEF Taken
<1>8. PICK got : got = GetAll(s, q)
  OBVIOUS
<1>9. GoodTables(got, w, x) /\ DOMAIN got.pds = DOMAIN s.pds
  BY <1>2, <1>6, <1>7, <1>8, GetAllGood
<1>10. CASE q = p
  <2>1. GetMrs(s, p) = got
    BY <1>1, <1>8, <1>10 DEF GetMrs
  <2>2. \A g \in Nat : v[g] = u[g] + Names(p, g)
    BY DEF Taken
  <2>3. v = w
    <3>1. v = [g \in Nat |-> v[g]]
      OBVIOUS
    <3> QED
      BY <1>5, <1>10, <2>2, <3>1
  <2> QED
    BY <1>1, <1>9, <1>10, <2>1, <2>3
<1>11. CASE q # p
  <2>1. PICK r : r = Reverse(q)
    OBVIOUS
  <2>2. r \in Seq(Nat)
    BY <1>2, <2>1, NamesReverse
  <2>3. \A g \in Nat : Names(r, g) = Names(q, g)
    BY <1>2, <2>1, NamesReverse
  <2>4. Taken(w, u, r)
    BY <1>7, <2>3 DEF Taken
  <2>5. GoodTables(PutMrs(got, r), u, x) /\ DOMAIN PutMrs(got, r).pds = DOMAIN got.pds
    BY ONLY <1>3, <1>9, <2>2, <2>4, PutMrsGood
  <2>6. GetMrs(s, p) = PutMrs(got, r)
    BY <1>1, <1>8, <1>11, <2>1 DEF GetMrs
  <2> QED
    BY <1>1, <1>9, <1>11, <2>5, <2>6
<1> QED
  BY <1>10, <1>11

\* roce_destroy_mr: an MR in use is marked; one that is not goes, and puts its PD.
LEMMA DestroyMrGood ==
  ASSUME NEW s, NEW u, NEW x, GoodTables(s, u, x), NEW m, m \in DOMAIN s.mrs,
         NEW w, w = DestroyMrIn(s, m)
  PROVE  GoodTables(w, u, x) /\ DOMAIN w.pds = DOMAIN s.pds
<1>1. TablesType(s) /\ s.ok = TRUE /\ u \in [Nat -> Nat] /\ x \in [Nat -> Nat]
  BY DEF GoodTables
<1>2. /\ DOMAIN s.mrs \subseteq Nat /\ IsFiniteSet(DOMAIN s.mrs) /\ s.mrs[m] \in MrRec
      /\ \A h \in DOMAIN s.pds : h \in Nat /\ s.pds[h].ref \in RefCount
  BY <1>1, TablesFacts
<1>3. \A g \in DOMAIN s.mrs :
        /\ s.mrs[g].ref = u[g]
        /\ s.mrs[g].state = "DESTROYED" => u[g] > 0
        /\ s.mrs[g].pd \in DOMAIN s.pds
  BY DEF GoodTables
<1>4. \A g \in Nat : u[g] > 0 => g \in DOMAIN s.mrs
  BY DEF GoodTables
<1>5. \A h \in DOMAIN s.pds : s.pds[h].ref = Holders(s.mrs, h) + x[h]
  BY DEF GoodTables
<1>6. TablesType(w)
  BY <1>1, DestroyMrInIs
<1>7. u[m] \in Nat /\ s.mrs[m].ref = u[m]
  BY <1>1, <1>2, <1>3
<1>8. CASE u[m] # 0
  <2>1. PICK obj : obj = [s.mrs[m] EXCEPT !.state = "DESTROYED"]
    OBVIOUS
  <2>2. w.mrs = Replace(s.mrs, m, obj) /\ w.pds = s.pds /\ w.ok = s.ok
    BY <1>1, <1>7, <1>8, <2>1, DestroyMrInIs
  <2>3. obj.ref = u[m] /\ obj.pd = s.mrs[m].pd
    BY <1>2, <1>7, <2>1 DEF MrRec
  <2>4. /\ DOMAIN w.mrs = DOMAIN s.mrs /\ w.mrs[m] = obj
        /\ \A g \in DOMAIN s.mrs \ {m} : w.mrs[g] = s.mrs[g]
    BY <2>2, ReplaceIs
  <2>5. \A g \in DOMAIN s.mrs : w.mrs[g].pd = s.mrs[g].pd
    BY <2>3, <2>4
  <2>6. ASSUME NEW h PROVE Holders(w.mrs, h) = Holders(s.mrs, h)
    BY <2>4, <2>5, HoldersSame
  <2>7. ASSUME NEW g \in DOMAIN w.mrs
        PROVE  /\ w.mrs[g].ref = u[g]
               /\ w.mrs[g].state = "DESTROYED" => u[g] > 0
               /\ w.mrs[g].pd \in DOMAIN w.pds
    <3>1. CASE g = m
      BY <1>3, <1>7, <1>8, <2>2, <2>3, <2>4, <3>1
    <3>2. CASE g # m
      BY <1>3, <2>2, <2>4, <3>2
    <3> QED
      BY <3>1, <3>2
  <2> QED
    BY <1>1, <1>4, <1>5, <1>6, <2>2, <2>4, <2>6, <2>7 DEF GoodTables
<1>9. CASE u[m] = 0
  <2>1. PICK p : p = s.mrs[m].pd
    OBVIOUS
  <2>2. w.mrs = ResourceFree(s.mrs, m)
    BY <1>1, <1>7, <1>9, DestroyMrInIs
  <2>3. w.pds = Put(s.pds, p)
    BY <1>1, <1>7, <1>9, <2>1, DestroyMrInIs
  <2>4. p \in DOMAIN s.pds /\ p \in Nat
    BY <1>2, <1>3, <2>1
  <2>5. w.ok = TRUE
    BY <1>1, <1>7, <1>9, <2>1, <2>4, DestroyMrInIs DEF Found
  <2>6. /\ DOMAIN w.mrs = DOMAIN s.mrs \ {m}
        /\ \A g \in DOMAIN s.mrs \ {m} : w.mrs[g] = s.mrs[g]
    <3>1. /\ DOMAIN ResourceFree(s.mrs, m) = DOMAIN s.mrs \ {m}
          /\ \A g \in DOMAIN s.mrs \ {m} : ResourceFree(s.mrs, m)[g] = s.mrs[g]
      BY FreeIs
    <3> QED
      BY <2>2, <3>1
  <2>7. ASSUME NEW h
        PROVE  /\ Holders(s.mrs, h) = Holders(w.mrs, h) + One(p = h)
               /\ Holders(w.mrs, h) \in Nat
    BY <1>2, <2>1, <2>2, HoldersWithout
  <2>8. s.pds[p].ref > 0
    <3>1. PICK a \in Nat, b \in Nat : a = Holders(w.mrs, p) /\ b = x[p]
      BY <1>1, <2>4, <2>7
    <3>2. s.pds[p].ref = a + 1 + b
      BY <1>5, <2>4, <2>7, <3>1 DEF One
    <3> QED
      BY <3>2
  <2>9. /\ DOMAIN w.pds = DOMAIN s.pds
        /\ \A g \in DOMAIN s.pds : w.pds[g].ref = s.pds[g].ref - One(g = p)
    <3>1. Table(s.pds, PdSlots, PdRec)
      BY <1>1 DEF TablesType
    <3> QED
      BY <2>3, <2>8, <3>1, PutPd
  <2>10. ASSUME NEW h \in DOMAIN s.pds PROVE w.pds[h].ref = Holders(w.mrs, h) + x[h]
    <3>1. h \in Nat /\ x[h] \in Nat
      BY <1>1, <1>2
    <3>2. s.pds[h].ref = Holders(w.mrs, h) + One(p = h) + x[h]
      BY <1>5, <2>7
    <3>3. PICK a \in Nat, b \in Nat : a = Holders(w.mrs, h) /\ b = x[h]
      BY <2>7, <3>1
    <3>4. One(h = p) = One(p = h) /\ One(p = h) \in Nat
      BY DEF One
    <3>5. w.pds[h].ref = (a + One(p = h) + b) - One(p = h)
      BY <2>9, <3>2, <3>3, <3>4
    <3> QED
      BY <3>3, <3>4, <3>5
  <2>11. \A g \in DOMAIN w.mrs :
           /\ w.mrs[g].ref = u[g]
           /\ w.mrs[g].state = "DESTROYED" => u[g] > 0
           /\ w.mrs[g].pd \in DOMAIN w.pds
    BY <1>3, <2>6, <2>9
  <2>12. \A g \in Nat : u[g] > 0 => g \in DOMAIN w.mrs
    BY <1>4, <1>9, <2>6
  <2> QED
    BY <1>1, <1>6, <2>5, <2>9, <2>10, <2>11, <2>12 DEF GoodTables
<1> QED
  BY <1>7, <1>8, <1>9

-----------------------------------------------------------------------------
(***************************************************************************)
(* The inductive invariant: the counts of all tables are exact.  In s are  *)
(* the MRs and PDs, c are the CQs, a the AHs and t the QPs.                *)
(***************************************************************************)
UsesFn(t) == [m \in Nat |-> UsesOf(t, m)]
HoldFn(a, t) == [h \in Nat |-> Holders(a, h) + Holders(t, h)]

\* The QP with handle q, when p and c are the handles of PDs and CQs.  The
\* first WR of a send queue has not failed, so completing it puts its MRs.
QpGood(qp, q, p, c) ==
  /\ Len(qp.sq) <= MaxWrs /\ Len(qp.rq) <= MaxWrs /\ Len(qp.resp) <= 1
  /\ qp.sq # <<>> => ~Head(qp.sq).error
  /\ qp.type = "MAX" => qp = Unused /\ q \in {Smi, Gsi}
  /\ qp.type # "MAX" => /\ qp.pd \in p /\ qp.scq \in c
                        /\ qp.rcq \notin c => qp.rcq = Null /\ "recv_cq" \in Calls

State(s, c, a, t) ==
  /\ GoodTables(s, UsesFn(t), HoldFn(a, t))
  /\ \A h \in DOMAIN c : c[h].ref = Scqs(t, h) + Rcqs(t, h)
  /\ \A h \in DOMAIN a : a[h].pd \in DOMAIN s.pds
  /\ \A q \in DOMAIN t : QpGood(t[q], q, DOMAIN s.pds, DOMAIN c)

RefsInv ==
  /\ ResTypes
  /\ crash # "put_pd"
  /\ State(Tables, cqs, ahs, qps)
  /\ ~gsi.used /\ gsi.handle = Gsi => Gsi \in DOMAIN qps /\ qps[Gsi] = Unused

\* A QP whose queues change, and the MRs with them.
LEMMA QpReplaced ==
  ASSUME NEW s, NEW c, NEW a, NEW t, State(s, c, a, t), Table(t, QpSlots, QpRec),
         NEW q, q \in DOMAIN t, NEW qp, qp \in QpRec,
         qp.pd = t[q].pd, qp.scq = t[q].scq, qp.rcq = t[q].rcq,
         QpGood(qp, q, DOMAIN s.pds, DOMAIN c),
         NEW r, NEW v, GoodTables(r, v, HoldFn(a, t)), DOMAIN r.pds = DOMAIN s.pds,
         \A g \in Nat : v[g] + CountIn(HeldByQp(t[q]), g) = UsesOf(t, g) + CountIn(HeldByQp(qp), g),
         NEW n, n = Replace(t, q, qp)
  PROVE  State(r, c, a, n)
<1>1. t[q] \in QpRec /\ q \in 0 .. QpSlots - 1 /\ QpSlots \in Nat
  BY SlotsType DEF Table
<1>2. DOMAIN n = DOMAIN t /\ n[q] = qp /\ \A g \in DOMAIN t \ {q} : n[g] = t[g]
  BY ReplaceIs
<1>3. v \in [Nat -> Nat]
  BY DEF GoodTables
<1>4. v = UsesFn(n)
  <2>1. ASSUME NEW g \in Nat PROVE v[g] = UsesOf(n, g)
    <3>1. UsesOf(n, g) + CountIn(HeldByQp(t[q]), g) = UsesOf(t, g) + CountIn(HeldByQp(qp), g)
      BY <1>1, UsesSteps
    <3>2. Table(n, QpSlots, QpRec)
      BY TableReplace
    <3>3. UsesOf(n, g) \in Nat
      BY <1>1, <3>2, UsesFinite
    <3>4. CountIn(HeldByQp(t[q]), g) \in Nat
      BY <1>1, HeldTypes, EntriesFinite
    <3>5. PICK i \in Nat, j \in Nat, k \in Nat :
            i = UsesOf(n, g) /\ j = CountIn(HeldByQp(t[q]), g) /\ k = v[g]
      BY <1>3, <3>3, <3>4
    <3>6. i + j = k + j
      BY <3>1, <3>5
    <3>7. i = k
      BY <3>6
    <3> QED
      BY <3>5, <3>7
  <2>2. v = [g \in Nat |-> v[g]]
    BY <1>3
  <2> QED
    BY <2>1, <2>2 DEF UsesFn
<1>5. \A g \in DOMAIN t : n[g].pd = t[g].pd /\ n[g].scq = t[g].scq /\ n[g].rcq = t[g].rcq
  BY <1>2
<1>6. HoldFn(a, n) = HoldFn(a, t)
  <2>1. ASSUME NEW h PROVE Holders(n, h) = Holders(t, h)
    BY <1>2, <1>5, HoldersSame
  <2> QED
    BY <2>1 DEF HoldFn
<1>7. ASSUME NEW h PROVE Scqs(n, h) = Scqs(t, h) /\ Rcqs(n, h) = Rcqs(t, h)
  <2>1. {g \in DOMAIN n : n[g].scq = h} = {g \in DOMAIN t : t[g].scq = h}
    BY <1>2, <1>5
  <2>2. {g \in DOMAIN n : n[g].rcq = h} = {g \in DOMAIN t : t[g].rcq = h}
    BY <1>2, <1>5
  <2> QED
    BY <2>1, <2>2 DEF Scqs, Rcqs
<1>8. \A g \in DOMAIN n : QpGood(n[g], g, DOMAIN r.pds, DOMAIN c)
  BY <1>2 DEF State
<1> QED
  BY <1>4, <1>6, <1>7, <1>8 DEF State

-----------------------------------------------------------------------------
(* PDs, CQs and QPs that gain or lose a holder. *)

\* The PD p has one holder more in y than in x; the counts of y fit.
Gains(y, x, p) == \A h \in Nat : y[h] = x[h] + One(h = p)
HeldFits(m, y) == \A h \in Nat : Holders(m, h) + y[h] < RefMod

LEMMA HolderAdded ==
  ASSUME NEW s, NEW u, NEW x, GoodTables(s, u, x), NEW p, p \in DOMAIN s.pds,
         NEW y \in [Nat -> Nat], Gains(y, x, p), HeldFits(s.mrs, y),
         NEW r, r = [s EXCEPT !.pds = Get(@, p)]
  PROVE  GoodTables(r, u, y) /\ DOMAIN r.pds = DOMAIN s.pds
<1>1. TablesType(s) /\ s.ok = TRUE /\ u \in [Nat -> Nat] /\ x \in [Nat -> Nat]
  BY DEF GoodTables
<1>2. Table(s.pds, PdSlots, PdRec) /\ Table(s.mrs, MrSlots, MrRec)
  BY <1>1 DEF TablesType
<1>3. r.mrs = s.mrs /\ r.pds = Get(s.pds, p) /\ r.ok = TRUE
      /\ r = [mrs |-> r.mrs, pds |-> r.pds, ok |-> r.ok]
  BY <1>1 DEF TablesType
<1>4. \A h \in DOMAIN s.pds : h \in Nat /\ s.pds[h].ref = Holders(s.mrs, h) + x[h]
  BY <1>1, TablesFacts DEF GoodTables
<1>5. ASSUME NEW h \in Nat PROVE Holders(s.mrs, h) \in Nat
  BY <1>2, SlotsType, HoldersBound
<1>6. s.pds[p].ref + 1 < RefMod
  <2>1. p \in Nat /\ y[p] = x[p] + 1
    BY <1>4 DEF One, Gains
  <2>2. PICK a \in Nat, b \in Nat, d \in Nat : a = Holders(s.mrs, p) /\ b = x[p] /\ d = RefMod
    BY <1>1, <1>5, <2>1, SlotsType
  <2>3. s.pds[p].ref = a + b /\ a + (b + 1) < d
    BY <1>4, <2>1, <2>2 DEF HeldFits
  <2> QED
    BY <2>2, <2>3
<1>7. /\ Table(r.pds, PdSlots, PdRec) /\ DOMAIN r.pds = DOMAIN s.pds
      /\ \A g \in DOMAIN s.pds : r.pds[g].ref = s.pds[g].ref + One(g = p)
  BY <1>2, <1>3, <1>6, GetPd
<1>8. ASSUME NEW h \in DOMAIN s.pds PROVE r.pds[h].ref = Holders(s.mrs, h) + y[h]
  <2>1. PICK a \in Nat, b \in Nat, d \in Nat :
          a = Holders(s.mrs, h) /\ b = x[h] /\ d = One(h = p)
    BY <1>1, <1>4, <1>5 DEF One
  <2>2. r.pds[h].ref = (a + b) + d
    BY <1>4, <1>7, <2>1
  <2>3. y[h] = b + d
    BY <1>4, <2>1 DEF Gains
  <2> QED
    BY <2>1, <2>2, <2>3
<1>9. TablesType(r)
  BY <1>2, <1>3, <1>7 DEF TablesType
<1> QED
  BY <1>3, <1>7, <1>8, <1>9 DEF GoodTables

LEMMA HolderGone ==
  ASSUME NEW s, NEW u, NEW x, GoodTables(s, u, x), NEW p, p \in DOMAIN s.pds,
         NEW y \in [Nat -> Nat], Gains(x, y, p),
         NEW r, r = [s EXCEPT !.pds = Put(@, p)]
  PROVE  GoodTables(r, u, y) /\ DOMAIN r.pds = DOMAIN s.pds
<1>1. TablesType(s) /\ s.ok = TRUE /\ u \in [Nat -> Nat] /\ x \in [Nat -> Nat]
  BY DEF GoodTables
<1>2. Table(s.pds, PdSlots, PdRec) /\ Table(s.mrs, MrSlots, MrRec)
  BY <1>1 DEF TablesType
<1>3. r.mrs = s.mrs /\ r.pds = Put(s.pds, p) /\ r.ok = TRUE
      /\ r = [mrs |-> r.mrs, pds |-> r.pds, ok |-> r.ok]
  BY <1>1 DEF TablesType
<1>4. \A h \in DOMAIN s.pds : h \in Nat /\ s.pds[h].ref = Holders(s.mrs, h) + x[h]
  BY <1>1, TablesFacts DEF GoodTables
<1>5. ASSUME NEW h \in Nat PROVE Holders(s.mrs, h) \in Nat
  BY <1>2, SlotsType, HoldersBound
<1>6. s.pds[p].ref > 0
  <2>1. p \in Nat /\ x[p] = y[p] + 1
    BY <1>4 DEF One, Gains
  <2>2. PICK a \in Nat, b \in Nat : a = Holders(s.mrs, p) /\ b = y[p]
    BY <1>5, <2>1
  <2>3. s.pds[p].ref = a + (b + 1)
    BY <1>4, <2>1, <2>2
  <2> QED
    BY <2>3
<1>7. /\ Table(r.pds, PdSlots, PdRec) /\ DOMAIN r.pds = DOMAIN s.pds
      /\ \A g \in DOMAIN s.pds : r.pds[g].ref = s.pds[g].ref - One(g = p)
  BY <1>2, <1>3, <1>6, PutPd
<1>8. ASSUME NEW h \in DOMAIN s.pds PROVE r.pds[h].ref = Holders(s.mrs, h) + y[h]
  <2>1. PICK a \in Nat, b \in Nat, d \in Nat :
          a = Holders(s.mrs, h) /\ b = y[h] /\ d = One(h = p)
    BY <1>1, <1>4, <1>5 DEF One
  <2>2. s.pds[h].ref = a + (b + d)
    BY <1>4, <2>1 DEF Gains
  <2>3. r.pds[h].ref = (a + (b + d)) - d
    BY <1>7, <2>1, <2>2
  <2> QED
    BY <2>1, <2>3
<1>9. TablesType(r)
  BY <1>2, <1>3, <1>7 DEF TablesType
<1> QED
  BY <1>3, <1>7, <1>8, <1>9 DEF GoodTables

\* The table n is f with one object more.
Adds(n, f, obj) ==
  \A h \in Nat :
    /\ Holders(f, h) \in Nat /\ Holders(n, h) = Holders(f, h) + One(obj.pd = h)
    /\ Scqs(f, h) \in Nat /\ Scqs(n, h) = Scqs(f, h) + One(obj.scq = h)
    /\ Rcqs(f, h) \in Nat /\ Rcqs(n, h) = Rcqs(f, h) + One(obj.rcq = h)

LEMMA FreeAdds ==
  ASSUME NEW t, IsFiniteSet(DOMAIN t), NEW q, q \in DOMAIN t
  PROVE  Adds(t, ResourceFree(t, q), t[q])
<1>1. ASSUME NEW h
      PROVE  /\ Holders(t, h) = Holders(ResourceFree(t, q), h) + One(t[q].pd = h)
             /\ Holders(ResourceFree(t, q), h) \in Nat
  BY HoldersWithout
<1>2. ASSUME NEW h
      PROVE  /\ Scqs(t, h) = Scqs(ResourceFree(t, q), h) + One(t[q].scq = h)
             /\ Scqs(ResourceFree(t, q), h) \in Nat
  BY ScqsWithout
<1>3. ASSUME NEW h
      PROVE  /\ Rcqs(t, h) = Rcqs(ResourceFree(t, q), h) + One(t[q].rcq = h)
             /\ Rcqs(ResourceFree(t, q), h) \in Nat
  BY RcqsWithout
<1> QED
  BY <1>1, <1>2, <1>3 DEF Adds

LEMMA InsertAdds ==
  ASSUME NEW t, IsFiniteSet(DOMAIN t), NEW q, NEW obj
  PROVE  Adds(Insert(t, q, obj), ResourceFree(t, q), obj)
<1>1. PICK n : n = Insert(t, q, obj)
  OBVIOUS
<1>2. DOMAIN n = DOMAIN t \cup {q} /\ n[q] = obj
  BY <1>1 DEF Insert
<1>3. ResourceFree(n, q) = ResourceFree(t, q)
  BY <1>1, InsertIs
<1>4. IsFiniteSet(DOMAIN n) /\ q \in DOMAIN n
  BY <1>2, FS_AddElement
<1>5. Adds(n, ResourceFree(n, q), n[q])
  BY <1>4, FreeAdds
<1> QED
  BY <1>1, <1>2, <1>3, <1>5

\* The tables are small enough for every count to fit in its uint32_t.
Fits ==
  /\ MrSlots + AhSlots + QpSlots < RefMod
  /\ 2 * QpSlots < RefMod
  /\ \E l \in Nat : /\ \A s \in SgeLists : Len(s) <= l
                    /\ QpSlots * ((2 * MaxWrs + 1) * l) + l < RefMod

\* A QP with empty queues holds no MR.
LEMMA NewHolds ==
  ASSUME NEW qp, qp \in QpRec, qp.sq = <<>>, qp.rq = <<>>, qp.resp = <<>>, NEW m
  PROVE  CountIn(HeldByQp(qp), m) = 0
<1>1. CountIn(HeldByQp(qp), m) = CountIn(HeldBySq(qp), m) + CountIn(qp.rq, m) + CountIn(qp.resp, m)
  BY HeldCount
<1>2. HeldBySq(qp) = <<>>
  <2>1. HeldBySq(qp) \in Lists /\ Len(HeldBySq(qp)) = Len(qp.sq)
    BY HeldTypes
  <2>2. Len(HeldBySq(qp)) = 0
    BY <2>1
  <2> QED
    BY <2>1, <2>2, EmptySeq DEF Lists
<1>3. CountIn(<<>>, m) = 0
  BY CountEmpty
<1> QED
  BY <1>1, <1>2, <1>3

\* The counts of a CQ after roce_get_cq for both queues of a new QP.
LEMMA CqsGot ==
  ASSUME NEW c, Table(c, CqSlots, PdRec), NEW scq, NEW rcq, NEW d, d = Get(Get(c, scq), rcq),
         \A h \in DOMAIN c : c[h].ref + One(h = scq) + One(h = rcq) < RefMod
  PROVE  /\ Table(d, CqSlots, PdRec) /\ DOMAIN d = DOMAIN c
         /\ \A h \in DOMAIN c : d[h].ref = c[h].ref + One(h = scq) + One(h = rcq)
<1>1. PICK e : e = Get(c, scq)
  OBVIOUS
<1>2. \A h \in DOMAIN c : c[h].ref \in Nat
  BY DEF Table, PdRec, RefCount
<1>3. \A h : One(h = scq) \in {0, 1} /\ One(h = rcq) \in {0, 1}
  BY DEF One
<1>4. RefMod \in Nat
  BY SlotsType
<1>5. scq \in DOMAIN c => c[scq].ref + 1 < RefMod
  <2>1. ASSUME scq \in DOMAIN c PROVE c[scq].ref + 1 < RefMod
    <3>1. PICK i \in Nat, j \in Nat, k \in Nat :
            i = c[scq].ref /\ j = One(scq = rcq) /\ k = RefMod
      BY <1>2, <1>4, <2>1 DEF One
    <3>2. i + 1 + j < k
      BY <2>1, <3>1 DEF One
    <3> QED
      BY <3>1, <3>2
  <2> QED
    BY <2>1
<1>6. /\ Table(e, CqSlots, PdRec) /\ DOMAIN e = DOMAIN c
      /\ \A h \in DOMAIN c : e[h].ref = c[h].ref + One(h = scq)
  BY <1>1, <1>5, GetPd
<1>7. rcq \in DOMAIN e => e[rcq].ref + 1 < RefMod
  <2>1. ASSUME rcq \in DOMAIN c PROVE e[rcq].ref + 1 < RefMod
    <3>1. PICK i \in Nat, j \in Nat, k \in Nat :
            i = c[rcq].ref /\ j = One(rcq = scq) /\ k = RefMod
      BY <1>2, <1>4, <2>1 DEF One
    <3>2. i + j + 1 < k
      BY <2>1, <3>1 DEF One
    <3>3. e[rcq].ref = i + j
      BY <1>6, <2>1, <3>1
    <3> QED
      BY <3>1, <3>2, <3>3
  <2> QED
    BY <1>6, <2>1
<1>8. /\ Table(d, CqSlots, PdRec) /\ DOMAIN d = DOMAIN e
      /\ \A h \in DOMAIN e : d[h].ref = e[h].ref + One(h = rcq)
  BY <1>1, <1>6, <1>7, GetPd
<1> QED
  BY <1>6, <1>8

\* And before roce_put_cq for both queues of one that goes.
CountsBoth(c, k, scq, rcq) ==
  \A h \in DOMAIN c : k[h] \in Nat /\ c[h].ref = k[h] + One(h = scq) + One(h = rcq)

LEMMA CqsPut ==
  ASSUME NEW c, Table(c, CqSlots, PdRec), NEW scq, NEW rcq, NEW d, d = Put(Put(c, scq), rcq),
         NEW k, CountsBoth(c, k, scq, rcq)
  PROVE  /\ Table(d, CqSlots, PdRec) /\ DOMAIN d = DOMAIN c
         /\ \A h \in DOMAIN c : d[h].ref = k[h]
<1>1. PICK e : e = Put(c, scq)
  OBVIOUS
<1>2. \A h \in DOMAIN c : k[h] \in Nat /\ c[h].ref = k[h] + One(h = scq) + One(h = rcq)
  BY DEF CountsBoth
<1>3. scq \in DOMAIN c => c[scq].ref > 0
  <2>1. ASSUME scq \in DOMAIN c PROVE c[scq].ref > 0
    <3>1. PICK i \in Nat, j \in Nat : i = k[scq] /\ j = One(scq = rcq)
      BY <1>2, <2>1 DEF One
    <3>2. c[scq].ref = i + 1 + j
      BY <1>2, <2>1, <3>1 DEF One
    <3> QED
      BY <3>2
  <2> QED
    BY <2>1
<1>4. /\ Table(e, CqSlots, PdRec) /\ DOMAIN e = DOMAIN c
      /\ \A h \in DOMAIN c : e[h].ref = c[h].ref - One(h = scq)
  BY <1>1, <1>3, PutPd
<1>5. ASSUME NEW h \in DOMAIN c PROVE e[h].ref = k[h] + One(h = rcq)
  <2>1. PICK i \in Nat, j \in Nat, l \in Nat : i = k[h] /\ j = One(h = scq) /\ l = One(h = rcq)
    BY <1>2 DEF One
  <2>2. c[h].ref = i + j + l
    BY <1>2, <2>1
  <2>3. e[h].ref = (i + j + l) - j
    BY <1>4, <2>1, <2>2
  <2> QED
    BY <2>1, <2>3
<1>6. rcq \in DOMAIN e => e[rcq].ref > 0
  <2>1. ASSUME rcq \in DOMAIN c PROVE e[rcq].ref > 0
    <3>1. PICK i \in Nat : i = k[rcq]
      BY <1>2, <2>1
    <3>2. e[rcq].ref = k[rcq] + One(rcq = rcq)
      BY <1>5, <2>1
    <3>3. e[rcq].ref = i + 1
      BY <3>1, <3>2 DEF One
    <3> QED
      BY <3>1, <3>3
  <2> QED
    BY <1>4, <2>1
<1>7. /\ Table(d, CqSlots, PdRec) /\ DOMAIN d = DOMAIN e
      /\ \A h \in DOMAIN e : d[h].ref = e[h].ref - One(h = rcq)
  BY <1>1, <1>4, <1>6, PutPd
<1>8. ASSUME NEW h \in DOMAIN c PROVE d[h].ref = k[h]
  <2>1. PICK i \in Nat, l \in Nat : i = k[h] /\ l = One(h = rcq)
    BY <1>2 DEF One
  <2>2. d[h].ref = (i + l) - l
    BY <1>4, <1>5, <1>7, <2>1
  <2> QED
    BY <2>1, <2>2
<1> QED
  BY <1>4, <1>7, <1>8

\* The invariant bounds every count that a call can reach.
LEMMA CountsFit ==
  ASSUME Fits, NEW m, Table(m, MrSlots, MrRec), NEW a, Table(a, AhSlots, AhRec),
         NEW t, Table(t, QpSlots, QpRec), NEW h
  PROVE  /\ Holders(m, h) + (Holders(a, h) + Holders(t, h)) < RefMod
         /\ Scqs(t, h) + Rcqs(t, h) < RefMod
<1>1. PICK i \in Nat, j \in Nat, k \in Nat, r \in Nat :
        i = MrSlots /\ j = AhSlots /\ k = QpSlots /\ r = RefMod
  BY SlotsType
<1>2. i + j + k < r /\ 2 * k < r
  BY <1>1 DEF Fits
<1>3. PICK x \in Nat, y \in Nat, z \in Nat : 
        /\ x = Holders(m, h) /\ y = Holders(a, h) /\ z = Holders(t, h)
        /\ x <= i /\ y <= j /\ z <= k
  BY <1>1, HoldersBound
<1>4. PICK p \in Nat, q \in Nat : p = Scqs(t, h) /\ q = Rcqs(t, h) /\ p <= k /\ q <= k
  BY <1>1, HoldersBound
<1>5. x + (y + z) < r /\ p + q < r
  BY <1>2, <1>3, <1>4
<1> QED
  BY <1>1, <1>3, <1>4, <1>5

\* roce_create_qp: the new QP takes a free handle, or that of the unused GSI.
LEMMA QpInserted ==
  ASSUME Fits, NEW s, NEW c, NEW a, NEW t, State(s, c, a, t), Table(t, QpSlots, QpRec),
         Table(c, CqSlots, PdRec), Table(a, AhSlots, AhRec),
         NEW q, q \in 0 .. QpSlots - 1, q \in DOMAIN t => t[q] = Unused,
         NEW qp, qp \in QpRec, qp.sq = <<>>, qp.rq = <<>>, qp.resp = <<>>, qp.type # "MAX",
         qp.pd \in DOMAIN s.pds, qp.scq \in DOMAIN c,
         NEW rcq, IF rcq \in DOMAIN c THEN qp.rcq = rcq
                  ELSE qp.rcq = Null /\ "recv_cq" \in Calls,
         NEW r, r = [s EXCEPT !.pds = Get(@, qp.pd)],
         NEW d, d = Get(Get(c, qp.scq), rcq), NEW n, n = Insert(t, q, qp)
  PROVE  State(r, d, a, n)
<1>1. GoodTables(s, UsesFn(t), HoldFn(a, t)) /\ TablesType(s)
  BY DEF State, GoodTables
<1>2. Table(s.mrs, MrSlots, MrRec) /\ DOMAIN s.pds \subseteq Nat
  BY <1>1, TablesFacts DEF TablesType
<1>3. /\ Table(n, QpSlots, QpRec) /\ QpSlots \in Nat /\ AhSlots \in Nat
      /\ IsFiniteSet(DOMAIN t)
  BY TableInsert, SlotsType, TableFinite
<1>4. DOMAIN n = DOMAIN t \cup {q} /\ n[q] = qp /\ \A g \in DOMAIN t \ {q} : n[g] = t[g]
  BY DEF Insert
\* What the QPs count for, before and after.
<1>5. ASSUME NEW h \in Nat
      PROVE  /\ Holders(n, h) = Holders(t, h) + One(qp.pd = h)
             /\ Scqs(n, h) = Scqs(t, h) + One(qp.scq = h)
             /\ Rcqs(n, h) = Rcqs(t, h) + One(qp.rcq = h)
  <2>1. PICK f : f = ResourceFree(t, q)
    OBVIOUS
  <2>2. /\ Holders(n, h) = Holders(f, h) + One(qp.pd = h) /\ Holders(f, h) \in Nat
        /\ Scqs(n, h) = Scqs(f, h) + One(qp.scq = h) /\ Scqs(f, h) \in Nat
        /\ Rcqs(n, h) = Rcqs(f, h) + One(qp.rcq = h) /\ Rcqs(f, h) \in Nat
    <3>1. Adds(n, f, qp)
      BY <1>3, <2>1, InsertAdds
    <3> QED
      BY <3>1 DEF Adds
  <2>3. Holders(t, h) = Holders(f, h) /\ Scqs(t, h) = Scqs(f, h) /\ Rcqs(t, h) = Rcqs(f, h)
    <3>1. CASE q \notin DOMAIN t
      <4>1. f = t
        BY <2>1, <3>1, TableFree
      <4> QED
        BY <4>1
    <3>2. CASE q \in DOMAIN t
      <4>1. t[q].pd # h /\ t[q].scq # h /\ t[q].rcq # h
        BY <3>2 DEF Unused, NewQp, Null
      <4>2. One(t[q].pd = h) = 0 /\ One(t[q].scq = h) = 0 /\ One(t[q].rcq = h) = 0
        BY <4>1 DEF One
      <4>3. /\ Holders(t, h) = Holders(f, h) + One(t[q].pd = h)
            /\ Scqs(t, h) = Scqs(f, h) + One(t[q].scq = h)
            /\ Rcqs(t, h) = Rcqs(f, h) + One(t[q].rcq = h)
        <5>1. Adds(t, f, t[q])
          BY <1>3, <2>1, <3>2, FreeAdds
        <5> QED
          BY <5>1 DEF Adds
      <4> QED
        BY <2>2, <4>2, <4>3
    <3> QED
      BY <3>1, <3>2
  <2> QED
    BY <2>2, <2>3
\* No use is added.
<1>6. UsesFn(n) = UsesFn(t)
  <2>1. ASSUME NEW m \in Nat PROVE UsesOf(n, m) = UsesOf(t, m)
    <3>1. CountIn(HeldByQp(qp), m) = 0
      BY NewHolds
    <3>2. UsesOf(t, m) \in Nat /\ UsesOf(n, m) \in Nat
      BY <1>3, UsesFinite
    <3>3. CASE q \notin DOMAIN t
      <4>1. UsesOf(n, m) = UsesOf(t, m) + CountIn(HeldByQp(qp), m)
        BY <1>3, <3>3, UsesSteps
      <4> QED
        BY <3>1, <3>2, <4>1
    <3>4. CASE q \in DOMAIN t
      <4>1. UsesOf(n, m) + CountIn(HeldByQp(t[q]), m) = UsesOf(t, m) + CountIn(HeldByQp(qp), m)
        BY <1>3, <3>4, UsesSteps
      <4>2. CountIn(HeldByQp(t[q]), m) = 0
        <5>1. t[q] \in QpRec
          BY <3>4 DEF Table
        <5>2. t[q].sq = <<>> /\ t[q].rq = <<>> /\ t[q].resp = <<>>
          BY <3>4 DEF Unused, NewQp
        <5> QED
          BY <5>1, <5>2, NewHolds
      <4> QED
        BY <3>1, <3>2, <4>1, <4>2
    <3> QED
      BY <3>3, <3>4
  <2> QED
    BY <2>1 DEF UsesFn
<1>7. HoldFn(a, t) \in [Nat -> Nat] /\ HoldFn(a, n) \in [Nat -> Nat]
  <2>1. ASSUME NEW h \in Nat
        PROVE  Holders(a, h) + Holders(t, h) \in Nat /\ Holders(a, h) + Holders(n, h) \in Nat
    <3>1. Holders(a, h) \in Nat
      BY <1>3, HoldersBound
    <3>2. Holders(t, h) \in Nat
      BY <1>3, HoldersBound
    <3>3. Holders(n, h) \in Nat
      BY <1>3, HoldersBound
    <3> QED
      BY <3>1, <3>2, <3>3
  <2> QED
    BY <2>1 DEF HoldFn
<1>8. ASSUME NEW h \in Nat PROVE HoldFn(a, n)[h] = HoldFn(a, t)[h] + One(h = qp.pd)
  <2>1. PICK i \in Nat, j \in Nat, k \in Nat :
          i = Holders(a, h) /\ j = Holders(t, h) /\ k = One(qp.pd = h)
    BY <1>3, HoldersBound DEF One
  <2>2. One(h = qp.pd) = k
    BY <2>1 DEF One
  <2>3. HoldFn(a, t)[h] = i + j /\ HoldFn(a, n)[h] = i + (j + k)
    BY <1>5, <2>1 DEF HoldFn
  <2> QED
    BY <2>1, <2>2, <2>3
<1>9. ASSUME NEW h \in Nat PROVE Holders(s.mrs, h) + HoldFn(a, n)[h] < RefMod
  <2>1. Holders(s.mrs, h) + (Holders(a, h) + Holders(n, h)) < RefMod
    BY <1>2, <1>3, CountsFit
  <2> QED
    BY <2>1 DEF HoldFn
<1>10. GoodTables(r, UsesFn(n), HoldFn(a, n)) /\ DOMAIN r.pds = DOMAIN s.pds
  <2>1. PICK x, y, u, p : x = HoldFn(a, t) /\ y = HoldFn(a, n) /\ u = UsesFn(t) /\ p = qp.pd
    OBVIOUS
  <2>2. GoodTables(r, u, y) /\ DOMAIN r.pds = DOMAIN s.pds
    <3>1. GoodTables(s, u, x)
      BY <1>1, <2>1
    <3>5. y \in [Nat -> Nat]
      BY <1>7, <2>1
    <3>2. Gains(y, x, p)
      BY <1>8, <2>1 DEF Gains
    <3>3. HeldFits(s.mrs, y)
      BY <1>9, <2>1 DEF HeldFits
    <3>4. p \in DOMAIN s.pds
      BY <2>1
    <3>6. r = [s EXCEPT !.pds = Get(@, p)]
      BY <2>1
    <3>7. GoodTables(r, u, y)
      BY ONLY <3>1, <3>2, <3>3, <3>4, <3>5, <3>6, HolderAdded
    <3>8. DOMAIN r.pds = DOMAIN s.pds
      <4>1. r.pds = Get(s.pds, p)
        BY <1>1, <3>6 DEF TablesType
      <4>2. DOMAIN Get(s.pds, p) = DOMAIN s.pds
        BY DEF Get, Count
      <4> QED
        BY <4>1, <4>2
    <3> QED
      BY <3>7, <3>8
  <2> QED
    BY <1>6, <2>1, <2>2
\* The CQs.
<1>11. DOMAIN c \subseteq Nat /\ \A h \in DOMAIN c : c[h].ref = Scqs(t, h) + Rcqs(t, h)
  BY SlotsType DEF State, Table
<1>12. ASSUME NEW h \in DOMAIN c
       PROVE  /\ Scqs(n, h) + Rcqs(n, h) = c[h].ref + One(h = qp.scq) + One(h = rcq)
              /\ c[h].ref + One(h = qp.scq) + One(h = rcq) < RefMod
  <2>1. h \in Nat
    BY <1>11
  <2>2. PICK i \in Nat, j \in Nat, k \in Nat, l \in Nat :
          i = Scqs(t, h) /\ j = Rcqs(t, h) /\ k = One(h = qp.scq) /\ l = One(h = rcq)
    BY <1>3, HoldersBound DEF One
  <2>3. One(qp.scq = h) = k /\ One(qp.rcq = h) = l
    BY <2>1, <2>2 DEF One, Null
  <2>4. Scqs(n, h) = i + k /\ Rcqs(n, h) = j + l /\ c[h].ref = i + j
    BY <1>5, <1>11, <2>1, <2>2, <2>3
  <2>5. Scqs(n, h) + Rcqs(n, h) < RefMod
    BY <1>2, <1>3, CountsFit
  <2>6. (i + k) + (j + l) = (i + j) + k + l
    OBVIOUS
  <2> QED
    BY <2>2, <2>4, <2>5, <2>6
<1>13. /\ DOMAIN d = DOMAIN c
       /\ \A h \in DOMAIN c : d[h].ref = c[h].ref + One(h = qp.scq) + One(h = rcq)
  BY <1>12, CqsGot
<1>14. \A h \in DOMAIN d : d[h].ref = Scqs(n, h) + Rcqs(n, h)
  BY <1>12, <1>13
<1>15. \A h \in DOMAIN a : a[h].pd \in DOMAIN r.pds
  BY <1>10 DEF State
<1>16. ASSUME NEW g \in DOMAIN n PROVE QpGood(n[g], g, DOMAIN r.pds, DOMAIN d)
  <2>1. CASE g = q
    <3>1. Len(qp.sq) <= MaxWrs /\ Len(qp.rq) <= MaxWrs /\ Len(qp.resp) <= 1
      BY SlotsType
    <3> QED
      BY <1>4, <1>10, <1>13, <2>1, <3>1 DEF QpGood
  <2>2. CASE g # q
    BY <1>4, <1>10, <1>13, <2>2 DEF State
  <2> QED
    BY <2>1, <2>2
<1> QED
  BY <1>10, <1>14, <1>15, <1>16 DEF State

\* roce_destroy_qp: the QP goes, and puts its PD, its CQs and the MRs of its WRs.
LEMMA QpFreed ==
  ASSUME NEW s, NEW c, NEW a, NEW t, State(s, c, a, t), Table(t, QpSlots, QpRec),
         Table(c, CqSlots, PdRec), Table(a, AhSlots, AhRec),
         NEW q, q \in DOMAIN t, NEW qp, qp = t[q], qp.type # "MAX", qp.resp = <<>>, qp.rcq # Null,
         NEW r, r = PutWrs([s EXCEPT !.pds = Put(@, qp.pd)], HeldBySq(qp) \o qp.rq),
         NEW d, d = Put(Put(c, qp.scq), qp.rcq), NEW n, n = ResourceFree(t, q)
  PROVE  /\ State(r, d, a, n)
         /\ qp.pd \in DOMAIN s.pds /\ qp.scq \in DOMAIN c /\ qp.rcq \in DOMAIN c
<1>1. GoodTables(s, UsesFn(t), HoldFn(a, t)) /\ TablesType(s)
  BY DEF State, GoodTables
<1>2. QpGood(qp, q, DOMAIN s.pds, DOMAIN c) /\ qp \in QpRec
  BY DEF State, Table
<1>3. qp.pd \in DOMAIN s.pds /\ qp.scq \in DOMAIN c /\ qp.rcq \in DOMAIN c
  BY <1>2 DEF QpGood
<1>4. /\ Table(n, QpSlots, QpRec) /\ QpSlots \in Nat /\ AhSlots \in Nat
      /\ IsFiniteSet(DOMAIN t)
  BY TableFree, SlotsType, TableFinite
<1>5. DOMAIN n = DOMAIN t \ {q} /\ \A g \in DOMAIN t \ {q} : n[g] = t[g]
  BY DEF ResourceFree
<1>6. Adds(t, n, qp)
  BY <1>4, FreeAdds
\* The PD.
<1>7. PICK x, y, u, v, p, s0 :
        /\ x = HoldFn(a, t) /\ y = HoldFn(a, n) /\ u = UsesFn(t) /\ v = UsesFn(n)
        /\ p = qp.pd /\ s0 = [s EXCEPT !.pds = Put(@, p)]
  OBVIOUS
<1>8. y \in [Nat -> Nat]
  <2>1. ASSUME NEW h \in Nat PROVE Holders(a, h) + Holders(n, h) \in Nat
    <3>1. Holders(a, h) \in Nat
      BY <1>4, HoldersBound
    <3>2. Holders(n, h) \in Nat
      BY <1>4, HoldersBound
    <3> QED
      BY <3>1, <3>2
  <2> QED
    BY <1>7, <2>1 DEF HoldFn
<1>9. Gains(x, y, p)
  <2>1. ASSUME NEW h \in Nat PROVE x[h] = y[h] + One(h = p)
    <3>1. PICK i \in Nat, j \in Nat, k \in Nat :
            i = Holders(a, h) /\ j = Holders(n, h) /\ k = One(p = h)
      BY <1>4, HoldersBound DEF One
    <3>2. One(h = p) = k
      BY <3>1 DEF One
    <3>3. Holders(t, h) = j + k
      BY <1>6, <1>7, <3>1 DEF Adds
    <3>4. x[h] = i + (j + k) /\ y[h] = i + j
      BY <1>7, <3>1, <3>3 DEF HoldFn
    <3> QED
      BY <3>1, <3>2, <3>4
  <2> QED
    BY <2>1 DEF Gains
<1>10. GoodTables(s, u, x) /\ p \in DOMAIN s.pds
  BY <1>1, <1>3, <1>7
<1>11. GoodTables(s0, u, y)
  BY ONLY <1>7, <1>8, <1>9, <1>10, HolderGone
<1>12. DOMAIN s0.pds = DOMAIN s.pds
  <2>1. s0.pds = Put(s.pds, p)
    BY <1>1, <1>7 DEF TablesType
  <2>2. DOMAIN Put(s.pds, p) = DOMAIN s.pds
    BY DEF Put, Count
  <2> QED
    BY <2>1, <2>2
\* The MRs.
<1>13. PICK lists : lists = HeldBySq(qp) \o qp.rq
  OBVIOUS
<1>14. lists \in Lists
  BY <1>2, <1>13, HeldTypes, CountConcat
<1>15. v \in [Nat -> Nat]
  <2>1. ASSUME NEW m \in Nat PROVE UsesOf(n, m) \in Nat
    BY <1>4, UsesFinite
  <2> QED
    BY <1>7, <2>1 DEF UsesFn
<1>16. AllTaken(u, v, lists)
  <2>1. ASSUME NEW m \in Nat PROVE u[m] = v[m] + CountIn(lists, m)
    <3>1. UsesOf(t, m) = UsesOf(n, m) + CountIn(HeldByQp(qp), m)
      BY <1>4, UsesWithout
    <3>2. CountIn(HeldByQp(qp), m) = CountIn(HeldBySq(qp), m) + CountIn(qp.rq, m) + CountIn(qp.resp, m)
      BY <1>2, HeldCount
    <3>3. CountIn(lists, m) = CountIn(HeldBySq(qp), m) + CountIn(qp.rq, m)
      BY <1>2, <1>13, HeldCount
    <3>4. CountIn(qp.resp, m) = 0
      BY CountEmpty
    <3>5. CountIn(lists, m) \in Nat
      BY <1>14, EntriesFinite
    <3>6. CountIn(HeldByQp(qp), m) = CountIn(lists, m)
      BY <3>2, <3>3, <3>4, <3>5
    <3> QED
      BY <1>7, <3>1, <3>6 DEF UsesFn
  <2> QED
    BY <2>1 DEF AllTaken
<1>17. r = PutWrs(s0, lists)
  BY <1>7, <1>13
<1>18. GoodTables(PutWrs(s0, lists), v, y) /\ DOMAIN PutWrs(s0, lists).pds = DOMAIN s0.pds
  BY ONLY <1>11, <1>14, <1>15, <1>16, PutWrsGood
<1>19. GoodTables(r, UsesFn(n), HoldFn(a, n)) /\ DOMAIN r.pds = DOMAIN s.pds
  BY <1>7, <1>12, <1>17, <1>18
\* The CQs.
<1>20. PICK k : k = [h \in DOMAIN c |-> Scqs(n, h) + Rcqs(n, h)]
  OBVIOUS
<1>21. DOMAIN c \subseteq Nat /\ \A h \in DOMAIN c : c[h].ref = Scqs(t, h) + Rcqs(t, h)
  BY SlotsType DEF State, Table
<1>22. ASSUME NEW h \in DOMAIN c
       PROVE  k[h] \in Nat /\ c[h].ref = k[h] + One(h = qp.scq) + One(h = qp.rcq)
  <2>1. h \in Nat
    BY <1>21
  <2>2. PICK i \in Nat, j \in Nat, l \in Nat, o \in Nat :
          i = Scqs(n, h) /\ j = Rcqs(n, h) /\ l = One(h = qp.scq) /\ o = One(h = qp.rcq)
    BY <1>6, <2>1 DEF Adds, One
  <2>3. One(qp.scq = h) = l /\ One(qp.rcq = h) = o
    BY <2>2 DEF One
  <2>4. Scqs(t, h) = i + l /\ Rcqs(t, h) = j + o
    BY <1>6, <2>1, <2>2, <2>3 DEF Adds
  <2>5. k[h] = i + j /\ c[h].ref = (i + l) + (j + o)
    BY <1>20, <1>21, <2>2, <2>4
  <2> QED
    BY <2>2, <2>5
<1>23. DOMAIN d = DOMAIN c /\ \A h \in DOMAIN c : d[h].ref = k[h]
  <2>1. CountsBoth(c, k, qp.scq, qp.rcq)
    BY <1>22 DEF CountsBoth
  <2>2. /\ Table(d, CqSlots, PdRec) /\ DOMAIN d = DOMAIN c
        /\ \A h \in DOMAIN c : d[h].ref = k[h]
    BY <2>1, CqsPut
  <2> QED
    BY <2>2
<1>24. \A h \in DOMAIN d : d[h].ref = Scqs(n, h) + Rcqs(n, h)
  BY <1>20, <1>23
<1>25. \A h \in DOMAIN a : a[h].pd \in DOMAIN r.pds
  BY <1>19 DEF State
<1>26. \A g \in DOMAIN n : QpGood(n[g], g, DOMAIN r.pds, DOMAIN d)
  BY <1>5, <1>19, <1>23 DEF State
<1> QED
  BY <1>3, <1>19, <1>24, <1>25, <1>26 DEF State

\* Creating and destroying an AH.
LEMMA AhInserted ==
  ASSUME Fits, NEW s, NEW c, NEW a, NEW t, State(s, c, a, t), Table(t, QpSlots, QpRec),
         Table(a, AhSlots, AhRec), NEW h, h \in 0 .. AhSlots - 1, h \notin DOMAIN a,
         NEW ah, ah \in AhRec, ah.pd \in DOMAIN s.pds,
         NEW r, r = [s EXCEPT !.pds = Get(@, ah.pd)], NEW b, b = Insert(a, h, ah)
  PROVE  State(r, c, b, t)
<1>1. GoodTables(s, UsesFn(t), HoldFn(a, t)) /\ TablesType(s)
  BY DEF State, GoodTables
<1>2. Table(s.mrs, MrSlots, MrRec)
  BY <1>1 DEF TablesType
<1>3. Table(b, AhSlots, AhRec) /\ QpSlots \in Nat /\ AhSlots \in Nat /\ IsFiniteSet(DOMAIN a)
  BY TableInsert, SlotsType, TableFinite
<1>4. DOMAIN b = DOMAIN a \cup {h} /\ b[h] = ah /\ \A g \in DOMAIN a \ {h} : b[g] = a[g]
  BY DEF Insert
<1>5. Adds(b, a, ah)
  <2>1. Adds(b, ResourceFree(a, h), ah)
    BY <1>3, InsertAdds
  <2>2. ResourceFree(a, h) = a
    BY TableFree
  <2> QED
    BY <2>1, <2>2
<1>6. PICK x, y, u, p : x = HoldFn(a, t) /\ y = HoldFn(b, t) /\ u = UsesFn(t) /\ p = ah.pd
  OBVIOUS
<1>7. y \in [Nat -> Nat]
  <2>1. ASSUME NEW g \in Nat PROVE Holders(b, g) + Holders(t, g) \in Nat
    <3>1. Holders(b, g) \in Nat
      BY <1>3, HoldersBound
    <3>2. Holders(t, g) \in Nat
      BY <1>3, HoldersBound
    <3> QED
      BY <3>1, <3>2
  <2> QED
    BY <1>6, <2>1 DEF HoldFn
<1>8. Gains(y, x, p)
  <2>1. ASSUME NEW g \in Nat PROVE y[g] = x[g] + One(g = p)
    <3>1. PICK i \in Nat, j \in Nat, k \in Nat :
            i = Holders(a, g) /\ j = Holders(t, g) /\ k = One(p = g)
      BY <1>3, HoldersBound DEF One
    <3>2. One(g = p) = k
      BY <3>1 DEF One
    <3>3. Holders(b, g) = i + k
      BY <1>5, <1>6, <3>1 DEF Adds
    <3>4. x[g] = i + j /\ y[g] = (i + k) + j
      BY <1>6, <3>1, <3>3 DEF HoldFn
    <3> QED
      BY <3>1, <3>2, <3>4
  <2> QED
    BY <2>1 DEF Gains
<1>9. HeldFits(s.mrs, y)
  <2>1. ASSUME NEW g \in Nat PROVE Holders(s.mrs, g) + y[g] < RefMod
    <3>1. Holders(s.mrs, g) + (Holders(b, g) + Holders(t, g)) < RefMod
      BY <1>2, <1>3, CountsFit
    <3> QED
      BY <1>6, <3>1 DEF HoldFn
  <2> QED
    BY <2>1 DEF HeldFits
<1>10. GoodTables(s, u, x) /\ p \in DOMAIN s.pds /\ r = [s EXCEPT !.pds = Get(@, p)]
  BY <1>1, <1>6
<1>11. GoodTables(r, u, y)
  BY ONLY <1>7, <1>8, <1>9, <1>10, HolderAdded
<1>12. DOMAIN r.pds = DOMAIN s.pds
  <2>1. r.pds = Get(s.pds, p)
    BY <1>1, <1>10 DEF TablesType
  <2>2. DOMAIN Get(s.pds, p) = DOMAIN s.pds
    BY DEF Get, Count
  <2> QED
    BY <2>1, <2>2
<1>13. \A g \in DOMAIN b : b[g].pd \in DOMAIN r.pds
  BY <1>4, <1>12 DEF State
<1> QED
  BY <1>6, <1>11, <1>12, <1>13 DEF State

LEMMA AhFreed ==
  ASSUME NEW s, NEW c, NEW a, NEW t, State(s, c, a, t), Table(t, QpSlots, QpRec),
         Table(a, AhSlots, AhRec), NEW h, h \in DOMAIN a,
         NEW r, r = [s EXCEPT !.pds = Put(@, a[h].pd)], NEW b, b = ResourceFree(a, h)
  PROVE  State(r, c, b, t) /\ a[h].pd \in DOMAIN s.pds
<1>1. GoodTables(s, UsesFn(t), HoldFn(a, t)) /\ TablesType(s)
  BY DEF State, GoodTables
<1>2. Table(b, AhSlots, AhRec) /\ QpSlots \in Nat /\ AhSlots \in Nat /\ IsFiniteSet(DOMAIN a)
  BY TableFree, SlotsType, TableFinite
<1>3. DOMAIN b = DOMAIN a \ {h} /\ \A g \in DOMAIN a \ {h} : b[g] = a[g]
  BY DEF ResourceFree
<1>4. Adds(a, b, a[h])
  BY <1>2, FreeAdds
<1>5. PICK x, y, u, p : x = HoldFn(a, t) /\ y = HoldFn(b, t) /\ u = UsesFn(t) /\ p = a[h].pd
  OBVIOUS
<1>6. y \in [Nat -> Nat]
  <2>1. ASSUME NEW g \in Nat PROVE Holders(b, g) + Holders(t, g) \in Nat
    <3>1. Holders(b, g) \in Nat
      BY <1>2, HoldersBound
    <3>2. Holders(t, g) \in Nat
      BY <1>2, HoldersBound
    <3> QED
      BY <3>1, <3>2
  <2> QED
    BY <1>5, <2>1 DEF HoldFn
<1>7. Gains(x, y, p)
  <2>1. ASSUME NEW g \in Nat PROVE x[g] = y[g] + One(g = p)
    <3>1. PICK i \in Nat, j \in Nat, k \in Nat :
            i = Holders(b, g) /\ j = Holders(t, g) /\ k = One(p = g)
      BY <1>2, HoldersBound DEF One
    <3>2. One(g = p) = k
      BY <3>1 DEF One
    <3>3. Holders(a, g) = i + k
      BY <1>4, <1>5, <3>1 DEF Adds
    <3>4. y[g] = i + j /\ x[g] = (i + k) + j
      BY <1>5, <3>1, <3>3 DEF HoldFn
    <3> QED
      BY <3>1, <3>2, <3>4
  <2> QED
    BY <2>1 DEF Gains
<1>8. GoodTables(s, u, x) /\ p \in DOMAIN s.pds /\ r = [s EXCEPT !.pds = Put(@, p)]
  BY <1>1, <1>5 DEF State
<1>9. GoodTables(r, u, y)
  BY ONLY <1>6, <1>7, <1>8, HolderGone
<1>10. DOMAIN r.pds = DOMAIN s.pds
  <2>1. r.pds = Put(s.pds, p)
    BY <1>1, <1>8 DEF TablesType
  <2>2. DOMAIN Put(s.pds, p) = DOMAIN s.pds
    BY DEF Put, Count
  <2> QED
    BY <2>1, <2>2
<1>11. \A g \in DOMAIN b : b[g].pd \in DOMAIN r.pds
  BY <1>3, <1>10 DEF State
<1> QED
  BY <1>5, <1>8, <1>9, <1>10, <1>11 DEF State

-----------------------------------------------------------------------------
(* MRs and PDs that are created and PDs that are freed. *)

\* A new MR takes over the reference to its PD that was counted for y.
LEMMA MrAdded ==
  ASSUME NEW s, NEW u, NEW y, GoodTables(s, u, y), NEW x, x \in [Nat -> Nat],
         NEW m, m \in 0 .. MrSlots - 1, m \notin DOMAIN s.mrs,
         NEW mr, mr \in MrRec, mr.ref = 0, mr.state # "DESTROYED", mr.pd \in DOMAIN s.pds,
         NEW p, p = mr.pd, Gains(y, x, p),
         NEW r, r = [mrs |-> Insert(s.mrs, m, mr), pds |-> s.pds, ok |-> TRUE]
  PROVE  GoodTables(r, u, x)
<1>1. TablesType(s) /\ s.ok = TRUE /\ u \in [Nat -> Nat] /\ y \in [Nat -> Nat]
  BY DEF GoodTables
<1>2. Table(s.mrs, MrSlots, MrRec) /\ IsFiniteSet(DOMAIN s.mrs) /\ m \in Nat
  BY <1>1, TablesFacts, SlotsType DEF TablesType
<1>3. r.mrs = Insert(s.mrs, m, mr) /\ r.pds = s.pds /\ r.ok = TRUE
      /\ r = [mrs |-> r.mrs, pds |-> r.pds, ok |-> r.ok]
  BY <1>1 DEF TablesType
<1>4. TablesType(r)
  BY <1>1, <1>2, <1>3, TableInsert DEF TablesType
<1>5. DOMAIN r.mrs = DOMAIN s.mrs \cup {m} /\ r.mrs[m] = mr
      /\ \A g \in DOMAIN s.mrs : r.mrs[g] = s.mrs[g]
  BY <1>3 DEF Insert
<1>6. u[m] = 0
  BY <1>1, <1>2 DEF GoodTables
<1>7. \A g \in Nat : u[g] > 0 => g \in DOMAIN r.mrs
  BY <1>5 DEF GoodTables
<1>8. ASSUME NEW g \in DOMAIN r.mrs
      PROVE  /\ r.mrs[g].ref = u[g]
             /\ r.mrs[g].state = "DESTROYED" => u[g] > 0
             /\ r.mrs[g].pd \in DOMAIN r.pds
  <2>1. CASE g = m
    BY <1>3, <1>5, <1>6, <2>1
  <2>2. CASE g \in DOMAIN s.mrs
    BY <1>3, <1>5, <2>2 DEF GoodTables
  <2> QED
    BY <1>5, <2>1, <2>2
<1>9. ASSUME NEW h \in DOMAIN s.pds PROVE s.pds[h].ref = Holders(r.mrs, h) + x[h]
  <2>1. Adds(r.mrs, ResourceFree(s.mrs, m), mr)
    BY <1>2, <1>3, InsertAdds
  <2>2. ResourceFree(s.mrs, m) = s.mrs
    BY <1>2, TableFree
  <2>3. h \in Nat
    BY <1>1, TablesFacts
  <2>4. PICK i \in Nat, j \in Nat, k \in Nat :
          i = Holders(s.mrs, h) /\ j = x[h] /\ k = One(mr.pd = h)
    BY <2>1, <2>2, <2>3 DEF Adds, One
  <2>5. Holders(r.mrs, h) = i + k
    BY <2>1, <2>2, <2>3, <2>4 DEF Adds
  <2>6. One(h = p) = k
    BY <2>4 DEF One
  <2>7. y[h] = j + k
    BY <2>3, <2>4, <2>6 DEF Gains
  <2>8. s.pds[h].ref = i + (j + k)
    BY <2>4, <2>7 DEF GoodTables
  <2> QED
    BY <2>4, <2>5, <2>8
<1> QED
  BY <1>1, <1>3, <1>4, <1>7, <1>8, <1>9 DEF GoodTables

\* roce_create_mr: the new MR counts in its PD and in nothing else.
LEMMA MrInserted ==
  ASSUME Fits, NEW s, NEW c, NEW a, NEW t, State(s, c, a, t), Table(t, QpSlots, QpRec),
         Table(a, AhSlots, AhRec), NEW m, m \in 0 .. MrSlots - 1, m \notin DOMAIN s.mrs,
         NEW mr, mr \in MrRec, mr.ref = 0, mr.state # "DESTROYED", mr.pd \in DOMAIN s.pds,
         NEW r, r = [mrs |-> Insert(s.mrs, m, mr), pds |-> Get(s.pds, mr.pd), ok |-> TRUE]
  PROVE  State(r, c, a, t)
<1>1. GoodTables(s, UsesFn(t), HoldFn(a, t)) /\ TablesType(s) /\ s.ok = TRUE
  BY DEF State, GoodTables
<1>2. Table(s.mrs, MrSlots, MrRec) /\ IsFiniteSet(DOMAIN s.mrs) /\ QpSlots \in Nat
      /\ AhSlots \in Nat
  BY <1>1, TablesFacts, SlotsType DEF TablesType
<1>3. PICK x, u, p : x = HoldFn(a, t) /\ u = UsesFn(t) /\ p = mr.pd
  OBVIOUS
<1>4. PICK y : y = [h \in Nat |-> x[h] + One(h = p)]
  OBVIOUS
<1>5. x \in [Nat -> Nat]
  BY <1>1, <1>3 DEF GoodTables
<1>6. y \in [Nat -> Nat]
  BY <1>4, <1>5 DEF One
<1>7. Gains(y, x, p)
  BY <1>4 DEF Gains
<1>8. PICK n : n = Insert(s.mrs, m, mr)
  OBVIOUS
<1>9. Table(n, MrSlots, MrRec)
  BY <1>2, <1>8, TableInsert
<1>10. Adds(n, s.mrs, mr)
  <2>1. Adds(n, ResourceFree(s.mrs, m), mr)
    BY <1>2, <1>8, InsertAdds
  <2>2. ResourceFree(s.mrs, m) = s.mrs
    BY <1>2, TableFree
  <2> QED
    BY <2>1, <2>2
<1>11. HeldFits(s.mrs, y)
  <2>1. ASSUME NEW h \in Nat PROVE Holders(s.mrs, h) + y[h] < RefMod
    <3>1. Holders(n, h) + (Holders(a, h) + Holders(t, h)) < RefMod
      BY <1>9, CountsFit
    <3>2. PICK i \in Nat, j \in Nat, k \in Nat, l \in Nat :
            i = Holders(s.mrs, h) /\ j = x[h] /\ k = One(mr.pd = h) /\ l = RefMod
      <4>1. Holders(s.mrs, h) \in Nat
        BY <1>10 DEF Adds
      <4>2. x[h] \in Nat /\ One(mr.pd = h) \in Nat
        BY <1>5 DEF One
      <4> QED
        BY <4>1, <4>2, SlotsType
    <3>3. Holders(n, h) = i + k
      BY <1>10, <3>2 DEF Adds
    <3>4. Holders(a, h) + Holders(t, h) = j
      BY <1>3, <3>2 DEF HoldFn
    <3>5. One(h = p) = k
      BY <1>3, <3>2 DEF One
    <3>6. y[h] = j + k
      BY <1>4, <3>2, <3>5
    <3>7. (i + k) + j < l
      BY <3>1, <3>2, <3>3, <3>4
    <3>8. i + (j + k) < l
      BY <3>2, <3>7
    <3> QED
      BY <3>2, <3>6, <3>8
  <2> QED
    BY <2>1 DEF HeldFits
<1>12. PICK w : w = [s EXCEPT !.pds = Get(@, p)]
  OBVIOUS
<1>13. GoodTables(s, u, x) /\ p \in DOMAIN s.pds
  BY <1>1, <1>3
<1>14. GoodTables(w, u, y)
  BY ONLY <1>6, <1>7, <1>11, <1>12, <1>13, HolderAdded
<1>15. w.mrs = s.mrs /\ w.pds = Get(s.pds, p) /\ w.ok = TRUE
       /\ w = [mrs |-> w.mrs, pds |-> w.pds, ok |-> w.ok]
  BY <1>1, <1>12 DEF TablesType
<1>16. DOMAIN w.pds = DOMAIN s.pds
  BY <1>15 DEF Get, Count
<1>17. r = [mrs |-> Insert(w.mrs, m, mr), pds |-> w.pds, ok |-> TRUE]
  BY <1>3, <1>15
<1>18. m \notin DOMAIN w.mrs /\ mr.pd \in DOMAIN w.pds
  BY <1>15, <1>16
<1>19. GoodTables(r, u, x)
  BY ONLY m \in 0 .. MrSlots - 1, mr \in MrRec, mr.ref = 0, mr.state # "DESTROYED",
          <1>3, <1>5, <1>7, <1>14, <1>17, <1>18, MrAdded
<1>20. DOMAIN r.pds = DOMAIN s.pds
  BY <1>15, <1>16, <1>17
<1> QED
  BY <1>3, <1>19, <1>20 DEF State

\* A count is 0 when nothing counts.
LEMMA NoHolders ==
  ASSUME NEW t, IsFiniteSet(DOMAIN t), NEW h
  PROVE  /\ Holders(t, h) = 0 <=> \A g \in DOMAIN t : t[g].pd # h
         /\ Scqs(t, h) = 0 <=> \A g \in DOMAIN t : t[g].scq # h
         /\ Rcqs(t, h) = 0 <=> \A g \in DOMAIN t : t[g].rcq # h
<1>1. ASSUME NEW S, S \subseteq DOMAIN t PROVE Cardinality(S) = 0 <=> S = {}
  BY <1>1, FS_Subset, FS_EmptySet
<1>2. Cardinality({g \in DOMAIN t : t[g].pd = h}) = 0 <=> {g \in DOMAIN t : t[g].pd = h} = {}
  BY <1>1
<1>3. Cardinality({g \in DOMAIN t : t[g].scq = h}) = 0 <=> {g \in DOMAIN t : t[g].scq = h} = {}
  BY <1>1
<1>4. Cardinality({g \in DOMAIN t : t[g].rcq = h}) = 0 <=> {g \in DOMAIN t : t[g].rcq = h} = {}
  BY <1>1
<1>5. Holders(t, h) = 0 <=> \A g \in DOMAIN t : t[g].pd # h
  BY <1>2 DEF Holders
<1>6. Scqs(t, h) = 0 <=> \A g \in DOMAIN t : t[g].scq # h
  BY <1>3 DEF Scqs
<1>7. Rcqs(t, h) = 0 <=> \A g \in DOMAIN t : t[g].rcq # h
  BY <1>4 DEF Rcqs
<1> QED
  BY <1>5, <1>6, <1>7

\* roce_alloc_pd: nothing held the handle.
LEMMA PdInserted ==
  ASSUME NEW s, NEW c, NEW a, NEW t, State(s, c, a, t), Table(t, QpSlots, QpRec),
         Table(a, AhSlots, AhRec), NEW h, h \in 0 .. PdSlots - 1, h \notin DOMAIN s.pds,
         NEW r, r = [mrs |-> s.mrs, pds |-> Insert(s.pds, h, [ref |-> 0]), ok |-> TRUE]
  PROVE  State(r, c, a, t)
<1>1. GoodTables(s, UsesFn(t), HoldFn(a, t)) /\ TablesType(s) /\ s.ok = TRUE
  BY DEF State, GoodTables
<1>2. IsFiniteSet(DOMAIN s.mrs) /\ IsFiniteSet(DOMAIN a) /\ IsFiniteSet(DOMAIN t) /\ h \in Nat
  BY <1>1, TablesFacts, SlotsType, TableFinite
<1>3. PICK x, u : x = HoldFn(a, t) /\ u = UsesFn(t)
  OBVIOUS
<1>4. GoodTables(s, u, x)
  BY <1>1, <1>3
<1>5. DOMAIN r.pds = DOMAIN s.pds \cup {h} /\ r.pds[h].ref = 0 /\ r.mrs = s.mrs
      /\ r.ok = TRUE /\ \A g \in DOMAIN s.pds : r.pds[g] = s.pds[g]
  BY DEF Insert
<1>6. TablesType(r)
  <2>1. [ref |-> 0] \in PdRec
    BY SlotsType DEF PdRec
  <2>2. Table(s.pds, PdSlots, PdRec) /\ Table(s.mrs, MrSlots, MrRec)
    BY <1>1 DEF TablesType
  <2>3. Table(Insert(s.pds, h, [ref |-> 0]), PdSlots, PdRec)
    BY <2>1, <2>2, TableInsert
  <2> QED
    BY <2>2, <2>3 DEF TablesType
<1>7. Holders(s.mrs, h) + x[h] = 0
  <2>1. \A g \in DOMAIN s.mrs : s.mrs[g].pd # h
    BY <1>4 DEF GoodTables
  <2>2. \A g \in DOMAIN a : a[g].pd # h
    BY DEF State
  <2>3. ASSUME NEW g \in DOMAIN t PROVE t[g].pd # h
    <3>1. QpGood(t[g], g, DOMAIN s.pds, DOMAIN c)
      BY DEF State
    <3>2. CASE t[g].type = "MAX"
      BY <1>2, <3>1, <3>2 DEF QpGood, Unused, NewQp, Null
    <3>3. CASE t[g].type # "MAX"
      BY <3>1, <3>3 DEF QpGood
    <3> QED
      BY <3>2, <3>3
  <2>4. Holders(s.mrs, h) = 0 /\ Holders(a, h) = 0 /\ Holders(t, h) = 0
    BY <1>2, <2>1, <2>2, <2>3, NoHolders
  <2> QED
    BY <1>2, <1>3, <2>4 DEF HoldFn
<1>8. ASSUME NEW g \in DOMAIN r.pds PROVE r.pds[g].ref = Holders(r.mrs, g) + x[g]
  <2>1. CASE g = h
    BY <1>5, <1>7, <2>1
  <2>2. CASE g \in DOMAIN s.pds
    BY <1>4, <1>5, <2>2 DEF GoodTables
  <2> QED
    BY <1>5, <2>1, <2>2
<1>9. \A m \in DOMAIN r.mrs : r.mrs[m].pd \in DOMAIN r.pds
  BY <1>4, <1>5 DEF GoodTables
<1>10. GoodTables(r, u, x)
  BY <1>4, <1>5, <1>6, <1>8, <1>9 DEF GoodTables
<1>11. \A g \in DOMAIN a : a[g].pd \in DOMAIN r.pds
  BY <1>5 DEF State
<1>12. \A q \in DOMAIN t : QpGood(t[q], q, DOMAIN r.pds, DOMAIN c)
  BY <1>5 DEF State, QpGood
<1> QED
  BY <1>3, <1>10, <1>11, <1>12 DEF State

\* roce_dealloc_pd: nothing holds a PD whose count is 0.
LEMMA PdFreed ==
  ASSUME NEW s, NEW c, NEW a, NEW t, State(s, c, a, t), Table(t, QpSlots, QpRec),
         Table(a, AhSlots, AhRec), NEW h, h \in DOMAIN s.pds, s.pds[h].ref = 0,
         NEW r, r = [mrs |-> s.mrs, pds |-> ResourceFree(s.pds, h), ok |-> TRUE]
  PROVE  State(r, c, a, t)
<1>1. GoodTables(s, UsesFn(t), HoldFn(a, t)) /\ TablesType(s) /\ s.ok = TRUE
  BY DEF State, GoodTables
<1>2. IsFiniteSet(DOMAIN s.mrs) /\ IsFiniteSet(DOMAIN a) /\ IsFiniteSet(DOMAIN t) /\ h \in Nat
  BY <1>1, TablesFacts, SlotsType, TableFinite
<1>3. PICK x, u : x = HoldFn(a, t) /\ u = UsesFn(t)
  OBVIOUS
<1>4. GoodTables(s, u, x)
  BY <1>1, <1>3
<1>5. DOMAIN r.pds = DOMAIN s.pds \ {h} /\ r.mrs = s.mrs
      /\ r.ok = TRUE /\ \A g \in DOMAIN r.pds : r.pds[g] = s.pds[g]
  BY DEF ResourceFree
<1>6. TablesType(r)
  <2>1. Table(s.pds, PdSlots, PdRec) /\ Table(s.mrs, MrSlots, MrRec)
    BY <1>1 DEF TablesType
  <2>2. Table(ResourceFree(s.pds, h), PdSlots, PdRec)
    BY <2>1, TableFree
  <2> QED
    BY <2>1, <2>2 DEF TablesType
<1>7. Holders(s.mrs, h) = 0 /\ Holders(a, h) = 0 /\ Holders(t, h) = 0
  <2>1. PICK i \in Nat, j \in Nat, k \in Nat :
          i = Holders(s.mrs, h) /\ j = Holders(a, h) /\ k = Holders(t, h)
    <3>1. Holders(s.mrs, h) \in Nat
      BY <1>1, SlotsType, HoldersBound DEF TablesType
    <3>2. Holders(a, h) \in Nat
      BY SlotsType, HoldersBound
    <3>3. Holders(t, h) \in Nat
      BY SlotsType, HoldersBound
    <3> QED
      BY <3>1, <3>2, <3>3
  <2>2. x[h] = j + k
    BY <1>2, <1>3, <2>1 DEF HoldFn
  <2>3. s.pds[h].ref = Holders(s.mrs, h) + x[h]
    BY <1>4 DEF GoodTables
  <2>4. i + (j + k) = 0
    BY <2>1, <2>2, <2>3
  <2>5. i = 0 /\ j = 0 /\ k = 0
    BY <2>4
  <2> QED
    BY <2>1, <2>5
<1>8. /\ \A g \in DOMAIN s.mrs : s.mrs[g].pd # h
      /\ \A g \in DOMAIN a : a[g].pd # h
      /\ \A g \in DOMAIN t : t[g].pd # h
  BY <1>2, <1>7, NoHolders
<1>9. \A m \in DOMAIN r.mrs : r.mrs[m].pd \in DOMAIN r.pds
  BY <1>4, <1>5, <1>8 DEF GoodTables
<1>10. \A g \in DOMAIN r.pds : r.pds[g].ref = Holders(r.mrs, g) + x[g]
  BY <1>4, <1>5 DEF GoodTables
<1>11. GoodTables(r, u, x)
  BY <1>4, <1>5, <1>6, <1>9, <1>10 DEF GoodTables
<1>12. \A g \in DOMAIN a : a[g].pd \in DOMAIN r.pds
  BY <1>5, <1>8 DEF State
<1>13. \A q \in DOMAIN t : QpGood(t[q], q, DOMAIN r.pds, DOMAIN c)
  BY <1>5, <1>8 DEF State, QpGood
<1> QED
  BY <1>3, <1>11, <1>12, <1>13 DEF State

\* roce_create_cq and roce_destroy_cq: no QP names a new CQ, or one counted 0.
LEMMA CqInserted ==
  ASSUME NEW s, NEW c, NEW a, NEW t, State(s, c, a, t), Table(t, QpSlots, QpRec),
         NEW h, h \in Nat, h \notin DOMAIN c, NEW d, d = Insert(c, h, [ref |-> 0])
  PROVE  State(s, d, a, t)
<1>1. IsFiniteSet(DOMAIN t)
  BY SlotsType, TableFinite
<1>2. DOMAIN d = DOMAIN c \cup {h} /\ d[h].ref = 0 /\ \A g \in DOMAIN c : d[g] = c[g]
  BY DEF Insert
<1>3. ASSUME NEW g \in DOMAIN t PROVE t[g].scq # h /\ t[g].rcq # h
  <2>1. QpGood(t[g], g, DOMAIN s.pds, DOMAIN c)
    BY DEF State
  <2>2. CASE t[g].type = "MAX"
    BY <2>1, <2>2 DEF QpGood, Unused, NewQp, Null
  <2>3. CASE t[g].type # "MAX"
    BY <2>1, <2>3 DEF QpGood, Null
  <2> QED
    BY <2>2, <2>3
<1>4. Scqs(t, h) = 0 /\ Rcqs(t, h) = 0
  BY <1>1, <1>3, NoHolders
<1>5. \A g \in DOMAIN d : d[g].ref = Scqs(t, g) + Rcqs(t, g)
  BY <1>2, <1>4 DEF State
<1>6. \A q \in DOMAIN t : QpGood(t[q], q, DOMAIN s.pds, DOMAIN d)
  BY <1>2 DEF State, QpGood
<1> QED
  BY <1>5, <1>6 DEF State

LEMMA CqFreed ==
  ASSUME NEW s, NEW c, NEW a, NEW t, State(s, c, a, t), Table(t, QpSlots, QpRec),
         NEW h, h \in DOMAIN c, c[h].ref = 0, NEW d, d = ResourceFree(c, h)
  PROVE  State(s, d, a, t)
<1>1. IsFiniteSet(DOMAIN t)
  BY SlotsType, TableFinite
<1>2. DOMAIN d = DOMAIN c \ {h} /\ \A g \in DOMAIN d : d[g] = c[g]
  BY DEF ResourceFree
<1>3. Scqs(t, h) = 0 /\ Rcqs(t, h) = 0
  <2>1. PICK i \in Nat, j \in Nat : i = Scqs(t, h) /\ j = Rcqs(t, h)
    BY SlotsType, HoldersBound
  <2>2. i + j = 0
    BY <2>1 DEF State
  <2> QED
    BY <2>1, <2>2
<1>4. \A g \in DOMAIN t : t[g].scq # h /\ t[g].rcq # h
  BY <1>1, <1>3, NoHolders
<1>5. \A g \in DOMAIN d : d[g].ref = Scqs(t, g) + Rcqs(t, g)
  BY <1>2 DEF State
<1>6. \A q \in DOMAIN t : QpGood(t[q], q, DOMAIN s.pds, DOMAIN d)
  BY <1>2, <1>4 DEF State, QpGood
<1> QED
  BY <1>5, <1>6 DEF State

-----------------------------------------------------------------------------
(* The queues of a QP, and the references their WRs hold. *)

\* The queues of qp hold the MRs of those of old and of the list p; or the same.
Longer(qp, old, p) ==
  \A g \in Nat : CountIn(HeldByQp(qp), g) = CountIn(HeldByQp(old), g) + Names(p, g)
AsLong(qp, old) ==
  \A g \in Nat : CountIn(HeldByQp(qp), g) = CountIn(HeldByQp(old), g)

LEMMA UsesFnType ==
  ASSUME NEW t, Table(t, QpSlots, QpRec)
  PROVE  UsesFn(t) \in [Nat -> Nat]
<1>1. \A g : UsesOf(t, g) \in Nat
  BY SlotsType, UsesFinite
<1> QED
  BY <1>1 DEF UsesFn

\* What that makes of the uses of the MRs when qp replaces old.
LEMMA UsesMove ==
  ASSUME NEW t, Table(t, QpSlots, QpRec), NEW q, q \in DOMAIN t, NEW qp, qp \in QpRec,
         NEW u, u = UsesFn(t), NEW v, v = UsesFn(Replace(t, q, qp)), NEW p, p \in Seq(Nat)
  PROVE  /\ u \in [Nat -> Nat] /\ v \in [Nat -> Nat]
         /\ Longer(qp, t[q], p) => Taken(v, u, p)
         /\ Longer(t[q], qp, p) => Taken(u, v, p)
         /\ AsLong(qp, t[q]) => v = u
         /\ qp = t[q] => v = u
<1>1. t[q] \in QpRec /\ q \in 0 .. QpSlots - 1 /\ QpSlots \in Nat
  BY SlotsType DEF Table
<1>2. PICK n : n = Replace(t, q, qp)
  OBVIOUS
<1>3. Table(n, QpSlots, QpRec)
  BY <1>2, TableReplace
<1>4. \A g : UsesOf(t, g) \in Nat /\ UsesOf(n, g) \in Nat
  BY <1>1, <1>3, UsesFinite
<1>5. u \in [Nat -> Nat] /\ v \in [Nat -> Nat]
  BY <1>2, <1>4 DEF UsesFn
<1>6. ASSUME NEW g \in Nat
      PROVE  /\ u[g] = UsesOf(t, g) /\ v[g] = UsesOf(n, g) /\ Names(p, g) \in Nat
             /\ CountIn(HeldByQp(t[q]), g) \in Nat /\ CountIn(HeldByQp(qp), g) \in Nat
             /\ v[g] + CountIn(HeldByQp(t[q]), g) = u[g] + CountIn(HeldByQp(qp), g)
  <2>1. u[g] = UsesOf(t, g) /\ v[g] = UsesOf(n, g)
    BY <1>2 DEF UsesFn
  <2>2. UsesOf(n, g) + CountIn(HeldByQp(t[q]), g) = UsesOf(t, g) + CountIn(HeldByQp(qp), g)
    BY <1>1, <1>2, UsesSteps
  <2>3. CountIn(HeldByQp(t[q]), g) \in Nat /\ CountIn(HeldByQp(qp), g) \in Nat
    BY <1>1, HeldTypes, EntriesFinite
  <2>4. Names(p, g) \in Nat
    BY NamesType
  <2> QED
    BY <2>1, <2>2, <2>3, <2>4
<1>7. Longer(qp, t[q], p) => Taken(v, u, p)
  <2>1. ASSUME Longer(qp, t[q], p), NEW g \in Nat PROVE v[g] = u[g] + Names(p, g)
    <3>1. PICK i \in Nat, j \in Nat, k \in Nat, l \in Nat :
            /\ i = u[g] /\ j = v[g] /\ k = Names(p, g) /\ l = CountIn(HeldByQp(t[q]), g)
      BY <1>5, <1>6
    <3>2. CountIn(HeldByQp(qp), g) = l + k
      BY <2>1, <3>1 DEF Longer
    <3>3. j + l = i + (l + k)
      BY <1>6, <3>1, <3>2
    <3>4. j = i + k
      BY <3>3
    <3> QED
      BY <3>1, <3>4
  <2> QED
    BY <2>1 DEF Taken
<1>8. Longer(t[q], qp, p) => Taken(u, v, p)
  <2>1. ASSUME Longer(t[q], qp, p), NEW g \in Nat PROVE u[g] = v[g] + Names(p, g)
    <3>1. PICK i \in Nat, j \in Nat, k \in Nat, l \in Nat :
            /\ i = u[g] /\ j = v[g] /\ k = Names(p, g) /\ l = CountIn(HeldByQp(qp), g)
      BY <1>5, <1>6
    <3>2. CountIn(HeldByQp(t[q]), g) = l + k
      BY <2>1, <3>1 DEF Longer
    <3>3. j + (l + k) = i + l
      BY <1>6, <3>1, <3>2
    <3>4. i = j + k
      BY <3>3
    <3> QED
      BY <3>1, <3>4
  <2> QED
    BY <2>1 DEF Taken
<1>9. ASSUME AsLong(qp, t[q]) PROVE v = u
  <2>1. ASSUME NEW g \in Nat PROVE v[g] = u[g]
    <3>1. PICK i \in Nat, j \in Nat, l \in Nat :
            i = u[g] /\ j = v[g] /\ l = CountIn(HeldByQp(t[q]), g)
      BY <1>5, <1>6
    <3>2. CountIn(HeldByQp(qp), g) = l
      BY <1>9, <3>1 DEF AsLong
    <3>3. v[g] + CountIn(HeldByQp(t[q]), g) = u[g] + CountIn(HeldByQp(qp), g)
      BY <1>6
    <3>4. j + l = i + l
      BY ONLY <3>1, <3>2, <3>3
    <3>5. j = i
      BY <3>4
    <3> QED
      BY <3>1, <3>5
  <2>2. u = [g \in Nat |-> u[g]] /\ v = [g \in Nat |-> v[g]]
    BY <1>5
  <2> QED
    BY <2>1, <2>2
<1>10. qp = t[q] => AsLong(qp, t[q])
  BY DEF AsLong
<1> QED
  BY <1>5, <1>7, <1>8, <1>9, <1>10

\* A scatter list more still fits.
LEMMA UsesFit ==
  ASSUME Fits, NEW t, Table(t, QpSlots, QpRec),
         \A q \in DOMAIN t :
           Len(t[q].sq) <= MaxWrs /\ Len(t[q].rq) <= MaxWrs /\ Len(t[q].resp) <= 1,
         NEW u, u = UsesFn(t), NEW p, p \in SgeLists \cup {<<>>},
         NEW v, v \in [Nat -> Nat], Taken(v, u, p)
  PROVE  \A g \in Nat : v[g] < RefMod
<1>1. PICK l \in Nat : /\ \A s \in SgeLists : Len(s) <= l
                       /\ QpSlots * ((2 * MaxWrs + 1) * l) + l < RefMod
  BY DEF Fits
<1>2. p \in Seq(Nat) /\ QpSlots \in Nat
  BY SgesType, SlotsType
<1>3. ASSUME NEW g \in Nat PROVE v[g] < RefMod
  <2>1. UsesOf(t, g) <= QpSlots * ((2 * MaxWrs + 1) * l)
    BY <1>1, UsesBound
  <2>2. UsesOf(t, g) \in Nat
    BY <1>2, UsesFinite
  <2>3. Names(p, g) \in Nat /\ Names(p, g) <= Len(p) /\ Len(p) <= l
    <3>1. Len(p) <= l
      BY <1>1, EmptySeq
    <3> QED
      BY <1>2, <3>1, NamesType
  <2>4. Len(p) \in Nat
    BY <1>2, LenProperties
  <2>5. PICK b \in Nat : b = QpSlots * ((2 * MaxWrs + 1) * l)
    BY SlotsType
  <2>6. PICK i \in Nat, j \in Nat, k \in Nat, r \in Nat :
          i = UsesOf(t, g) /\ j = Names(p, g) /\ k = Len(p) /\ r = RefMod
    BY <2>2, <2>3, <2>4, SlotsType
  <2>7. i <= b /\ j <= k /\ k <= l /\ b + l < r
    BY <1>1, <2>1, <2>3, <2>5, <2>6
  <2>8. i + j < r
    BY <2>7
  <2>9. v[g] = u[g] + Names(p, g) /\ u[g] = UsesOf(t, g)
    BY DEF Taken, UsesFn
  <2> QED
    BY <2>6, <2>8, <2>9
<1> QED
  BY <1>3

\* The queues after each of the steps that work on them.
LEMMA RecvPosted ==
  ASSUME NEW qp, qp \in QpRec, NEW p, p \in SgeLists, NEW new, new = [qp EXCEPT !.rq = Append(@, p)]
  PROVE  new \in QpRec /\ Longer(new, qp, p) /\ new.sq = qp.sq /\ new.resp = qp.resp
         /\ Len(new.rq) = Len(qp.rq) + 1
         /\ new.type = qp.type /\ new.pd = qp.pd /\ new.scq = qp.scq /\ new.rcq = qp.rcq
<1>1. qp.rq \in Seq(SgeLists) /\ p \in Seq(Nat)
  BY SgesType DEF QpRec
<1>2. Append(qp.rq, p) \in Seq(SgeLists)
  BY <1>1, AppendProperties
<1>3. new \in QpRec
  BY <1>2, QpUpdates
<1>4. /\ new.sq = qp.sq /\ new.rq = Append(qp.rq, p) /\ new.resp = qp.resp
      /\ new.type = qp.type /\ new.pd = qp.pd /\ new.scq = qp.scq /\ new.rcq = qp.rcq
  BY DEF QpRec
<1>5. Len(new.rq) = Len(qp.rq) + 1
  BY <1>1, <1>4, AppendProperties
<1>6. HeldBySq(new) = HeldBySq(qp)
  BY <1>4 DEF HeldBySq
<1>7. ASSUME NEW g \in Nat
      PROVE  CountIn(HeldByQp(new), g) = CountIn(HeldByQp(qp), g) + Names(p, g)
  <2>1. PICK i \in Nat, j \in Nat, k \in Nat, l \in Nat :
          /\ i = CountIn(HeldBySq(qp), g) /\ j = CountIn(qp.rq, g)
          /\ k = CountIn(qp.resp, g) /\ l = Names(p, g)
    <3>1. CountIn(HeldBySq(qp), g) \in Nat /\ CountIn(qp.rq, g) \in Nat
          /\ CountIn(qp.resp, g) \in Nat
      BY HeldTypes, EntriesFinite
    <3>2. Names(p, g) \in Nat
      BY <1>1, NamesType
    <3> QED
      BY <3>1, <3>2
  <2>2. CountIn(new.rq, g) = j + l
    <3>1. new.rq = qp.rq \o <<p>>
      BY <1>1, <1>4
    <3>2. <<p>> \in Lists /\ qp.rq \in Lists
      <4>1. <<p>> \in Lists
        BY <1>1 DEF Lists
      <4>2. qp.rq \in Lists
        BY HeldTypes
      <4> QED
        BY <4>1, <4>2
    <3>3. CountIn(qp.rq \o <<p>>, g) = CountIn(qp.rq, g) + CountIn(<<p>>, g)
      BY <3>2, CountConcat
    <3>4. CountIn(<<p>>, g) = l
      BY <1>1, <2>1, CountOne
    <3> QED
      BY <2>1, <3>1, <3>3, <3>4
  <2>3. CountIn(HeldByQp(qp), g) = i + j + k
    BY <2>1, HeldCount
  <2>4. CountIn(HeldByQp(new), g) = i + (j + l) + k
    BY <1>3, <1>4, <1>6, <2>1, <2>2, HeldCount
  <2> QED
    BY <2>1, <2>3, <2>4
<1> QED
  BY <1>3, <1>4, <1>5, <1>7 DEF Longer

\* A send queue that holds more or less: what the QP holds follows.
LEMMA SqReplaced ==
  ASSUME NEW qp, qp \in QpRec, NEW sq, sq \in Seq(SendWr), NEW new, new = [qp EXCEPT !.sq = sq]
  PROVE  /\ new \in QpRec /\ new.sq = sq /\ new.rq = qp.rq /\ new.resp = qp.resp
         /\ new.type = qp.type /\ new.pd = qp.pd /\ new.scq = qp.scq /\ new.rcq = qp.rcq
         /\ \A g : /\ CountIn(HeldOf(qp.sq), g) \in Nat /\ CountIn(HeldOf(sq), g) \in Nat
                   /\ CountIn(HeldByQp(qp), g) \in Nat
                   /\ CountIn(HeldByQp(new), g) + CountIn(HeldOf(qp.sq), g)
                        = CountIn(HeldByQp(qp), g) + CountIn(HeldOf(sq), g)
<1>1. new \in QpRec
  BY QpUpdates
<1>2. /\ new.sq = sq /\ new.rq = qp.rq /\ new.resp = qp.resp
      /\ new.type = qp.type /\ new.pd = qp.pd /\ new.scq = qp.scq /\ new.rcq = qp.rcq
  BY DEF QpRec
<1>3. HeldBySq(new) = HeldOf(sq) /\ HeldBySq(qp) = HeldOf(qp.sq)
  BY <1>2 DEF HeldBySq, HeldOf
<1>4. ASSUME NEW g
      PROVE  /\ CountIn(HeldOf(qp.sq), g) \in Nat /\ CountIn(HeldOf(sq), g) \in Nat
             /\ CountIn(HeldByQp(qp), g) \in Nat
             /\ CountIn(HeldByQp(new), g) + CountIn(HeldOf(qp.sq), g)
                  = CountIn(HeldByQp(qp), g) + CountIn(HeldOf(sq), g)
  <2>1. PICK i \in Nat, j \in Nat, k \in Nat, l \in Nat :
          /\ i = CountIn(HeldOf(qp.sq), g) /\ j = CountIn(qp.rq, g)
          /\ k = CountIn(qp.resp, g) /\ l = CountIn(HeldOf(sq), g)
    <3>1. CountIn(HeldBySq(qp), g) \in Nat /\ CountIn(qp.rq, g) \in Nat
          /\ CountIn(qp.resp, g) \in Nat
      BY HeldTypes, EntriesFinite
    <3>2. CountIn(HeldOf(sq), g) \in Nat
      BY HeldOfType, EntriesFinite
    <3> QED
      BY <1>3, <3>1, <3>2
  <2>2. CountIn(HeldByQp(qp), g) = i + j + k
    BY <1>3, <2>1, HeldCount
  <2>3. CountIn(HeldByQp(new), g) = l + j + k
    BY <1>1, <1>2, <1>3, <2>1, HeldCount
  <2> QED
    BY <2>1, <2>2, <2>3
<1> QED
  BY <1>1, <1>2, <1>4

\* roce_post_send: a WR that got its MRs holds them, one that failed does not.
LEMMA SendPosted ==
  ASSUME "local_sges" \notin Calls, NEW qp, qp \in QpRec, NEW wr, wr \in SendWr,
         NEW new, new = [qp EXCEPT !.sq = CompleteHead(Append(@, wr))]
  PROVE  /\ new \in QpRec
         /\ Len(new.sq) <= Len(qp.sq) + 1 /\ (new.sq # <<>> => ~Head(new.sq).error)
         /\ new.rq = qp.rq /\ new.resp = qp.resp
         /\ new.type = qp.type /\ new.pd = qp.pd /\ new.scq = qp.scq /\ new.rcq = qp.rcq
         /\ ~wr.error => Longer(new, qp, wr.sges)
         /\ wr.error => AsLong(new, qp)
<1>1. PICK p, all, sq : p = wr.sges /\ all = Append(qp.sq, wr) /\ sq = CompleteHead(all)
  OBVIOUS
<1>2. wr \in SendWr /\ qp.sq \in Seq(SendWr) /\ p \in Seq(Nat)
  BY <1>1, SgesType DEF SendWr, QpRec
<1>3. all \in Seq(SendWr) /\ Len(all) = Len(qp.sq) + 1 /\ all = qp.sq \o <<wr>>
      /\ <<wr>> \in Seq(SendWr)
  <2>1. all \in Seq(SendWr) /\ Len(all) = Len(qp.sq) + 1
    BY <1>1, <1>2, AppendProperties
  <2>2. all = qp.sq \o <<wr>> /\ <<wr>> \in Seq(SendWr)
    BY ONLY <1>1, <1>2
  <2> QED
    BY <2>1, <2>2
<1>4. /\ sq \in Seq(SendWr) /\ Len(sq) <= Len(all) /\ (sq # <<>> => ~Head(sq).error)
      /\ \A m : CountIn(HeldOf(sq), m) = CountIn(HeldOf(all), m)
  BY <1>1, <1>3, CompleteHeadIs
<1>5. new = [qp EXCEPT !.sq = sq]
  BY <1>1
<1>6. /\ new \in QpRec /\ new.sq = sq /\ new.rq = qp.rq /\ new.resp = qp.resp
      /\ new.type = qp.type /\ new.pd = qp.pd /\ new.scq = qp.scq /\ new.rcq = qp.rcq
      /\ \A g : /\ CountIn(HeldOf(qp.sq), g) \in Nat /\ CountIn(HeldOf(sq), g) \in Nat
                /\ CountIn(HeldByQp(qp), g) \in Nat
                /\ CountIn(HeldByQp(new), g) + CountIn(HeldOf(qp.sq), g)
                     = CountIn(HeldByQp(qp), g) + CountIn(HeldOf(sq), g)
  <2>1. sq \in Seq(SendWr)
    BY <1>4
  <2> QED
    BY ONLY qp \in QpRec, <2>1, <1>5, SqReplaced
<1>7. \A g : CountIn(HeldOf(sq), g) = CountIn(HeldOf(qp.sq), g) + CountIn(HeldOf(<<wr>>), g)
  <2>1. HeldOf(all) = HeldOf(qp.sq) \o HeldOf(<<wr>>)
    BY <1>2, <1>3, HeldOfConcat
  <2>2. HeldOf(qp.sq) \in Lists /\ HeldOf(<<wr>>) \in Lists
    BY <1>2, <1>3, HeldOfType
  <2>3. \A g : CountIn(HeldOf(qp.sq) \o HeldOf(<<wr>>), g)
                 = CountIn(HeldOf(qp.sq), g) + CountIn(HeldOf(<<wr>>), g)
    BY <2>2, CountConcat
  <2> QED
    BY <1>4, <2>1, <2>3
<1>8. <<wr>>[1] = wr /\ Len(<<wr>>) = 1
  OBVIOUS
<1>9. ASSUME ~wr.error PROVE Longer(new, qp, p)
  <2>1. HeldOf(<<wr>>) = <<p>>
    <3>1. ~wr.error /\ wr.sges = p
      BY <1>1, <1>9
    <3>2. HeldOf(<<wr>>) = [i \in 1 .. 1 |-> p]
      BY <1>8, <3>1 DEF HeldOf
    <3> QED
      BY <3>2
  <2>2. ASSUME NEW g \in Nat
        PROVE  CountIn(HeldByQp(new), g) = CountIn(HeldByQp(qp), g) + Names(p, g)
    <3>1. PICK i \in Nat, j \in Nat, k \in Nat :
            /\ i = CountIn(HeldOf(qp.sq), g) /\ j = CountIn(HeldByQp(qp), g) /\ k = Names(p, g)
      BY <1>2, <1>6, NamesType
    <3>2. CountIn(HeldOf(<<wr>>), g) = k
      BY <1>2, <2>1, <3>1, CountOne
    <3>3. CountIn(HeldOf(sq), g) = i + k
      BY <1>7, <3>1, <3>2
    <3>4. CountIn(HeldByQp(new), g) + i = j + (i + k)
      BY <1>6, <3>1, <3>3
    <3>5. PICK l \in Nat : l = CountIn(HeldByQp(new), g)
      BY <1>6, HeldTypes, EntriesFinite
    <3>6. l + i = j + (i + k)
      BY <3>4, <3>5
    <3>7. l = j + k
      BY <3>6
    <3> QED
      BY <3>1, <3>5, <3>7
  <2> QED
    BY <2>2 DEF Longer
<1>10. ASSUME wr.error PROVE AsLong(new, qp)
  <2>1. \A i \in 1 .. Len(<<wr>>) : <<wr>>[i].error \/ <<wr>>[i].sges = <<>>
    <3>1. wr.error
      BY <1>10
    <3> QED
      BY <1>8, <3>1
  <2>2. ASSUME NEW g \in Nat PROVE CountIn(HeldByQp(new), g) = CountIn(HeldByQp(qp), g)
    <3>1. PICK i \in Nat, j \in Nat :
            i = CountIn(HeldOf(qp.sq), g) /\ j = CountIn(HeldByQp(qp), g)
      BY <1>6
    <3>2. CountIn(HeldOf(<<wr>>), g) = 0
      BY <1>3, <2>1, HeldOfFailed
    <3>3. CountIn(HeldOf(sq), g) = i
      BY <1>7, <3>1, <3>2
    <3>4. CountIn(HeldByQp(new), g) + i = j + i
      BY <1>6, <3>1, <3>3
    <3>5. PICK k \in Nat : k = CountIn(HeldByQp(new), g)
      BY <1>6, HeldTypes, EntriesFinite
    <3>6. k + i = j + i
      BY <3>4, <3>5
    <3>7. k = j
      BY <3>6
    <3> QED
      BY <3>1, <3>5, <3>7
  <2> QED
    BY <2>2 DEF AsLong
<1> QED
  BY <1>1, <1>3, <1>4, <1>6, <1>9, <1>10

LEMMA HeadThenTail ==
  ASSUME NEW S, NEW s \in Seq(S), s # <<>>
  PROVE  /\ Head(s) \in S /\ Tail(s) \in Seq(S) /\ Len(Tail(s)) = Len(s) - 1
         /\ <<Head(s)>> \in Seq(S) /\ s = <<Head(s)>> \o Tail(s)
<1>1. PICK h, r : h = Head(s) /\ r = Tail(s)
  OBVIOUS
<1>2. h \in S /\ r \in Seq(S) /\ Len(r) = Len(s) - 1 /\ h = s[1]
      /\ \A i \in 1 .. Len(r) : r[i] = s[i + 1]
  BY <1>1, HeadTailProperties
<1>3. PICK n \in Nat : n = Len(s) /\ n > 0
  BY LenProperties, EmptySeq
<1>4. <<h>> \in Seq(S) /\ Len(<<h>>) = 1 /\ <<h>>[1] = h
  BY <1>2
<1>5. PICK c : c = <<h>> \o r
  OBVIOUS
<1>6. c \in Seq(S) /\ Len(c) = n /\ \A i \in 1 .. n : c[i] = IF i <= 1 THEN h ELSE r[i - 1]
  BY <1>2, <1>3, <1>4, <1>5, ConcatProperties
<1>7. ASSUME NEW i \in 1 .. n PROVE c[i] = s[i]
  <2>1. CASE i = 1
    BY <1>2, <1>6, <2>1
  <2>2. CASE i # 1
    <3>1. i - 1 \in 1 .. Len(r) /\ (i - 1) + 1 = i
      BY <1>2, <1>3, <2>2
    <3>2. r[i - 1] = s[(i - 1) + 1]
      BY <1>2, <3>1
    <3>3. c[i] = r[i - 1]
      BY <1>6, <2>2
    <3> QED
      BY <3>1, <3>2, <3>3
  <2> QED
    BY <2>1, <2>2
<1>8. c = s
  BY <1>3, <1>6, <1>7, SeqEqual
<1> QED
  BY <1>1, <1>2, <1>4, <1>5, <1>8

\* An ACK: the first WR, which has not failed, no longer holds its MRs.
LEMMA SendCompleted ==
  ASSUME "local_sges" \notin Calls, NEW qp, qp \in QpRec, qp.sq # <<>>, ~Head(qp.sq).error,
         NEW new, new = [qp EXCEPT !.sq = CompleteHead(Tail(@))]
  PROVE  /\ new \in QpRec
         /\ Len(new.sq) <= Len(qp.sq) /\ (new.sq # <<>> => ~Head(new.sq).error)
         /\ new.rq = qp.rq /\ new.resp = qp.resp
         /\ new.type = qp.type /\ new.pd = qp.pd /\ new.scq = qp.scq /\ new.rcq = qp.rcq
         /\ Head(qp.sq).sges \in SgeLists \cup {<<>>}
         /\ Longer(qp, new, Head(qp.sq).sges)
<1>1. PICK wr, rest, sq, p :
        wr = Head(qp.sq) /\ rest = Tail(qp.sq) /\ sq = CompleteHead(rest) /\ p = wr.sges
  OBVIOUS
<1>2. qp.sq \in Seq(SendWr)
  BY DEF QpRec
<1>3. wr \in SendWr /\ rest \in Seq(SendWr) /\ Len(rest) = Len(qp.sq) - 1
  BY <1>1, <1>2, HeadThenTail
<1>4. qp.sq = <<wr>> \o rest /\ <<wr>> \in Seq(SendWr)
  BY <1>1, <1>2, HeadThenTail
<1>5. p \in SgeLists \cup {<<>>} /\ p \in Seq(Nat)
  BY <1>1, <1>3, SgesType DEF SendWr
<1>6. /\ sq \in Seq(SendWr) /\ Len(sq) <= Len(rest) /\ (sq # <<>> => ~Head(sq).error)
      /\ \A m : CountIn(HeldOf(sq), m) = CountIn(HeldOf(rest), m)
  BY <1>1, <1>3, CompleteHeadIs
<1>7. new = [qp EXCEPT !.sq = sq]
  BY <1>1
<1>8. /\ new \in QpRec /\ new.sq = sq /\ new.rq = qp.rq /\ new.resp = qp.resp
      /\ new.type = qp.type /\ new.pd = qp.pd /\ new.scq = qp.scq /\ new.rcq = qp.rcq
      /\ \A g : /\ CountIn(HeldOf(qp.sq), g) \in Nat /\ CountIn(HeldOf(sq), g) \in Nat
                /\ CountIn(HeldByQp(qp), g) \in Nat
                /\ CountIn(HeldByQp(new), g) + CountIn(HeldOf(qp.sq), g)
                     = CountIn(HeldByQp(qp), g) + CountIn(HeldOf(sq), g)
  <2>1. sq \in Seq(SendWr)
    BY <1>6
  <2> QED
    BY ONLY qp \in QpRec, <2>1, <1>7, SqReplaced
<1>9. \A g : CountIn(HeldOf(qp.sq), g) = CountIn(HeldOf(<<wr>>), g) + CountIn(HeldOf(sq), g)
  <2>1. HeldOf(qp.sq) = HeldOf(<<wr>>) \o HeldOf(rest)
    BY <1>3, <1>4, HeldOfConcat
  <2>2. HeldOf(rest) \in Lists /\ HeldOf(<<wr>>) \in Lists
    BY <1>3, <1>4, HeldOfType
  <2>3. \A g : CountIn(HeldOf(<<wr>>) \o HeldOf(rest), g)
                 = CountIn(HeldOf(<<wr>>), g) + CountIn(HeldOf(rest), g)
    BY <2>2, CountConcat
  <2> QED
    BY <1>6, <2>1, <2>3
<1>10. HeldOf(<<wr>>) = <<p>>
  <2>1. ~wr.error /\ wr.sges = p
    BY <1>1
  <2>2. <<wr>>[1] = wr /\ Len(<<wr>>) = 1
    OBVIOUS
  <2>3. HeldOf(<<wr>>) = [i \in 1 .. 1 |-> p]
    BY <2>1, <2>2 DEF HeldOf
  <2> QED
    BY <2>3
<1>11. ASSUME NEW g \in Nat
       PROVE  CountIn(HeldByQp(qp), g) = CountIn(HeldByQp(new), g) + Names(p, g)
  <2>1. PICK i \in Nat, j \in Nat, k \in Nat, l \in Nat :
          /\ i = CountIn(HeldOf(sq), g) /\ j = CountIn(HeldByQp(qp), g)
          /\ k = Names(p, g) /\ l = CountIn(HeldByQp(new), g)
    <3>1. CountIn(HeldOf(sq), g) \in Nat /\ CountIn(HeldByQp(qp), g) \in Nat
      BY <1>8
    <3>2. Names(p, g) \in Nat
      BY <1>5, NamesType
    <3>3. CountIn(HeldByQp(new), g) \in Nat
      BY <1>8, HeldTypes, EntriesFinite
    <3> QED
      BY <3>1, <3>2, <3>3
  <2>2. CountIn(HeldOf(<<wr>>), g) = k
    BY <1>5, <1>10, <2>1, CountOne
  <2>3. CountIn(HeldOf(qp.sq), g) = k + i
    BY <1>9, <2>1, <2>2
  <2>4. CountIn(HeldByQp(new), g) + CountIn(HeldOf(qp.sq), g)
          = CountIn(HeldByQp(qp), g) + CountIn(HeldOf(sq), g)
    BY <1>8
  <2>5. l + (k + i) = j + i
    BY <2>1, <2>3, <2>4
  <2>6. j = l + k
    BY <2>5
  <2> QED
    BY <2>1, <2>6
<1>12. Longer(qp, new, p)
  BY <1>11 DEF Longer
<1>13. Len(new.sq) <= Len(qp.sq)
  <2>1. PICK i \in Nat, j \in Nat, k \in Nat : i = Len(sq) /\ j = Len(rest) /\ k = Len(qp.sq)
    BY <1>2, <1>3, <1>6, LenProperties
  <2>2. i <= j /\ j = k - 1
    BY <1>3, <1>6, <2>1
  <2> QED
    BY <1>8, <2>1, <2>2
<1> QED
  BY <1>1, <1>5, <1>6, <1>8, <1>12, <1>13

\* A packet of a SEND moves the receive WR from the queue to resp.wr, or from
\* one of them to nowhere.
LEMMA RecvMoved ==
  ASSUME NEW qp, qp \in QpRec, NEW first, first \in BOOLEAN, Len(qp.resp) <= 1,
         first => qp.rq # <<>>, first <=> qp.resp = <<>>,
         NEW wr, wr = Head(IF first THEN qp.rq ELSE qp.resp),
         NEW popped, popped = IF first THEN Tail(qp.rq) ELSE qp.rq,
         NEW done, done = [qp EXCEPT !.rq = popped, !.resp = <<>>],
         NEW kept, kept = [qp EXCEPT !.rq = popped, !.resp = <<wr>>]
  PROVE  /\ wr \in SgeLists /\ popped \in Seq(SgeLists) /\ Len(popped) <= Len(qp.rq)
         /\ done \in QpRec /\ done.sq = qp.sq /\ done.rq = popped /\ done.resp = <<>>
         /\ done.type = qp.type /\ done.pd = qp.pd /\ done.scq = qp.scq /\ done.rcq = qp.rcq
         /\ kept \in QpRec /\ kept.sq = qp.sq /\ kept.rq = popped /\ kept.resp = <<wr>>
         /\ kept.type = qp.type /\ kept.pd = qp.pd /\ kept.scq = qp.scq /\ kept.rcq = qp.rcq
         /\ Longer(qp, done, wr) /\ AsLong(kept, qp)
<1>1. qp.rq \in Seq(SgeLists) /\ qp.resp \in Seq(SgeLists) /\ <<>> \in Seq(SgeLists)
  BY EmptySeq DEF QpRec
<1>2. /\ wr \in SgeLists /\ popped \in Seq(SgeLists) /\ Len(popped) <= Len(qp.rq)
      /\ \A g : CountIn(qp.rq, g) + CountIn(qp.resp, g) = CountIn(popped, g) + Names(wr, g)
  <2>1. CASE first
    <3>1. qp.rq # <<>> /\ wr = Head(qp.rq) /\ popped = Tail(qp.rq) /\ qp.resp = <<>>
      BY <2>1
    <3>2. /\ wr \in SgeLists /\ popped \in Seq(SgeLists) /\ Len(popped) = Len(qp.rq) - 1
          /\ <<wr>> \in Seq(SgeLists) /\ qp.rq = <<wr>> \o popped
      BY <1>1, <3>1, HeadThenTail
    <3>3. Len(popped) <= Len(qp.rq)
      BY <1>1, <3>2, LenProperties
    <3>4. ASSUME NEW g
          PROVE  CountIn(qp.rq, g) + CountIn(qp.resp, g) = CountIn(popped, g) + Names(wr, g)
      <4>1. <<wr>> \in Lists /\ popped \in Lists /\ wr \in Seq(Nat)
        BY <3>2, SgesType
      <4>2. PICK i \in Nat, j \in Nat : i = CountIn(popped, g) /\ j = Names(wr, g)
        BY <4>1, EntriesFinite, NamesType
      <4>3. CountIn(<<wr>> \o popped, g) = CountIn(<<wr>>, g) + CountIn(popped, g)
        BY <4>1, CountConcat
      <4>4. CountIn(<<wr>>, g) = j
        BY <4>1, <4>2, CountOne
      <4>5. CountIn(qp.rq, g) = j + i
        BY <3>2, <4>2, <4>3, <4>4
      <4>6. CountIn(qp.resp, g) = 0
        BY <3>1, CountEmpty
      <4> QED
        BY <4>2, <4>5, <4>6
    <3> QED
      BY <3>2, <3>3, <3>4
  <2>2. CASE ~first
    <3>1. qp.resp # <<>> /\ wr = Head(qp.resp) /\ popped = qp.rq
      BY <2>2
    <3>2. PICK rest : rest = Tail(qp.resp)
      OBVIOUS
    <3>3. /\ wr \in SgeLists /\ rest \in Seq(SgeLists) /\ Len(rest) = Len(qp.resp) - 1
          /\ <<wr>> \in Seq(SgeLists) /\ qp.resp = <<wr>> \o rest
      BY <1>1, <3>1, <3>2, HeadThenTail
    <3>4. Len(rest) = 0
      BY <1>1, <3>3, LenProperties
    <3>5. rest = <<>>
      BY <3>3, <3>4, EmptySeq
    <3>6. Len(popped) <= Len(qp.rq)
      BY <1>1, <3>1, LenProperties
    <3>7. ASSUME NEW g
          PROVE  CountIn(qp.rq, g) + CountIn(qp.resp, g) = CountIn(popped, g) + Names(wr, g)
      <4>1. <<wr>> \in Lists /\ rest \in Lists /\ popped \in Lists /\ wr \in Seq(Nat)
        BY <1>1, <3>1, <3>3, SgesType
      <4>2. PICK i \in Nat, j \in Nat : i = CountIn(popped, g) /\ j = Names(wr, g)
        BY <4>1, EntriesFinite, NamesType
      <4>3. CountIn(<<wr>> \o rest, g) = CountIn(<<wr>>, g) + CountIn(rest, g)
        BY <4>1, CountConcat
      <4>4. CountIn(<<wr>>, g) = j /\ CountIn(rest, g) = 0
        BY <3>5, <4>1, <4>2, CountOne, CountEmpty
      <4>5. CountIn(qp.resp, g) = j
        BY <3>3, <4>2, <4>3, <4>4
      <4> QED
        BY <3>1, <4>2, <4>5
    <3> QED
      BY <1>1, <3>1, <3>3, <3>6, <3>7
  <2> QED
    BY <2>1, <2>2
<1>3. <<wr>> \in Seq(SgeLists) /\ wr \in Seq(Nat)
  BY <1>2, SgesType
<1>4. done \in QpRec /\ kept \in QpRec
  BY <1>1, <1>2, <1>3, QpUpdates
<1>5. /\ done.sq = qp.sq /\ done.rq = popped /\ done.resp = <<>>
      /\ done.type = qp.type /\ done.pd = qp.pd /\ done.scq = qp.scq /\ done.rcq = qp.rcq
  BY DEF QpRec
<1>6. /\ kept.sq = qp.sq /\ kept.rq = popped /\ kept.resp = <<wr>>
      /\ kept.type = qp.type /\ kept.pd = qp.pd /\ kept.scq = qp.scq /\ kept.rcq = qp.rcq
  BY DEF QpRec
<1>7. HeldBySq(done) = HeldBySq(qp) /\ HeldBySq(kept) = HeldBySq(qp)
  BY <1>5, <1>6 DEF HeldBySq
<1>8. ASSUME NEW g \in Nat
      PROVE  /\ CountIn(HeldByQp(qp), g) = CountIn(HeldByQp(done), g) + Names(wr, g)
             /\ CountIn(HeldByQp(kept), g) = CountIn(HeldByQp(qp), g)
  <2>1. PICK i \in Nat, j \in Nat, k \in Nat, l \in Nat, n \in Nat :
          /\ i = CountIn(HeldBySq(qp), g) /\ j = CountIn(qp.rq, g) /\ k = CountIn(qp.resp, g)
          /\ l = CountIn(popped, g) /\ n = Names(wr, g)
    <3>1. CountIn(HeldBySq(qp), g) \in Nat /\ CountIn(qp.rq, g) \in Nat
          /\ CountIn(qp.resp, g) \in Nat
      BY HeldTypes, EntriesFinite
    <3>2. popped \in Lists
      BY <1>2, SgesType
    <3>3. CountIn(popped, g) \in Nat
      BY <3>2, EntriesFinite
    <3>4. Names(wr, g) \in Nat
      BY <1>3, NamesType
    <3> QED
      BY <3>1, <3>3, <3>4
  <2>2. CountIn(qp.rq, g) + CountIn(qp.resp, g) = CountIn(popped, g) + Names(wr, g)
    BY <1>2
  <2>3. j + k = l + n
    BY <2>1, <2>2
  <2>4. CountIn(HeldByQp(qp), g) = i + j + k
    BY <2>1, HeldCount
  <2>5. CountIn(HeldByQp(done), g) = i + l + 0
    <3>1. CountIn(HeldByQp(done), g)
            = CountIn(HeldBySq(done), g) + CountIn(done.rq, g) + CountIn(done.resp, g)
      BY <1>4, HeldCount
    <3>2. CountIn(done.resp, g) = 0
      BY <1>5, CountEmpty
    <3> QED
      BY <1>5, <1>7, <2>1, <3>1, <3>2
  <2>6. CountIn(HeldByQp(kept), g) = i + l + n
    <3>1. CountIn(HeldByQp(kept), g)
            = CountIn(HeldBySq(kept), g) + CountIn(kept.rq, g) + CountIn(kept.resp, g)
      BY <1>4, HeldCount
    <3>2. CountIn(kept.resp, g) = n
      BY <1>3, <1>6, <2>1, CountOne
    <3> QED
      BY <1>6, <1>7, <2>1, <3>1, <3>2
  <2>7. i + j + k = (i + l + 0) + n /\ i + l + n = i + j + k
    <3>1. i + j + k = i + (l + n)
      BY ONLY <2>3, i \in Nat, j \in Nat, k \in Nat, l \in Nat, n \in Nat
    <3> QED
      BY ONLY <3>1, i \in Nat, j \in Nat, k \in Nat, l \in Nat, n \in Nat
  <2> QED
    BY <2>1, <2>4, <2>5, <2>6, <2>7
<1>9. Longer(qp, done, wr) /\ AsLong(kept, qp)
  BY <1>8 DEF Longer, AsLong
<1> QED
  BY <1>2, <1>4, <1>5, <1>6, <1>9

-----------------------------------------------------------------------------
(* Every step preserves the invariant. *)

GsiFresh(g, t) == ~g.used /\ g.handle = Gsi => Gsi \in DOMAIN t /\ t[Gsi] = Unused

LEMMA Reached ==
  ASSUME ResTypes', crash' # "put_pd", GsiFresh(gsi', qps'),
         NEW s, NEW c, NEW a, NEW t, State(s, c, a, t),
         mrs' = s.mrs, pds' = s.pds, cqs' = c, ahs' = a, qps' = t
  PROVE  RefsInv'
<1>1. TablesType(s) /\ s.ok = TRUE
  BY DEF State, GoodTables
<1>2. s = [mrs |-> s.mrs, pds |-> s.pds, ok |-> TRUE]
  BY <1>1 DEF TablesType
<1>3. Tables' = s
  BY <1>2 DEF Tables
<1>4. State(Tables', cqs', ahs', qps')
  BY <1>3
<1> QED
  BY <1>4 DEF RefsInv, GsiFresh

\* What the invariant says of the tables as they are.
LEMMA RefsNow ==
  ASSUME RefsInv
  PROVE  /\ ResTypes /\ State(Tables, cqs, ahs, qps) /\ GsiFresh(gsi, qps)
         /\ GoodTables(Tables, UsesFn(qps), HoldFn(ahs, qps))
         /\ Tables.mrs = mrs /\ Tables.pds = pds
         /\ Table(pds, PdSlots, PdRec) /\ Table(cqs, CqSlots, PdRec)
         /\ Table(ahs, AhSlots, AhRec) /\ Table(mrs, MrSlots, MrRec)
         /\ Table(qps, QpSlots, QpRec)
         /\ \A q \in DOMAIN qps : QpGood(qps[q], q, DOMAIN pds, DOMAIN cqs)
<1>1. Tables.mrs = mrs /\ Tables.pds = pds
  BY DEF Tables
<1>2. ResTypes /\ State(Tables, cqs, ahs, qps) /\ GsiFresh(gsi, qps)
  BY DEF RefsInv, GsiFresh
<1>3. GoodTables(Tables, UsesFn(qps), HoldFn(ahs, qps))
      /\ \A q \in DOMAIN qps : QpGood(qps[q], q, DOMAIN Tables.pds, DOMAIN cqs)
  BY <1>2 DEF State
<1> QED
  BY <1>1, <1>2, <1>3 DEF ResTypes

\* A step that changes no table.
LEMMA RefsSame ==
  ASSUME RefsInv, ResTypes', crash' # "put_pd",
         UNCHANGED <<pds, cqs, ahs, mrs, qps, gsi>>
  PROVE  RefsInv'
<1>1. Tables' = Tables /\ cqs' = cqs /\ ahs' = ahs /\ qps' = qps /\ gsi' = gsi
  BY DEF Tables
<1>2. State(Tables', cqs', ahs', qps')
  BY <1>1 DEF RefsInv
<1> QED
  BY <1>1, <1>2 DEF RefsInv

\* A step that changes the queues of a QP, and the MRs with them.
LEMMA BecomesGood ==
  ASSUME RefsInv, crash # "put_pd", NEW q \in DOMAIN qps, qps[q] # Unused, NEW qp \in QpRec,
         qp.pd = qps[q].pd, qp.scq = qps[q].scq, qp.rcq = qps[q].rcq,
         QpGood(qp, q, DOMAIN pds, DOMAIN cqs),
         NEW r, GoodTables(r, UsesFn(Replace(qps, q, qp)), HoldFn(ahs, qps)),
         DOMAIN r.pds = DOMAIN pds,
         Becomes(r, q, qp), UNCHANGED <<cqs, ahs, gsi>>
  PROVE  RefsInv'
<1>1. /\ ResTypes /\ State(Tables, cqs, ahs, qps) /\ GsiFresh(gsi, qps)
      /\ Table(qps, QpSlots, QpRec) /\ Tables.pds = pds
  BY RefsNow
<1>2. PICK n, v : n = Replace(qps, q, qp) /\ v = UsesFn(n)
  OBVIOUS
<1>3. /\ TablesType(r) /\ r.ok = TRUE
  BY DEF GoodTables
<1>4. mrs' = r.mrs /\ pds' = r.pds /\ qps' = n /\ crash' = crash
  BY <1>2, <1>3 DEF Becomes, Replace
<1>5. ResTypes'
  BY <1>1, <1>3, BecomesType
<1>6. \A g \in Nat : v[g] + CountIn(HeldByQp(qps[q]), g)
                       = UsesOf(qps, g) + CountIn(HeldByQp(qp), g)
  <2>1. QpSlots \in Nat /\ q \in 0 .. QpSlots - 1
    BY <1>1, SlotsType DEF Table
  <2>2. \A g \in Nat : UsesOf(n, g) + CountIn(HeldByQp(qps[q]), g)
                         = UsesOf(qps, g) + CountIn(HeldByQp(qp), g)
    BY <1>1, <1>2, <2>1, UsesSteps
  <2> QED
    BY <1>2, <2>2 DEF UsesFn
<1>7. State(r, cqs, ahs, n)
  <2>1. QpGood(qp, q, DOMAIN Tables.pds, DOMAIN cqs)
    BY <1>1
  <2>2. DOMAIN r.pds = DOMAIN Tables.pds /\ GoodTables(r, v, HoldFn(ahs, qps))
    BY <1>1, <1>2
  <2>3. State(Tables, cqs, ahs, qps) /\ Table(qps, QpSlots, QpRec) /\ q \in DOMAIN qps
        /\ qp \in QpRec /\ qp.pd = qps[q].pd /\ qp.scq = qps[q].scq /\ qp.rcq = qps[q].rcq
        /\ n = Replace(qps, q, qp)
    BY <1>1, <1>2
  <2> QED
    BY ONLY <1>6, <2>1, <2>2, <2>3, QpReplaced
<1>8. GsiFresh(gsi', qps')
  <2>1. Gsi = q => qps[Gsi] # Unused
    OBVIOUS
  <2>2. DOMAIN n = DOMAIN qps /\ \A g \in DOMAIN qps \ {q} : n[g] = qps[g]
    BY <1>2, ReplaceIs
  <2> QED
    BY <1>1, <1>4, <2>1, <2>2 DEF GsiFresh
<1>9. cqs' = cqs /\ ahs' = ahs /\ crash' # "put_pd"
  BY <1>4
<1> QED
  BY <1>4, <1>5, <1>7, <1>8, <1>9, Reached

\* roce_get_mrs takes the references of all the MRs of a list or of none.
LEMMA MrsTaken ==
  ASSUME RefsInv, Fits, NEW p, p \in SgeLists \cup {<<>>}, NEW u, u = UsesFn(qps),
         NEW v, v \in [Nat -> Nat], Taken(v, u, p),
         NEW x, x = HoldFn(ahs, qps), NEW s, s = GetMrs(Tables, p)
  PROVE  /\ DOMAIN s.pds = DOMAIN pds
         /\ FoundPrefix(Tables, p) = p => GoodTables(s, v, x)
         /\ FoundPrefix(Tables, p) # p => GoodTables(s, u, x)
<1>1. PICK s0 : s0 = Tables
  OBVIOUS
<1>2. GoodTables(s0, u, x) /\ s0.pds = pds /\ Table(qps, QpSlots, QpRec)
  BY <1>1, RefsNow
<1>3. \A q \in DOMAIN qps :
        Len(qps[q].sq) <= MaxWrs /\ Len(qps[q].rq) <= MaxWrs /\ Len(qps[q].resp) <= 1
  BY RefsNow DEF QpGood
<1>4. \A g \in Nat : v[g] < RefMod
  BY ONLY Fits, p \in SgeLists \cup {<<>>}, u = UsesFn(qps), v \in [Nat -> Nat], Taken(v, u, p),
          <1>2, <1>3, UsesFit
<1>5. p \in Seq(Nat)
  BY SgesType
<1>6. /\ DOMAIN GetMrs(s0, p).pds = DOMAIN s0.pds
      /\ FoundPrefix(s0, p) = p => GoodTables(GetMrs(s0, p), v, x)
      /\ FoundPrefix(s0, p) # p => GoodTables(GetMrs(s0, p), u, x)
  BY ONLY v \in [Nat -> Nat], Taken(v, u, p), <1>2, <1>4, <1>5, GetMrsGood
<1> QED
  BY <1>1, <1>2, <1>6

LEMMA PostRecvGood ==
  ASSUME RefsInv, Fits, "recv_key" \notin Calls, NEW q, q \in DOMAIN qps, NEW sges, sges \in SgeLists,
         PostRecv(q, sges)
  PROVE  RefsInv'
<1>1. PICK old, qp, s, v :
        /\ old = qps[q] /\ qp = [old EXCEPT !.rq = Append(@, sges)]
        /\ s = GetMrs(Tables, sges) /\ v = UsesFn(Replace(qps, q, qp))
  OBVIOUS
<1>2. /\ Table(qps, QpSlots, QpRec) /\ QpGood(old, q, DOMAIN pds, DOMAIN cqs) /\ old \in QpRec
      /\ sges \in Seq(Nat)
  BY <1>1, RefsNow, SgesType DEF Table
<1>3. /\ crash = "none" /\ old.type # "MAX" /\ Len(old.rq) < MaxWrs
      /\ FoundPrefix(Tables, sges) = sges /\ Becomes(s, q, qp) /\ UNCHANGED <<cqs, ahs, gsi>>
  BY <1>1 DEF PostRecv
<1>4. /\ qp \in QpRec /\ Longer(qp, old, sges) /\ qp.sq = old.sq /\ qp.resp = old.resp
      /\ Len(qp.rq) = Len(old.rq) + 1
      /\ qp.type = old.type /\ qp.pd = old.pd /\ qp.scq = old.scq /\ qp.rcq = old.rcq
  BY <1>1, <1>2, RecvPosted
<1>5. Len(qp.rq) <= MaxWrs
  <2>1. PICK i \in Nat, j \in Nat : i = Len(old.rq) /\ j = MaxWrs
    BY <1>2, SlotsType, LenProperties DEF QpRec
  <2> QED
    BY <1>3, <1>4, <2>1
<1>6. QpGood(qp, q, DOMAIN pds, DOMAIN cqs)
  BY <1>2, <1>3, <1>4, <1>5 DEF QpGood
<1>7. v \in [Nat -> Nat] /\ Taken(v, UsesFn(qps), sges)
  <2>1. PICK t, u : t = qps /\ u = UsesFn(t)
    OBVIOUS
  <2>2. /\ Table(t, QpSlots, QpRec) /\ q \in DOMAIN t /\ qp \in QpRec
        /\ v = UsesFn(Replace(t, q, qp)) /\ sges \in Seq(Nat)
    BY <1>1, <1>2, <1>4, <2>1
  <2>3. Longer(qp, t[q], sges)
    BY <1>1, <1>4, <2>1
  <2>4. v \in [Nat -> Nat] /\ (Longer(qp, t[q], sges) => Taken(v, u, sges))
    BY ONLY <2>1, <2>2, UsesMove
  <2> QED
    BY <2>1, <2>3, <2>4
<1>8. GoodTables(s, v, HoldFn(ahs, qps)) /\ DOMAIN s.pds = DOMAIN pds
  BY <1>1, <1>3, <1>7, MrsTaken
<1>9. qps[q] # Unused /\ crash # "put_pd"
  BY <1>1, <1>3 DEF Unused, NewQp
<1> QED
  BY <1>1, <1>3, <1>4, <1>6, <1>8, <1>9, BecomesGood

LEMMA PostSendRcGood ==
  ASSUME RefsInv, Fits, "local_sges" \notin Calls, NEW q, q \in DOMAIN qps,
         NEW sges, sges \in SgeLists \cup {<<>>}, NEW local, local \in BOOLEAN,
         PostSendRc(q, sges, local)
  PROVE  RefsInv'
<1>1. PICK old, known, wr, qp, s, v :
        /\ old = qps[q] /\ known = (FoundPrefix(Tables, sges) = sges)
        /\ wr = [sges |-> sges, error |-> ~known, local |-> local]
        /\ qp = [old EXCEPT !.sq = CompleteHead(Append(@, wr))]
        /\ s = GetMrs(Tables, sges) /\ v = UsesFn(Replace(qps, q, qp))
  OBVIOUS
<1>2. /\ Table(qps, QpSlots, QpRec) /\ QpGood(old, q, DOMAIN pds, DOMAIN cqs) /\ old \in QpRec
      /\ sges \in Seq(Nat) /\ ResTypes
  BY <1>1, RefsNow, SgesType DEF Table
<1>3. /\ crash = "none" /\ old.type = "RC" /\ Len(old.sq) < MaxWrs /\ known \in BOOLEAN
      /\ UNCHANGED <<cqs, ahs, gsi>>
  BY <1>1 DEF PostSendRc
<1>4. CASE known /\ ~local /\ ~Mappable(qps[q], sges)
  <2>1. crash' = "map_pages" /\ UNCHANGED <<pds, cqs, ahs, mrs, qps, gsi>>
    BY <1>1, <1>4 DEF PostSendRc
  <2>2. ResTypes'
    BY <1>2, PostTypes
  <2> QED
    BY <2>1, <2>2, RefsSame
<1>5. CASE ~(known /\ ~local /\ ~Mappable(qps[q], sges))
  <2>1. Becomes(s, q, qp)
    BY <1>1, <1>5 DEF PostSendRc
  <2>2. /\ qp \in QpRec
        /\ Len(qp.sq) <= Len(old.sq) + 1 /\ (qp.sq # <<>> => ~Head(qp.sq).error)
        /\ qp.rq = old.rq /\ qp.resp = old.resp
        /\ qp.type = old.type /\ qp.pd = old.pd /\ qp.scq = old.scq /\ qp.rcq = old.rcq
        /\ known => Longer(qp, old, sges)
        /\ ~known => AsLong(qp, old)
    <3>1. qp = [old EXCEPT !.sq = CompleteHead(Append(@, wr))] /\ old \in QpRec
      BY <1>1, <1>2
    <3>2. wr \in SendWr /\ wr.sges = sges /\ wr.error = ~known
      <4>1. local => sges = <<>>
        BY DEF PostSendRc
      <4> QED
        BY <1>1, <1>3, <4>1 DEF SendWr
    <3>3. /\ qp \in QpRec /\ qp.rq = old.rq /\ qp.resp = old.resp
          /\ qp.type = old.type /\ qp.pd = old.pd /\ qp.scq = old.scq /\ qp.rcq = old.rcq
      BY ONLY <3>1, <3>2, "local_sges" \notin Calls, SendPosted
    <3>4. Len(qp.sq) <= Len(old.sq) + 1
      BY ONLY <3>1, <3>2, "local_sges" \notin Calls, SendPosted
    <3>5. qp.sq # <<>> => ~Head(qp.sq).error
      BY ONLY <3>1, <3>2, "local_sges" \notin Calls, SendPosted
    <3>6. ~wr.error => Longer(qp, old, wr.sges)
      BY ONLY <3>1, <3>2, "local_sges" \notin Calls, SendPosted
    <3>7. wr.error => AsLong(qp, old)
      BY ONLY <3>1, <3>2, "local_sges" \notin Calls, SendPosted
    <3> QED
      BY <1>3, <3>2, <3>3, <3>4, <3>5, <3>6, <3>7
  <2>3. Len(qp.sq) <= MaxWrs
    <3>1. PICK i \in Nat, j \in Nat, k \in Nat : i = Len(old.sq) /\ j = MaxWrs /\ k = Len(qp.sq)
      BY <1>2, <2>2, SlotsType, LenProperties DEF QpRec
    <3> QED
      BY <1>3, <2>2, <3>1
  <2>4. QpGood(qp, q, DOMAIN pds, DOMAIN cqs)
    BY <1>2, <1>3, <2>2, <2>3 DEF QpGood
  <2>5. PICK u : u = UsesFn(qps)
    OBVIOUS
  <2>6. /\ u \in [Nat -> Nat] /\ v \in [Nat -> Nat]
        /\ known => Taken(v, u, sges)
        /\ ~known => v = u
    <3>1. PICK t : t = qps
      OBVIOUS
    <3>2. /\ Table(t, QpSlots, QpRec) /\ q \in DOMAIN t /\ qp \in QpRec /\ u = UsesFn(t)
          /\ v = UsesFn(Replace(t, q, qp)) /\ sges \in Seq(Nat)
      BY <1>1, <1>2, <2>2, <2>5, <3>1
    <3>3. u \in [Nat -> Nat] /\ v \in [Nat -> Nat]
      <4>1. u \in [Nat -> Nat]
        BY ONLY <3>2, UsesFnType
      <4>2. v \in [Nat -> Nat]
        BY ONLY <3>2, UsesMove
      <4> QED
        BY <4>1, <4>2
    <3>4. Longer(qp, t[q], sges) => Taken(v, u, sges)
      BY ONLY <3>2, UsesMove
    <3>5. AsLong(qp, t[q]) => v = u
      BY ONLY <3>2, UsesMove
    <3> QED
      BY <1>1, <2>2, <3>1, <3>3, <3>4, <3>5
  <2>7. PICK w : w = [g \in Nat |-> u[g] + Names(sges, g)]
    OBVIOUS
  <2>8. w \in [Nat -> Nat] /\ Taken(w, u, sges)
    <3>1. \A g \in Nat : Names(sges, g) \in Nat
      <4>1. sges \in Seq(Nat)
        BY <1>2
      <4> QED
        BY ONLY <4>1, NamesType
    <3>2. u \in [Nat -> Nat]
      BY <2>6
    <3> QED
      BY ONLY <2>7, <3>1, <3>2 DEF Taken
  <2>9. /\ DOMAIN s.pds = DOMAIN pds
        /\ ~known => GoodTables(s, u, HoldFn(ahs, qps))
    BY <1>1, <2>5, <2>8, MrsTaken
  <2>10. known => GoodTables(s, v, HoldFn(ahs, qps))
    BY <1>1, <2>5, <2>6, MrsTaken
  <2>11. GoodTables(s, v, HoldFn(ahs, qps))
    BY <1>3, <2>6, <2>9, <2>10
  <2>12. qps[q] # Unused /\ crash # "put_pd"
    BY <1>1, <1>3 DEF Unused, NewQp
  <2> QED
    BY <1>1, <1>3, <2>1, <2>2, <2>4, <2>9, <2>11, <2>12, BecomesGood
<1> QED
  BY <1>4, <1>5

LEMMA PostSendUdGood ==
  ASSUME RefsInv, Fits, NEW q, q \in DOMAIN qps, NEW sges, sges \in SgeLists,
         NEW ah, ah \in 0 .. AhSlots, NEW fits, fits \in BOOLEAN, PostSendUd(q, sges, ah, fits)
  PROVE  RefsInv'
<1>1. PICK qp, known, s, u, v, x, r :
        /\ qp = qps[q] /\ known = (FoundPrefix(Tables, sges) = sges)
        /\ s = GetMrs(Tables, sges) /\ u = UsesFn(qps)
        /\ v = [g \in Nat |-> u[g] + Names(sges, g)] /\ x = HoldFn(ahs, qps)
        /\ r = IF known THEN PutMrs(s, sges) ELSE s
  OBVIOUS
<1>2. /\ Table(qps, QpSlots, QpRec) /\ QpGood(qp, q, DOMAIN pds, DOMAIN cqs) /\ qp \in QpRec
      /\ sges \in Seq(Nat) /\ ResTypes /\ Table(ahs, AhSlots, AhRec)
  BY <1>1, RefsNow, SgesType DEF Table
<1>3. crash = "none" /\ qp.type \in {"UD", "GSI"} /\ cqs' = cqs /\ gsi' = gsi
  BY <1>1 DEF PostSendUd
<1>4. ahs' = ahs
  BY <1>2, RefRecords, PutGet DEF PostSendUd
<1>5. CASE known /\ fits /\ Found(ahs, ah) /\ ~Mappable(qps[q], sges)
  <2>1. crash' = "map_pages" /\ UNCHANGED <<pds, cqs, ahs, mrs, qps, gsi>>
    BY <1>1, <1>3, <1>4, <1>5 DEF PostSendUd
  <2>2. ResTypes'
    BY <1>2, PostTypes
  <2> QED
    BY <2>1, <2>2, RefsSame
<1>6. CASE ~(known /\ fits /\ Found(ahs, ah) /\ ~Mappable(qps[q], sges))
  <2>1. Becomes(r, q, qp)
    BY <1>1, <1>6 DEF PostSendUd
  <2>2. u \in [Nat -> Nat] /\ u = UsesFn(Replace(qps, q, qp))
    BY <1>1, <1>2, UsesMove
  <2>3. v \in [Nat -> Nat] /\ Taken(v, u, sges)
    <3>1. \A g \in Nat : Names(sges, g) \in Nat
      BY <1>2, NamesType
    <3> QED
      BY <1>1, <2>2, <3>1 DEF Taken
  <2>4. /\ DOMAIN s.pds = DOMAIN pds
        /\ known => GoodTables(s, v, x)
        /\ ~known => GoodTables(s, u, x)
    BY <1>1, <2>3, MrsTaken
  <2>5. known => GoodTables(PutMrs(s, sges), u, x) /\ DOMAIN PutMrs(s, sges).pds = DOMAIN s.pds
    BY <1>2, <2>2, <2>3, <2>4, PutMrsGood
  <2>6. GoodTables(r, UsesFn(Replace(qps, q, qp)), x) /\ DOMAIN r.pds = DOMAIN pds
    <3>1. CASE known
      BY <1>1, <2>2, <2>4, <2>5, <3>1
    <3>2. CASE ~known
      BY <1>1, <2>2, <2>4, <3>2
    <3> QED
      BY <3>1, <3>2
  <2>7. qps[q] # Unused /\ crash # "put_pd"
    BY <1>1, <1>3 DEF Unused, NewQp
  <2> QED
    BY <1>1, <1>2, <1>3, <1>4, <2>1, <2>6, <2>7, BecomesGood
<1> QED
  BY <1>5, <1>6

LEMMA CompleteSendGood ==
  ASSUME RefsInv, "local_sges" \notin Calls, NEW q, q \in DOMAIN qps, CompleteSend(q)
  PROVE  RefsInv'
<1>1. PICK t, old, qp, u, v, p, s0, s :
        /\ t = qps /\ old = t[q] /\ qp = [old EXCEPT !.sq = CompleteHead(Tail(@))]
        /\ u = UsesFn(t) /\ v = UsesFn(Replace(t, q, qp)) /\ p = Head(old.sq).sges
        /\ s0 = Tables /\ s = PutMrs(s0, p)
  OBVIOUS
<1>2. /\ Table(t, QpSlots, QpRec) /\ QpGood(old, q, DOMAIN pds, DOMAIN cqs) /\ old \in QpRec
      /\ q \in DOMAIN t
  BY <1>1, RefsNow DEF Table
<1>3. GoodTables(s0, u, HoldFn(ahs, t)) /\ s0.pds = pds
  BY <1>1, RefsNow
<1>4. /\ crash = "none" /\ old.sq # <<>> /\ Becomes(s, q, qp) /\ UNCHANGED <<cqs, ahs, gsi>>
  BY <1>1 DEF CompleteSend
<1>5. ~Head(old.sq).error /\ old # Unused /\ old.type # "MAX"
  BY <1>2, <1>4 DEF QpGood, Unused, NewQp
<1>6. qp = [old EXCEPT !.sq = CompleteHead(Tail(@))] /\ old \in QpRec /\ old.sq # <<>>
      /\ ~Head(old.sq).error
  BY <1>1, <1>2, <1>4, <1>5
<1>7. /\ qp \in QpRec /\ qp.rq = old.rq /\ qp.resp = old.resp
      /\ qp.type = old.type /\ qp.pd = old.pd /\ qp.scq = old.scq /\ qp.rcq = old.rcq
  BY ONLY <1>6, "local_sges" \notin Calls, SendCompleted
<1>8. Len(qp.sq) <= Len(old.sq)
  BY ONLY <1>6, "local_sges" \notin Calls, SendCompleted
<1>9. qp.sq # <<>> => ~Head(qp.sq).error
  BY ONLY <1>6, "local_sges" \notin Calls, SendCompleted
<1>10. Head(old.sq).sges \in SgeLists \cup {<<>>}
  BY ONLY <1>6, "local_sges" \notin Calls, SendCompleted
<1>11. Longer(old, qp, Head(old.sq).sges)
  BY ONLY <1>6, "local_sges" \notin Calls, SendCompleted
<1>12. p \in Seq(Nat) /\ Longer(t[q], qp, p)
  BY <1>1, <1>10, <1>11, SgesType
<1>13. Len(qp.sq) <= MaxWrs
  <2>1. PICK i \in Nat, j \in Nat, k \in Nat : i = Len(old.sq) /\ j = MaxWrs /\ k = Len(qp.sq)
    BY <1>2, <1>7, SlotsType, LenProperties DEF QpRec
  <2>2. i <= j
    BY <1>2, <2>1 DEF QpGood
  <2> QED
    BY <1>8, <2>1, <2>2
<1>14. QpGood(qp, q, DOMAIN pds, DOMAIN cqs)
  BY <1>2, <1>5, <1>7, <1>9, <1>13 DEF QpGood
<1>15. /\ Table(t, QpSlots, QpRec) /\ q \in DOMAIN t /\ qp \in QpRec /\ u = UsesFn(t)
       /\ v = UsesFn(Replace(t, q, qp)) /\ p \in Seq(Nat)
  BY <1>1, <1>2, <1>7, <1>12
<1>16. v \in [Nat -> Nat]
  BY ONLY <1>15, UsesMove
<1>17. Longer(t[q], qp, p) => Taken(u, v, p)
  BY ONLY <1>15, UsesMove
<1>18. GoodTables(s, v, HoldFn(ahs, t)) /\ DOMAIN s.pds = DOMAIN s0.pds
  <2>1. GoodTables(s0, u, HoldFn(ahs, t)) /\ p \in Seq(Nat) /\ v \in [Nat -> Nat] /\ Taken(u, v, p)
        /\ s = PutMrs(s0, p)
    BY <1>1, <1>3, <1>12, <1>16, <1>17
  <2>2. GoodTables(s, v, HoldFn(ahs, t))
    BY ONLY <2>1, PutMrsGood
  <2>3. DOMAIN s.pds = DOMAIN s0.pds
    BY ONLY <2>1, PutMrsGood
  <2> QED
    BY <2>2, <2>3
<1>19. /\ qps[q] # Unused /\ crash # "put_pd" /\ qp \in QpRec
       /\ qp.pd = qps[q].pd /\ qp.scq = qps[q].scq /\ qp.rcq = qps[q].rcq
       /\ GoodTables(s, UsesFn(Replace(qps, q, qp)), HoldFn(ahs, qps))
       /\ DOMAIN s.pds = DOMAIN pds
  BY <1>1, <1>3, <1>4, <1>5, <1>7, <1>18
<1> QED
  BY <1>4, <1>14, <1>19, BecomesGood

LEMMA RecvPayloadGood ==
  ASSUME RefsInv, NEW q, q \in DOMAIN qps, NEW first, first \in BOOLEAN,
         NEW last, last \in BOOLEAN, NEW ok, ok \in BOOLEAN, RecvPayload(q, first, last, ok)
  PROVE  RefsInv'
<1>1. PICK t, old, wr, popped, done, kept, u, s0, s :
        /\ t = qps /\ old = t[q]
        /\ wr = Head(IF first THEN old.rq ELSE old.resp)
        /\ popped = IF first THEN Tail(old.rq) ELSE old.rq
        /\ done = [old EXCEPT !.rq = popped, !.resp = <<>>]
        /\ kept = [old EXCEPT !.rq = popped, !.resp = <<wr>>]
        /\ u = UsesFn(t) /\ s0 = Tables /\ s = PutMrs(s0, wr)
  OBVIOUS
<1>2. /\ Table(t, QpSlots, QpRec) /\ QpGood(old, q, DOMAIN pds, DOMAIN cqs) /\ old \in QpRec
      /\ q \in DOMAIN t
  BY <1>1, RefsNow DEF Table
<1>3. GoodTables(s0, u, HoldFn(ahs, t)) /\ s0.pds = pds
  BY <1>1, RefsNow
<1>4. /\ crash = "none" /\ old.type # "MAX" /\ UNCHANGED <<cqs, ahs, gsi>>
      /\ (first <=> old.resp = <<>>) /\ (first => old.rq # <<>>)
  BY <1>1 DEF RecvPayload
<1>5. /\ old \in QpRec /\ first \in BOOLEAN /\ Len(old.resp) <= 1
      /\ (first => old.rq # <<>>) /\ (first <=> old.resp = <<>>)
      /\ wr = Head(IF first THEN old.rq ELSE old.resp)
      /\ popped = IF first THEN Tail(old.rq) ELSE old.rq
      /\ done = [old EXCEPT !.rq = popped, !.resp = <<>>]
      /\ kept = [old EXCEPT !.rq = popped, !.resp = <<wr>>]
  BY <1>1, <1>2, <1>4 DEF QpGood
<1>6. wr \in SgeLists
  BY ONLY <1>5, RecvMoved
<1>7. Len(popped) <= Len(old.rq)
  BY ONLY <1>5, RecvMoved
<1>8. /\ done \in QpRec /\ done.sq = old.sq /\ done.rq = popped /\ done.resp = <<>>
      /\ done.type = old.type /\ done.pd = old.pd /\ done.scq = old.scq /\ done.rcq = old.rcq
  <2>1. done \in QpRec
    <3>1. popped \in Seq(SgeLists)
      BY ONLY <1>5, RecvMoved
    <3> QED
      BY <1>5, <3>1, EmptySeq, QpUpdates
  <2>2. /\ done.sq = old.sq /\ done.rq = popped /\ done.resp = <<>>
        /\ done.type = old.type /\ done.pd = old.pd /\ done.scq = old.scq /\ done.rcq = old.rcq
    BY ONLY <1>5 DEF QpRec
  <2> QED
    BY <2>1, <2>2
<1>9. /\ kept \in QpRec /\ kept.sq = old.sq /\ kept.rq = popped /\ kept.resp = <<wr>>
      /\ kept.type = old.type /\ kept.pd = old.pd /\ kept.scq = old.scq /\ kept.rcq = old.rcq
  <2>1. kept \in QpRec
    <3>1. popped \in Seq(SgeLists) /\ <<wr>> \in Seq(SgeLists)
      <4>1. popped \in Seq(SgeLists)
        BY ONLY <1>5, RecvMoved
      <4> QED
        BY <1>6, <4>1
    <3> QED
      BY <1>5, <3>1, QpUpdates
  <2>2. /\ kept.sq = old.sq /\ kept.rq = popped /\ kept.resp = <<wr>>
        /\ kept.type = old.type /\ kept.pd = old.pd /\ kept.scq = old.scq /\ kept.rcq = old.rcq
    BY ONLY <1>5 DEF QpRec
  <2> QED
    BY <2>1, <2>2
<1>10. Longer(old, done, wr)
  BY ONLY <1>5, RecvMoved
<1>11. AsLong(kept, old)
  BY ONLY <1>5, RecvMoved
<1>12. Len(popped) <= MaxWrs /\ Len(<<>>) <= 1 /\ Len(<<wr>>) <= 1
  <2>1. done.rq \in Seq(SgeLists) /\ old.rq \in Seq(SgeLists)
    BY <1>2, <1>8 DEF QpRec
  <2>2. PICK i \in Nat, j \in Nat, k \in Nat : i = Len(old.rq) /\ j = MaxWrs /\ k = Len(popped)
    BY <1>8, <2>1, SlotsType, LenProperties
  <2>3. i <= j
    BY <1>2, <2>2 DEF QpGood
  <2>4. Len(popped) <= MaxWrs
    BY <1>7, <2>2, <2>3
  <2>5. Len(<<>>) <= 1 /\ Len(<<wr>>) <= 1
    OBVIOUS
  <2> QED
    BY <2>4, <2>5
<1>13. QpGood(done, q, DOMAIN pds, DOMAIN cqs) /\ QpGood(kept, q, DOMAIN pds, DOMAIN cqs)
  BY <1>2, <1>4, <1>8, <1>9, <1>12 DEF QpGood
<1>14. old # Unused /\ crash # "put_pd"
  BY <1>4 DEF Unused, NewQp
<1>15. wr \in Seq(Nat)
  BY <1>6, SgesType
<1>16. CASE ok /\ last
  <2>1. Becomes(s, q, done)
    BY <1>1, <1>16 DEF RecvPayload
  <2>2. PICK v : v = UsesFn(Replace(t, q, done))
    OBVIOUS
  <2>3. /\ Table(t, QpSlots, QpRec) /\ q \in DOMAIN t /\ done \in QpRec /\ u = UsesFn(t)
        /\ v = UsesFn(Replace(t, q, done)) /\ wr \in Seq(Nat)
    BY <1>1, <1>2, <1>8, <1>15, <2>2
  <2>4. v \in [Nat -> Nat]
    BY ONLY <2>3, UsesMove
  <2>5. Longer(t[q], done, wr) => Taken(u, v, wr)
    BY ONLY <2>3, UsesMove
  <2>6. Taken(u, v, wr)
    BY <1>1, <1>10, <2>5
  <2>7. GoodTables(s, v, HoldFn(ahs, t)) /\ DOMAIN s.pds = DOMAIN s0.pds
    <3>1. PICK x : x = HoldFn(ahs, t)
      OBVIOUS
    <3>2. GoodTables(s0, u, x) /\ s = PutMrs(s0, wr)
      BY <1>1, <1>3, <3>1
    <3>3. GoodTables(PutMrs(s0, wr), v, x) /\ DOMAIN PutMrs(s0, wr).pds = DOMAIN s0.pds
      BY ONLY <1>15, <2>4, <2>6, <3>2, PutMrsGood
    <3> QED
      BY <3>1, <3>2, <3>3
  <2>8. /\ qps[q] # Unused /\ crash # "put_pd" /\ done \in QpRec
        /\ done.pd = qps[q].pd /\ done.scq = qps[q].scq /\ done.rcq = qps[q].rcq
        /\ GoodTables(s, UsesFn(Replace(qps, q, done)), HoldFn(ahs, qps))
        /\ DOMAIN s.pds = DOMAIN pds
    BY <1>1, <1>3, <1>8, <1>14, <2>2, <2>7
  <2> QED
    BY <1>4, <1>13, <2>1, <2>8, BecomesGood
<1>17. CASE ~(ok /\ last)
  <2>1. Becomes(s0, q, kept)
    BY <1>1, <1>17 DEF RecvPayload
  <2>2. PICK v : v = UsesFn(Replace(t, q, kept))
    OBVIOUS
  <2>3. /\ Table(t, QpSlots, QpRec) /\ q \in DOMAIN t /\ kept \in QpRec /\ u = UsesFn(t)
        /\ v = UsesFn(Replace(t, q, kept)) /\ wr \in Seq(Nat)
    BY <1>1, <1>2, <1>9, <1>15, <2>2
  <2>4. AsLong(kept, t[q]) => v = u
    BY ONLY <2>3, UsesMove
  <2>5. v = u
    BY <1>1, <1>11, <2>4
  <2>6. /\ qps[q] # Unused /\ crash # "put_pd" /\ kept \in QpRec
        /\ kept.pd = qps[q].pd /\ kept.scq = qps[q].scq /\ kept.rcq = qps[q].rcq
        /\ GoodTables(s0, UsesFn(Replace(qps, q, kept)), HoldFn(ahs, qps))
        /\ DOMAIN s0.pds = DOMAIN pds
    BY <1>1, <1>3, <1>9, <1>14, <2>2, <2>5
  <2> QED
    BY <1>4, <1>13, <2>1, <2>6, BecomesGood
<1> QED
  BY <1>16, <1>17

-----------------------------------------------------------------------------
LEMMA TableCallsGood ==
  ASSUME RefsInv
  PROVE  /\ AllocPd => RefsInv'
         /\ CreateCq => RefsInv'
         /\ \A h \in DOMAIN pds : DeallocPd(h) => RefsInv'
         /\ \A h \in DOMAIN cqs : DestroyCq(h) => RefsInv'
<1>1. /\ State(Tables, cqs, ahs, qps) /\ Table(qps, QpSlots, QpRec) /\ Table(ahs, AhSlots, AhRec)
      /\ Tables.mrs = mrs /\ Tables.pds = pds /\ GsiFresh(gsi, qps) /\ ResTypes
  BY RefsNow
<1>2. ASSUME AllocPd PROVE RefsInv'
  <2>1. PICK h, r : /\ h = ResourceAlloc(PdSlots, pds)
                    /\ r = [mrs |-> mrs, pds |-> Insert(pds, h, [ref |-> 0]), ok |-> TRUE]
    OBVIOUS
  <2>2. h \in 0 .. PdSlots - 1 /\ h \notin DOMAIN pds
    BY <1>2, <2>1, SlotsType, AllocFree DEF AllocPd
  <2>3. State(r, cqs, ahs, qps)
    <3>1. PICK s, c, a, t : s = Tables /\ c = cqs /\ a = ahs /\ t = qps
      OBVIOUS
    <3>2. /\ State(s, c, a, t) /\ Table(t, QpSlots, QpRec) /\ Table(a, AhSlots, AhRec)
          /\ h \in 0 .. PdSlots - 1 /\ h \notin DOMAIN s.pds
          /\ r = [mrs |-> s.mrs, pds |-> Insert(s.pds, h, [ref |-> 0]), ok |-> TRUE]
      BY <1>1, <2>1, <2>2, <3>1
    <3>3. State(r, c, a, t)
      BY ONLY <3>2, PdInserted
    <3> QED
      BY <3>1, <3>3
  <2>4. /\ mrs' = r.mrs /\ pds' = r.pds /\ cqs' = cqs /\ ahs' = ahs /\ qps' = qps /\ gsi' = gsi
        /\ crash' # "put_pd"
    BY <1>2, <2>1 DEF AllocPd
  <2>5. ResTypes'
    BY <1>1, <1>2, CreateTypes
  <2> QED
    BY <1>1, <2>3, <2>4, <2>5, Reached
<1>3. ASSUME NEW h \in DOMAIN pds, DeallocPd(h) PROVE RefsInv'
  <2>1. PICK r : r = [mrs |-> mrs, pds |-> ResourceFree(pds, h), ok |-> TRUE]
    OBVIOUS
  <2>2. State(r, cqs, ahs, qps)
    <3>1. PICK s, c, a, t : s = Tables /\ c = cqs /\ a = ahs /\ t = qps
      OBVIOUS
    <3>2. /\ State(s, c, a, t) /\ Table(t, QpSlots, QpRec) /\ Table(a, AhSlots, AhRec)
          /\ h \in DOMAIN s.pds /\ s.pds[h].ref = 0
          /\ r = [mrs |-> s.mrs, pds |-> ResourceFree(s.pds, h), ok |-> TRUE]
      BY <1>1, <1>3, <2>1, <3>1 DEF DeallocPd
    <3>3. State(r, c, a, t)
      BY ONLY <3>2, PdFreed
    <3> QED
      BY <3>1, <3>3
  <2>3. /\ mrs' = r.mrs /\ pds' = r.pds /\ cqs' = cqs /\ ahs' = ahs /\ qps' = qps /\ gsi' = gsi
        /\ crash' # "put_pd"
    BY <1>3, <2>1 DEF DeallocPd
  <2>4. ResTypes'
    BY <1>1, <1>3, DestroyTypes
  <2> QED
    BY <1>1, <2>2, <2>3, <2>4, Reached
<1>4. ASSUME CreateCq PROVE RefsInv'
  <2>1. PICK h, d : h = ResourceAlloc(CqSlots, cqs) /\ d = Insert(cqs, h, [ref |-> 0])
    OBVIOUS
  <2>2. h \in Nat /\ h \notin DOMAIN cqs
    BY <1>4, <2>1, SlotsType, AllocFree DEF CreateCq
  <2>3. State(Tables, d, ahs, qps)
    <3>1. PICK s, c, a, t : s = Tables /\ c = cqs /\ a = ahs /\ t = qps
      OBVIOUS
    <3>2. /\ State(s, c, a, t) /\ Table(t, QpSlots, QpRec)
          /\ h \in Nat /\ h \notin DOMAIN c /\ d = Insert(c, h, [ref |-> 0])
      BY <1>1, <2>1, <2>2, <3>1
    <3>3. State(s, d, a, t)
      BY ONLY <3>2, CqInserted
    <3> QED
      BY <3>1, <3>3
  <2>4. /\ mrs' = Tables.mrs /\ pds' = Tables.pds /\ cqs' = d /\ ahs' = ahs /\ qps' = qps
        /\ gsi' = gsi /\ crash' # "put_pd"
    BY <1>1, <1>4, <2>1 DEF CreateCq
  <2>5. ResTypes'
    BY <1>1, <1>4, CreateTypes
  <2> QED
    BY <1>1, <2>3, <2>4, <2>5, Reached
<1>5. ASSUME NEW h \in DOMAIN cqs, DestroyCq(h) PROVE RefsInv'
  <2>1. PICK d : d = ResourceFree(cqs, h)
    OBVIOUS
  <2>2. State(Tables, d, ahs, qps)
    <3>1. PICK s, c, a, t : s = Tables /\ c = cqs /\ a = ahs /\ t = qps
      OBVIOUS
    <3>2. /\ State(s, c, a, t) /\ Table(t, QpSlots, QpRec)
          /\ h \in DOMAIN c /\ c[h].ref = 0 /\ d = ResourceFree(c, h)
      BY <1>1, <1>5, <2>1, <3>1 DEF DestroyCq
    <3>3. State(s, d, a, t)
      BY ONLY <3>2, CqFreed
    <3> QED
      BY <3>1, <3>3
  <2>3. /\ mrs' = Tables.mrs /\ pds' = Tables.pds /\ cqs' = d /\ ahs' = ahs /\ qps' = qps
        /\ gsi' = gsi /\ crash' # "put_pd"
    BY <1>1, <1>5, <2>1 DEF DestroyCq
  <2>4. ResTypes'
    BY <1>1, <1>5, DestroyTypes
  <2> QED
    BY <1>1, <2>2, <2>3, <2>4, Reached
<1> QED
  BY <1>2, <1>3, <1>4, <1>5

LEMMA AhCallsGood ==
  ASSUME RefsInv, Fits
  PROVE  /\ \A pd \in 0 .. PdSlots, ok \in BOOLEAN : CreateAh(pd, ok) => RefsInv'
         /\ \A h \in DOMAIN ahs : DestroyAh(h) => RefsInv'
<1>1. /\ State(Tables, cqs, ahs, qps) /\ Table(qps, QpSlots, QpRec) /\ Table(ahs, AhSlots, AhRec)
      /\ Tables.mrs = mrs /\ Tables.pds = pds /\ GsiFresh(gsi, qps) /\ ResTypes
      /\ Table(pds, PdSlots, PdRec)
  BY RefsNow
<1>2. PICK s, c, a, t : s = Tables /\ c = cqs /\ a = ahs /\ t = qps
  OBVIOUS
<1>3. ASSUME NEW pd, pd \in 0 .. PdSlots, NEW ok, ok \in BOOLEAN, CreateAh(pd, ok) PROVE RefsInv'
  <2>1. ResTypes'
    BY <1>1, <1>3, CreateTypes
  <2>2. CASE ok /\ ~Full(AhSlots, ahs)
    <3>1. PICK h, ah, r, b :
            /\ h = ResourceAlloc(AhSlots, ahs) /\ ah = [ref |-> 0, pd |-> pd]
            /\ r = [s EXCEPT !.pds = Get(@, ah.pd)] /\ b = Insert(a, h, ah)
      OBVIOUS
    <3>2. h \in 0 .. AhSlots - 1 /\ h \notin DOMAIN a
      BY <1>2, <2>2, <3>1, SlotsType, AllocFree
    <3>3. ah \in AhRec /\ ah.pd = pd /\ pd \in DOMAIN s.pds
      <4>1. pd \in Nat /\ pd \in DOMAIN s.pds
        BY <1>1, <1>2, <1>3 DEF CreateAh, Found
      <4> QED
        BY <3>1, <4>1, SlotsType DEF AhRec
    <3>4. /\ State(s, c, a, t) /\ Table(t, QpSlots, QpRec) /\ Table(a, AhSlots, AhRec)
          /\ ah.pd \in DOMAIN s.pds /\ r = [s EXCEPT !.pds = Get(@, ah.pd)]
          /\ b = Insert(a, h, ah)
      BY <1>1, <1>2, <3>1, <3>3
    <3>5. State(r, c, b, t)
      BY ONLY Fits, <3>2, <3>3, <3>4, AhInserted
    <3>6. r.mrs = mrs /\ r.pds = Get(pds, pd)
      <4>1. s.mrs = mrs /\ s.pds = pds /\ s = [mrs |-> mrs, pds |-> pds, ok |-> TRUE]
        BY <1>2 DEF Tables
      <4> QED
        BY <3>1, <3>3, <4>1
    <3>7. /\ mrs' = r.mrs /\ pds' = r.pds /\ cqs' = c /\ ahs' = b /\ qps' = t /\ gsi' = gsi
          /\ crash' # "put_pd"
      BY <1>2, <1>3, <2>2, <3>1, <3>6 DEF CreateAh
    <3> QED
      BY <1>1, <1>2, <2>1, <3>5, <3>7, Reached
  <2>3. CASE ~(ok /\ ~Full(AhSlots, ahs))
    <3>1. pds' = Put(Get(pds, pd), pd) /\ UNCHANGED <<cqs, ahs, mrs, qps, gsi, crash>>
          /\ crash = "none"
      BY <1>3, <2>3 DEF CreateAh
    <3>2. pds' = pds
      BY <1>1, <3>1, RefRecords, PutGet
    <3> QED
      BY <2>1, <3>1, <3>2, RefsSame
  <2> QED
    BY <2>2, <2>3
<1>4. ASSUME NEW h, h \in DOMAIN ahs, DestroyAh(h) PROVE RefsInv'
  <2>1. PICK r, b : r = [s EXCEPT !.pds = Put(@, a[h].pd)] /\ b = ResourceFree(a, h)
    OBVIOUS
  <2>2. /\ State(s, c, a, t) /\ Table(t, QpSlots, QpRec) /\ Table(a, AhSlots, AhRec)
        /\ h \in DOMAIN a
    BY <1>1, <1>2, <1>4
  <2>3. State(r, c, b, t) /\ a[h].pd \in DOMAIN s.pds
    BY ONLY <2>1, <2>2, AhFreed
  <2>4. r.mrs = mrs /\ r.pds = Put(pds, ahs[h].pd) /\ s.pds = pds
    <3>1. s.mrs = mrs /\ s.pds = pds /\ s = [mrs |-> mrs, pds |-> pds, ok |-> TRUE]
      BY <1>2 DEF Tables
    <3> QED
      BY <1>2, <2>1, <3>1
  <2>5. /\ mrs' = r.mrs /\ pds' = r.pds /\ cqs' = c /\ ahs' = b /\ qps' = t /\ gsi' = gsi
        /\ crash' # "put_pd"
    BY <1>2, <1>4, <2>1, <2>3, <2>4 DEF DestroyAh, Found
  <2>6. ResTypes'
    BY <1>1, <1>4, DestroyTypes
  <2> QED
    BY <1>1, <1>2, <2>3, <2>5, <2>6, Reached
<1> QED
  BY <1>3, <1>4

LEMMA MrCallsGood ==
  ASSUME RefsInv, Fits
  PROVE  /\ \A pd \in 0 .. PdSlots, ok \in BOOLEAN, type \in MrTypes :
              CreateMr(pd, type, ok) => RefsInv'
         /\ \A m \in DOMAIN mrs : DestroyMr(m) => RefsInv'
<1>1. /\ State(Tables, cqs, ahs, qps) /\ Table(qps, QpSlots, QpRec) /\ Table(ahs, AhSlots, AhRec)
      /\ Tables.mrs = mrs /\ Tables.pds = pds /\ GsiFresh(gsi, qps) /\ ResTypes
      /\ Table(pds, PdSlots, PdRec)
  BY RefsNow
<1>2. PICK s, c, a, t : s = Tables /\ c = cqs /\ a = ahs /\ t = qps
  OBVIOUS
<1>3. ASSUME NEW pd, pd \in 0 .. PdSlots, NEW ok, ok \in BOOLEAN, NEW type, type \in MrTypes,
             CreateMr(pd, type, ok)
      PROVE  RefsInv'
  <2>1. ResTypes'
    BY <1>1, <1>3, CreateTypes
  <2>2. CASE ok /\ ~Full(MrSlots, mrs)
    <3>1. PICK m, mr, r :
            /\ m = ResourceAlloc(MrSlots, mrs)
            /\ mr = [ref |-> 0, pd |-> pd, type |-> type,
                     state |-> IF type = "FRMR" THEN "FREE" ELSE "VALID"]
            /\ r = [mrs |-> Insert(s.mrs, m, mr), pds |-> Get(s.pds, mr.pd), ok |-> TRUE]
      OBVIOUS
    <3>2. m \in 0 .. MrSlots - 1 /\ m \notin DOMAIN s.mrs
      BY <1>1, <1>2, <2>2, <3>1, SlotsType, AllocFree
    <3>3. pd \in Nat /\ pd \in DOMAIN s.pds
      BY <1>1, <1>2, <1>3 DEF CreateMr, Found
    <3>4. mr \in MrRec /\ mr.pd = pd /\ mr.ref = 0 /\ mr.state # "DESTROYED"
      BY <1>3, <3>1, <3>3, SlotsType DEF MrRec
    <3>5. /\ State(s, c, a, t) /\ Table(t, QpSlots, QpRec) /\ Table(a, AhSlots, AhRec)
          /\ mr.pd \in DOMAIN s.pds
          /\ r = [mrs |-> Insert(s.mrs, m, mr), pds |-> Get(s.pds, mr.pd), ok |-> TRUE]
      BY <1>1, <1>2, <3>1, <3>3, <3>4
    <3>6. State(r, c, a, t)
      BY ONLY Fits, <3>2, <3>4, <3>5, MrInserted
    <3>7. /\ mrs' = r.mrs /\ pds' = r.pds /\ cqs' = c /\ ahs' = a /\ qps' = t /\ gsi' = gsi
          /\ crash' # "put_pd"
      BY <1>1, <1>2, <1>3, <2>2, <3>1, <3>4 DEF CreateMr
    <3> QED
      BY <1>1, <1>2, <2>1, <3>6, <3>7, Reached
  <2>3. CASE ~(ok /\ ~Full(MrSlots, mrs))
    <3>1. pds' = Put(Get(pds, pd), pd) /\ UNCHANGED <<cqs, ahs, mrs, qps, gsi, crash>>
          /\ crash = "none"
      BY <1>3, <2>3 DEF CreateMr
    <3>2. pds' = pds
      BY <1>1, <3>1, RefRecords, PutGet
    <3> QED
      BY <2>1, <3>1, <3>2, RefsSame
  <2> QED
    BY <2>2, <2>3
<1>4. ASSUME NEW m, m \in DOMAIN mrs, DestroyMr(m) PROVE RefsInv'
  <2>1. PICK w, u, x : w = DestroyMrIn(s, m) /\ u = UsesFn(t) /\ x = HoldFn(a, t)
    OBVIOUS
  <2>2. GoodTables(s, u, x) /\ m \in DOMAIN s.mrs /\ State(s, c, a, t)
    BY <1>1, <1>2, <1>4, <2>1 DEF State
  <2>3. GoodTables(w, u, x)
    BY ONLY <2>1, <2>2, DestroyMrGood
  <2>4. DOMAIN w.pds = DOMAIN s.pds
    BY ONLY <2>1, <2>2, DestroyMrGood
  <2>5. State(w, c, a, t)
    BY <2>1, <2>2, <2>3, <2>4 DEF State
  <2>6. w.ok = TRUE
    BY <2>3 DEF GoodTables
  <2>7. /\ mrs' = w.mrs /\ pds' = w.pds /\ cqs' = c /\ ahs' = a /\ qps' = t /\ gsi' = gsi
        /\ crash' # "put_pd"
    BY <1>2, <1>4, <2>1, <2>6 DEF DestroyMr
  <2>8. ResTypes'
    BY <1>1, <1>4, DestroyTypes
  <2> QED
    BY <1>1, <1>2, <2>5, <2>7, <2>8, Reached
<1> QED
  BY <1>3, <1>4

\* Both CQs are got and put in the same order: nothing has changed.
LEMMA PutGetBoth ==
  ASSUME NEW t, NEW size, NEW R, Table(t, size, R), HasRef(R), NEW a, NEW b
  PROVE  Put(Put(Get(Get(t, a), b), a), b) = t
<1>1. PICK t1, t2, t3, t4 : t1 = Get(t, a) /\ t2 = Get(t1, b) /\ t3 = Put(t2, a) /\ t4 = Put(t3, b)
  OBVIOUS
<1>2. /\ Table(t1, size, R) /\ DOMAIN t1 = DOMAIN t
      /\ \A g \in DOMAIN t \ {a} : t1[g] = t[g]
      /\ a \in DOMAIN t => t1[a] = Counted(t[a], 1)
  BY <1>1, CountIs DEF Get
<1>3. CASE a = b
  <2>1. t3 = t1
    BY <1>1, <1>2, <1>3, PutGet
  <2> QED
    BY <1>1, <1>3, <2>1, PutGet
<1>4. CASE a # b
  <2>1. /\ Table(t2, size, R) /\ DOMAIN t2 = DOMAIN t
        /\ \A g \in DOMAIN t \ {b} : t2[g] = t1[g]
        /\ b \in DOMAIN t => t2[b] = Counted(t1[b], 1)
    BY <1>1, <1>2, CountIs DEF Get
  <2>2. /\ Table(t3, size, R) /\ DOMAIN t3 = DOMAIN t
        /\ \A g \in DOMAIN t \ {a} : t3[g] = t2[g]
        /\ a \in DOMAIN t => t3[a] = Counted(t2[a], -1)
    BY <1>1, <2>1, CountIs DEF Put
  <2>3. /\ Table(t4, size, R) /\ DOMAIN t4 = DOMAIN t
        /\ \A g \in DOMAIN t \ {b} : t4[g] = t3[g]
        /\ b \in DOMAIN t => t4[b] = Counted(t3[b], -1)
    BY <1>1, <2>2, CountIs DEF Put
  <2>4. ASSUME NEW g \in DOMAIN t PROVE t4[g] = t[g]
    <3>1. t[g] \in R /\ Counted(Counted(t[g], 1), -1) = t[g]
      BY DEF Table, HasRef
    <3>2. CASE g = a
      BY <1>2, <1>4, <2>1, <2>2, <2>3, <3>1, <3>2
    <3>3. CASE g = b
      BY <1>2, <1>4, <2>1, <2>2, <2>3, <3>1, <3>3
    <3>4. CASE g # a /\ g # b
      BY <1>2, <2>1, <2>2, <2>3, <3>4
    <3> QED
      BY <3>2, <3>3, <3>4
  <2>5. t4 \in [DOMAIN t -> R] /\ t \in [DOMAIN t -> R]
    BY <2>3 DEF Table
  <2>6. t4 = t
    BY <2>4, <2>5
  <2> QED
    BY <1>1, <2>6
<1> QED
  BY <1>3, <1>4

LEMMA CreateQpGood ==
  ASSUME RefsInv, Fits, NEW pd, pd \in 0 .. PdSlots, NEW ok, ok \in BOOLEAN,
         NEW type, type \in QpTypes, NEW scq, scq \in 0 .. CqSlots, NEW rcq, rcq \in 0 .. CqSlots,
         CreateQp(type, pd, scq, rcq, ok)
  PROVE  RefsInv'
<1>1. /\ State(Tables, cqs, ahs, qps) /\ Table(qps, QpSlots, QpRec) /\ Table(ahs, AhSlots, AhRec)
      /\ Tables.mrs = mrs /\ Tables.pds = pds /\ GsiFresh(gsi, qps) /\ ResTypes
      /\ Table(pds, PdSlots, PdRec) /\ Table(cqs, CqSlots, PdRec)
  BY RefsNow
<1>2. PICK s, c, a, t : s = Tables /\ c = cqs /\ a = ahs /\ t = qps
  OBVIOUS
<1>3. PICK refused : refused = (\/ ~Found(cqs, scq)
                                \/ type = "GSI" /\ gsi.used
                                \/ type # "GSI" /\ (~ok \/ Full(QpSlots, qps)))
  OBVIOUS
<1>4. ResTypes' /\ crash = "none" /\ pd \in DOMAIN pds /\ ahs' = ahs /\ mrs' = mrs
  BY <1>1, CreateQpTypes DEF CreateQp, Found
<1>5. CASE refused
  <2>1. /\ pds' = Put(Get(pds, pd), pd)
        /\ cqs' = Put(Put(Get(Get(cqs, scq), rcq), scq), rcq)
        /\ UNCHANGED <<ahs, mrs, qps, gsi, crash>>
    BY <1>3, <1>5 DEF CreateQp
  <2>2. pds' = pds
    BY <1>1, <2>1, RefRecords, PutGet
  <2>3. cqs' = cqs
    BY <1>1, <2>1, RefRecords, PutGetBoth
  <2> QED
    BY <1>4, <2>1, <2>2, <2>3, RefsSame
<1>6. CASE ~refused /\ type = "GSI" /\ gsi.handle # Gsi
  <2>1. crash' = "gsi_handle" /\ UNCHANGED <<pds, cqs, ahs, mrs, qps, gsi>>
    BY <1>3, <1>6 DEF CreateQp
  <2> QED
    BY <1>4, <2>1, RefsSame
<1>7. CASE ~refused /\ ~(type = "GSI" /\ gsi.handle # Gsi)
  <2>1. PICK q, r, d, qp, n :
          /\ q = IF type = "GSI" THEN gsi.handle ELSE ResourceAlloc(QpSlots, qps)
          /\ r = [s EXCEPT !.pds = Get(@, qp.pd)] /\ d = Get(Get(c, qp.scq), rcq)
          /\ qp = NewQp(type, pd, scq, IF Found(cqs, rcq) THEN rcq ELSE Null)
          /\ n = Insert(t, q, qp)
    OBVIOUS
  <2>2. /\ pds' = Get(pds, pd) /\ cqs' = Get(Get(cqs, scq), rcq) /\ qps' = Insert(qps, q, qp)
        /\ gsi' = IF type = "GSI" THEN [gsi EXCEPT !.used = TRUE] ELSE gsi
        /\ crash' = crash
    BY <1>3, <1>7, <2>1 DEF CreateQp
  <2>3. Found(cqs, scq) /\ (type = "GSI" => ~gsi.used /\ gsi.handle = Gsi)
        /\ (type # "GSI" => ~Full(QpSlots, qps))
    BY <1>3, <1>7
  <2>4. /\ q \in 0 .. QpSlots - 1
        /\ q \in DOMAIN t => t[q] = Unused
        /\ type # "GSI" => q \notin DOMAIN t
    <3>1. CASE type = "GSI"
      BY <1>1, <1>2, <2>1, <2>3, <3>1, SlotsType DEF GsiFresh, Gsi
    <3>2. CASE type # "GSI"
      BY <1>2, <2>1, <2>3, <3>2, SlotsType, AllocFree
    <3> QED
      BY <3>1, <3>2
  <2>5. /\ qp.type = type /\ qp.pd = pd /\ qp.scq = scq
        /\ qp.rcq = IF rcq \in DOMAIN c THEN rcq ELSE Null
        /\ qp.sq = <<>> /\ qp.rq = <<>> /\ qp.resp = <<>>
    BY <1>2, <2>1 DEF NewQp, Found
  <2>6. qp \in QpRec
    <3>1. /\ type \in QpTypes \cup {"MAX"} /\ pd \in Int /\ scq \in Int
          /\ (IF Found(cqs, rcq) THEN rcq ELSE Null) \in Int
      BY SlotsType DEF Null
    <3> QED
      BY <2>1, <3>1, NewQpType
  <2>7. qp.type # "MAX"
    BY <2>5, ResourcesAssumption
  <2>8. IF rcq \in DOMAIN c THEN qp.rcq = rcq ELSE qp.rcq = Null /\ "recv_cq" \in Calls
    <3>1. rcq \in DOMAIN c \/ "recv_cq" \in Calls
      BY <1>2 DEF CreateQp, Found
    <3> QED
      BY <2>5, <3>1
  <2>9. /\ State(s, c, a, t) /\ Table(t, QpSlots, QpRec) /\ Table(c, CqSlots, PdRec)
        /\ Table(a, AhSlots, AhRec) /\ qp.pd \in DOMAIN s.pds /\ qp.scq \in DOMAIN c
    BY <1>1, <1>2, <1>4, <2>3, <2>5 DEF Found
  <2>10. /\ q \in 0 .. QpSlots - 1 /\ (q \in DOMAIN t => t[q] = Unused)
         /\ qp.sq = <<>> /\ qp.rq = <<>> /\ qp.resp = <<>>
         /\ r = [s EXCEPT !.pds = Get(@, qp.pd)] /\ d = Get(Get(c, qp.scq), rcq)
         /\ n = Insert(t, q, qp)
    BY <2>1, <2>4, <2>5
  <2>11. State(r, d, a, n)
    BY ONLY Fits, <2>6, <2>7, <2>8, <2>9, <2>10, QpInserted
  <2>12. r.mrs = mrs /\ r.pds = Get(pds, pd)
    <3>1. s.mrs = mrs /\ s.pds = pds /\ s = [mrs |-> mrs, pds |-> pds, ok |-> TRUE]
      BY <1>2 DEF Tables
    <3> QED
      BY <2>5, <2>10, <3>1
  <2>13. /\ mrs' = r.mrs /\ pds' = r.pds /\ cqs' = d /\ ahs' = a /\ qps' = n
         /\ crash' # "put_pd"
    BY <1>2, <1>4, <2>2, <2>5, <2>10, <2>12
  <2>14. GsiFresh(gsi', qps')
    <3>1. CASE type = "GSI"
      <4>1. gsi'.used = TRUE
        BY <1>1, <2>2, <3>1 DEF ResTypes
      <4> QED
        BY <4>1 DEF GsiFresh
    <3>2. CASE type # "GSI"
      <4>1. gsi' = gsi /\ q \notin DOMAIN qps /\ qps' = Insert(qps, q, qp)
        BY <1>2, <2>2, <2>4, <3>2
      <4>2. Gsi \in DOMAIN qps => Gsi \in DOMAIN qps' /\ qps'[Gsi] = qps[Gsi]
        BY <4>1 DEF Insert
      <4> QED
        BY <1>1, <4>1, <4>2 DEF GsiFresh
    <3> QED
      BY <3>1, <3>2
  <2> QED
    BY <1>4, <2>11, <2>13, <2>14, Reached
<1> QED
  BY <1>5, <1>6, <1>7

LEMMA DestroyQpGood ==
  ASSUME RefsInv, "destroy_mid" \notin Calls, NEW q, q \in DOMAIN qps, DestroyQp(q)
  PROVE  RefsInv'
<1>1. /\ State(Tables, cqs, ahs, qps) /\ Table(qps, QpSlots, QpRec) /\ Table(ahs, AhSlots, AhRec)
      /\ Tables.mrs = mrs /\ Tables.pds = pds /\ GsiFresh(gsi, qps) /\ ResTypes
      /\ Table(pds, PdSlots, PdRec) /\ Table(cqs, CqSlots, PdRec)
  BY RefsNow
<1>2. PICK s, c, a, t, qp : s = Tables /\ c = cqs /\ a = ahs /\ t = qps /\ qp = t[q]
  OBVIOUS
<1>3. /\ ResTypes' /\ crash = "none" /\ ahs' = ahs /\ qp.type # "MAX" /\ qp.resp = <<>>
  BY <1>1, <1>2, DestroyQpTypes DEF DestroyQp
<1>4. CASE qp.rcq = Null
  <2>1. crash' = "null_rcq" /\ UNCHANGED <<pds, cqs, ahs, mrs, qps, gsi>>
    BY <1>2, <1>4 DEF DestroyQp
  <2> QED
    BY <1>3, <2>1, RefsSame
<1>5. CASE qp.rcq # Null
  <2>1. PICK r, d, n :
          /\ r = PutWrs([s EXCEPT !.pds = Put(@, qp.pd)], HeldBySq(qp) \o qp.rq)
          /\ d = Put(Put(c, qp.scq), qp.rcq) /\ n = ResourceFree(t, q)
    OBVIOUS
  <2>2. /\ pds' = r.pds /\ mrs' = r.mrs /\ cqs' = d /\ qps' = n
        /\ gsi' = IF qp.type = "GSI" THEN [used |-> FALSE, handle |-> 0] ELSE gsi
        /\ crash' = IF /\ r.ok /\ Found(pds, qp.pd)
                       /\ Found(cqs, qp.scq) /\ Found(cqs, qp.rcq)
                    THEN crash ELSE "put_pd"
    BY <1>2, <1>5, <2>1 DEF DestroyQp
  <2>3. /\ State(s, c, a, t) /\ Table(t, QpSlots, QpRec) /\ Table(c, CqSlots, PdRec)
        /\ Table(a, AhSlots, AhRec) /\ q \in DOMAIN t /\ qp = t[q]
        /\ qp.type # "MAX" /\ qp.resp = <<>> /\ qp.rcq # Null
    BY <1>1, <1>2, <1>3, <1>5
  <2>4. /\ State(r, d, a, n)
        /\ qp.pd \in DOMAIN s.pds /\ qp.scq \in DOMAIN c /\ qp.rcq \in DOMAIN c
    BY ONLY <2>1, <2>3, QpFreed
  <2>5. r.ok = TRUE
    BY <2>4 DEF State, GoodTables
  <2>6. crash' # "put_pd"
    BY <1>1, <1>2, <1>3, <2>2, <2>4, <2>5 DEF Found
  <2>7. GsiFresh(gsi', qps')
    <3>1. CASE qp.type = "GSI"
      <4>1. gsi'.handle = 0
        BY <2>2, <3>1
      <4> QED
        BY <4>1 DEF GsiFresh, Gsi
    <3>2. CASE qp.type # "GSI"
      <4>1. gsi' = gsi /\ qps' = ResourceFree(qps, q)
        BY <1>2, <2>1, <2>2, <3>2
      <4>2. qps[Gsi] = Unused => q # Gsi
        BY <1>2, <1>3 DEF Unused, NewQp
      <4>3. Gsi \in DOMAIN qps /\ q # Gsi => Gsi \in DOMAIN qps' /\ qps'[Gsi] = qps[Gsi]
        BY <4>1 DEF ResourceFree
      <4> QED
        BY <1>1, <4>1, <4>2, <4>3 DEF GsiFresh
    <3> QED
      BY <3>1, <3>2
  <2>8. ahs' = a
    BY <1>2, <1>3
  <2> QED
    BY <1>3, <2>2, <2>4, <2>6, <2>7, <2>8, Reached
<1> QED
  BY <1>4, <1>5

LEMMA RefsInit == ResInit => RefsInv
<1> SUFFICES ASSUME ResInit PROVE RefsInv
  OBVIOUS
<1>1. ResTypes /\ crash = "none"
  BY TypesInit DEF ResInit
<1>2. PICK t : t = qps
  OBVIOUS
<1>3. DOMAIN pds = {} /\ DOMAIN cqs = {} /\ DOMAIN ahs = {} /\ DOMAIN mrs = {}
  BY DEF ResInit
<1>4. DOMAIN t = {Smi, Gsi} /\ \A q \in DOMAIN t : t[q] = Unused
  BY <1>2 DEF ResInit
<1>5. Table(t, QpSlots, QpRec) /\ TablesType(Tables)
  BY <1>1, <1>2, TablesNow DEF ResTypes
<1>6. /\ Unused.type = "MAX" /\ Unused.pd = Null
      /\ Unused.sq = <<>> /\ Unused.rq = <<>> /\ Unused.resp = <<>> /\ Unused \in QpRec
  BY NewQpType DEF Unused, NewQp
<1>7. \A m : UsesOf(t, m) = 0
  <2>1. ASSUME NEW m PROVE UsesOf(t, m) = 0
    <3>1. \A q \in DOMAIN t : CountIn(HeldByQp(t[q]), m) = 0
      BY <1>4, <1>6, NewHolds
    <3>2. UsesOf(t, m) \in Nat
          /\ (UsesOf(t, m) > 0 <=> \E q \in DOMAIN t : CountIn(HeldByQp(t[q]), m) > 0)
      BY <1>5, SlotsType, UsesFinite
    <3> QED
      BY <3>1, <3>2
  <2> QED
    BY <2>1
<1>8. HoldFn(ahs, t) \in [Nat -> Nat]
  <2>1. ASSUME NEW h \in Nat PROVE Holders(ahs, h) + Holders(t, h) \in Nat
    <3>1. Holders(ahs, h) \in Nat
      BY <1>1, SlotsType, HoldersBound DEF ResTypes
    <3>2. Holders(t, h) \in Nat
      BY <1>5, SlotsType, HoldersBound
    <3> QED
      BY <3>1, <3>2
  <2> QED
    BY <2>1 DEF HoldFn
<1>9. UsesFn(t) \in [Nat -> Nat] /\ \A m \in Nat : UsesFn(t)[m] = 0
  BY <1>7 DEF UsesFn
<1>10. GoodTables(Tables, UsesFn(t), HoldFn(ahs, t))
  <2>1. Tables.mrs = mrs /\ Tables.pds = pds /\ Tables.ok = TRUE
    BY DEF Tables
  <2> QED
    BY <1>3, <1>5, <1>8, <1>9, <2>1 DEF GoodTables
<1>11. \A q \in DOMAIN t : QpGood(t[q], q, DOMAIN Tables.pds, DOMAIN cqs)
  <2>1. Len(<<>>) = 0
    OBVIOUS
  <2> QED
    BY <1>4, <1>6, <2>1, SlotsType DEF QpGood
<1>12. State(Tables, cqs, ahs, qps)
  BY <1>2, <1>3, <1>10, <1>11 DEF State
<1>13. Gsi \in DOMAIN qps /\ qps[Gsi] = Unused
  BY <1>2, <1>4
<1> QED
  BY <1>1, <1>12, <1>13 DEF RefsInv

LEMMA RefsNext ==
  ASSUME Fits, Calls \cap {"recv_key", "destroy_mid", "local_sges"} = {}
  PROVE  RefsInv /\ [ResNext]_res_vars => RefsInv'
<1> SUFFICES ASSUME RefsInv, [ResNext]_res_vars PROVE RefsInv'
  OBVIOUS
<1>1. "recv_key" \notin Calls /\ "destroy_mid" \notin Calls /\ "local_sges" \notin Calls
  OBVIOUS
<1>2. CASE \/ AllocPd
           \/ CreateCq
           \/ \E h \in DOMAIN pds : DeallocPd(h)
           \/ \E h \in DOMAIN cqs : DestroyCq(h)
  BY <1>2, TableCallsGood
<1>3. CASE \/ \E h \in DOMAIN ahs : DestroyAh(h)
           \/ \E pd \in 0 .. PdSlots, ok \in BOOLEAN : CreateAh(pd, ok)
  BY <1>3, AhCallsGood
<1>4. CASE \/ \E m \in DOMAIN mrs : DestroyMr(m)
           \/ \E pd \in 0 .. PdSlots, ok \in BOOLEAN :
                \E type \in MrTypes : CreateMr(pd, type, ok)
  BY <1>4, MrCallsGood
<1>5. CASE \E pd \in 0 .. PdSlots, ok \in BOOLEAN :
             \E type \in QpTypes, scq, rcq \in 0 .. CqSlots : CreateQp(type, pd, scq, rcq, ok)
  BY <1>5, CreateQpGood
<1>6. CASE \E q \in DOMAIN qps : DestroyQp(q)
  BY <1>1, <1>6, DestroyQpGood
<1>7. CASE \E q \in DOMAIN qps, sges \in SgeLists : PostRecv(q, sges)
  BY <1>1, <1>7, PostRecvGood
<1>8. CASE \/ \E q \in DOMAIN qps, sges \in SgeLists : PostSendRc(q, sges, FALSE)
           \/ \E q \in DOMAIN qps, sges \in SgeLists \cup {<<>>} : PostSendRc(q, sges, TRUE)
  BY <1>1, <1>8, PostSendRcGood
<1>9. CASE \E q \in DOMAIN qps, sges \in SgeLists :
             \E ah \in 0 .. AhSlots, fits \in BOOLEAN : PostSendUd(q, sges, ah, fits)
  BY <1>9, PostSendUdGood
<1>10. CASE \E q \in DOMAIN qps : CompleteSend(q)
  BY <1>1, <1>10, CompleteSendGood
<1>11. CASE \E q \in DOMAIN qps, first, last, ok \in BOOLEAN : RecvPayload(q, first, last, ok)
  BY <1>11, RecvPayloadGood
<1>12. CASE UNCHANGED res_vars
  <2>1. UNCHANGED <<pds, cqs, ahs, mrs, qps, gsi, crash>>
    BY <1>12 DEF res_vars
  <2>2. crash' # "put_pd"
    BY <2>1 DEF RefsInv
  <2>3. ResTypes'
    BY TypesNext DEF RefsInv
  <2> QED
    BY <2>1, <2>2, <2>3, RefsSame
<1> QED
  BY <1>2, <1>3, <1>4, <1>5, <1>6, <1>7, <1>8, <1>9, <1>10, <1>11, <1>12 DEF ResNext

(***************************************************************************)
(* The inductive invariant: every call, refused or not, leaves every count *)
(* exact, and what an object or a queued WR points to in its table, but    *)
(* for the calls on which the code loses count: those of "recv_key",       *)
(* "destroy_mid" and "local_sges".                                         *)
(***************************************************************************)
THEOREM RefsInvariant ==
  ASSUME Fits, Calls \cap {"recv_key", "destroy_mid", "local_sges"} = {}
  PROVE  ResSpec => []RefsInv
<1>1. ResInit => RefsInv
  BY RefsInit
<1>2. RefsInv /\ [ResNext]_res_vars => RefsInv'
  BY RefsNext
<1> QED
  BY <1>1, <1>2, PTL DEF ResSpec

(***************************************************************************)
(* The counts of PDs, CQs and MRs are what roce_dealloc_pd,                *)
(* roce_destroy_cq and roce_put_mr take them for, after every sequence of  *)
(* calls that does not post a receive WR with an unknown lkey or a local   *)
(* WR with a scatter list and does not destroy a QP in the middle of a     *)
(* SEND, whatever the sizes of the tables and queues, as long as a count   *)
(* fits in its uint32_t.                                                   *)
(***************************************************************************)
THEOREM RefsExactHolds ==
  ASSUME Fits, Calls \cap {"recv_key", "destroy_mid", "local_sges"} = {}
  PROVE  ResSpec => []RefsExact
<1>1. RefsInv => RefsExact
  <2> SUFFICES ASSUME RefsInv PROVE RefsExact
    OBVIOUS
  <2>1. /\ State(Tables, cqs, ahs, qps) /\ Table(mrs, MrSlots, MrRec) /\ Table(qps, QpSlots, QpRec)
        /\ Table(ahs, AhSlots, AhRec) /\ Tables.mrs = mrs /\ Tables.pds = pds /\ crash # "put_pd"
        /\ GoodTables(Tables, UsesFn(qps), HoldFn(ahs, qps))
    BY RefsNow DEF RefsInv
  <2>2. ASSUME NEW h \in DOMAIN pds
        PROVE  pds[h].ref = Holders(mrs, h) + Holders(ahs, h) + Holders(qps, h)
    <3>1. PICK i \in Nat, j \in Nat, k \in Nat :
            i = Holders(mrs, h) /\ j = Holders(ahs, h) /\ k = Holders(qps, h)
      <4>1. Holders(mrs, h) \in Nat
        BY <2>1, SlotsType, HoldersBound
      <4>2. Holders(ahs, h) \in Nat
        BY <2>1, SlotsType, HoldersBound
      <4>3. Holders(qps, h) \in Nat
        BY <2>1, SlotsType, HoldersBound
      <4> QED
        BY <4>1, <4>2, <4>3
    <3>2. h \in Nat
      BY <2>1, TablesFacts DEF GoodTables
    <3>3. HoldFn(ahs, qps)[h] = Holders(ahs, h) + Holders(qps, h)
      BY <3>2 DEF HoldFn
    <3>4. pds[h].ref = Holders(mrs, h) + HoldFn(ahs, qps)[h]
      BY <2>1 DEF GoodTables
    <3>5. pds[h].ref = i + (j + k)
      BY <3>1, <3>3, <3>4
    <3> QED
      BY <3>1, <3>5
  <2>3. \A h \in DOMAIN cqs :
          cqs[h].ref = Cardinality({q \in DOMAIN qps : qps[q].scq = h})
                       + Cardinality({q \in DOMAIN qps : qps[q].rcq = h})
    BY <2>1 DEF State, Scqs, Rcqs
  <2>4. ASSUME NEW m \in DOMAIN mrs PROVE mrs[m].ref = Uses(m)
    <3>1. m \in Nat
      BY <2>1, TablesFacts DEF GoodTables
    <3>2. UsesFn(qps)[m] = UsesOf(qps, m)
      BY <3>1 DEF UsesFn
    <3>3. mrs[m].ref = UsesFn(qps)[m]
      BY <2>1 DEF GoodTables
    <3> QED
      BY <3>2, <3>3 DEF UsesOf, Uses
  <2> QED
    BY <2>1, <2>2, <2>3, <2>4 DEF RefsExact
<1> QED
  BY <1>1, RefsInvariant, PTL

(***************************************************************************)
(* No object outlives what it points to: the PD of an MR, AH or QP, both   *)
(* CQs of a QP, the GSI included, and the MRs of a queued WR are in their  *)
(* tables, so no handle stored in one of them has been freed.  A QP made   *)
(* with an invalid receive CQ ("recv_cq") has none to begin with.          *)
(***************************************************************************)
THEOREM NothingDanglesHolds ==
  ASSUME Fits, Calls \cap {"recv_key", "destroy_mid", "local_sges", "recv_cq"} = {}
  PROVE  ResSpec => []NothingDangles
<1>1. RefsInv => NothingDangles
  <2> SUFFICES ASSUME RefsInv PROVE NothingDangles
    OBVIOUS
  <2>1. /\ State(Tables, cqs, ahs, qps) /\ Table(qps, QpSlots, QpRec)
        /\ Tables.mrs = mrs /\ Tables.pds = pds
        /\ GoodTables(Tables, UsesFn(qps), HoldFn(ahs, qps))
        /\ \A q \in DOMAIN qps : QpGood(qps[q], q, DOMAIN pds, DOMAIN cqs)
    BY RefsNow
  <2>2. \A m \in DOMAIN mrs : Found(pds, mrs[m].pd)
    BY <2>1 DEF GoodTables, Found
  <2>3. \A h \in DOMAIN ahs : Found(pds, ahs[h].pd)
    BY <2>1 DEF State, Found
  <2>4. \A q \in DOMAIN qps : qps[q].type # "MAX" =>
          Found(pds, qps[q].pd) /\ Found(cqs, qps[q].scq) /\ Found(cqs, qps[q].rcq)
    BY <2>1 DEF QpGood, Found
  <2>5. ASSUME NEW q, q \in DOMAIN qps, NEW i, i \in 1 .. Len(HeldByQp(qps[q])),
               NEW j, j \in 1 .. Len(HeldByQp(qps[q])[i])
        PROVE  Found(mrs, HeldByQp(qps[q])[i][j])
    <3>1. PICK lists, m : lists = HeldByQp(qps[q]) /\ m = lists[i][j]
      OBVIOUS
    <3>2. lists \in Lists
      BY <2>1, <2>5, <3>1, HeldTypes DEF Table
    <3>3. m \in Nat
      <4>1. lists[i] \in Seq(Nat)
        BY <2>5, <3>1, <3>2 DEF Lists
      <4> QED
        BY <2>5, <3>1, <4>1
    <3>4. <<i, j>> \in Entries(lists, m)
      BY <2>5, <3>1, EntriesAre
    <3>5. CountIn(lists, m) > 0
      BY <3>2, <3>4, EntriesFinite
    <3>6. UsesOf(qps, m) > 0
      BY <2>1, <2>5, <3>1, <3>5, SlotsType, UsesFinite
    <3>7. UsesFn(qps)[m] > 0
      BY <3>3, <3>6 DEF UsesFn
    <3>8. m \in DOMAIN mrs
      BY <2>1, <3>3, <3>7 DEF GoodTables
    <3> QED
      BY <3>1, <3>8 DEF Found
  <2> QED
    BY <2>2, <2>3, <2>4, <2>5 DEF NothingDangles
<1>2. ResSpec => []RefsInv
  BY RefsInvariant
<1> QED
  BY <1>1, <1>2, PTL

(***************************************************************************)
(* "Destroy later" ends: an MR marked DESTROYED is named by a queued WR,   *)
(* so roce_put_mr frees it when the last such WR is.                       *)
(***************************************************************************)
THEOREM DestroyedMrInUseHolds ==
  ASSUME Fits, Calls \cap {"recv_key", "destroy_mid", "local_sges"} = {}
  PROVE  ResSpec => []DestroyedMrInUse
<1>1. RefsInv => DestroyedMrInUse
  <2> SUFFICES ASSUME RefsInv, NEW m \in DOMAIN mrs, mrs[m].state = "DESTROYED"
               PROVE  Uses(m) > 0
    BY DEF DestroyedMrInUse
  <2>1. Tables.mrs = mrs /\ GoodTables(Tables, UsesFn(qps), HoldFn(ahs, qps))
    BY RefsNow
  <2>2. m \in Nat
    BY <2>1, TablesFacts DEF GoodTables
  <2>3. UsesFn(qps)[m] > 0
    BY <2>1 DEF GoodTables
  <2> QED
    BY <2>2, <2>3 DEF UsesFn, UsesOf, Uses
<1> QED
  BY <1>1, RefsInvariant, PTL

=============================================================================
