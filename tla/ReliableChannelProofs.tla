----------------------- MODULE ReliableChannelProofs -----------------------
(***************************************************************************)
(* A connection is a reliable channel: whatever the network loses, repeats *)
(* or reorders, the messages posted at one end are received at the other,  *)
(* each once, in order and intact, and a WR completes only after its       *)
(* message was received.  The refinement mapping is Channel of             *)
(* RcConnection.                                                           *)
(***************************************************************************)
EXTENDS RcConnectionProofs, FiniteSetTheorems

-----------------------------------------------------------------------------
(* Counting messages. *)

\* The messages among the WRs p, and how many of them come before WR n.
MessagesIn(p) == {i \in 1 .. Len(p) : IsMessage(p[i])}
Before(p, n) == Cardinality({i \in MessagesIn(p) : i < n})

\* The messages of list p that come before WR n.
Earlier(p, n) == {i \in MessagesIn(p) : i < n}

LEMMA EarlierFinite ==
  ASSUME NEW p \in Seq(SendWR), NEW n \in Nat
  PROVE  /\ IsFiniteSet(Earlier(p, n)) /\ Before(p, n) = Cardinality(Earlier(p, n))
         /\ Before(p, n) \in Nat
<1>1. IsFiniteSet(1 .. Len(p))
  BY FS_Interval
<1>2. Earlier(p, n) \subseteq 1 .. Len(p)
  BY DEF Earlier, MessagesIn
<1>3. IsFiniteSet(Earlier(p, n))
  BY <1>1, <1>2, FS_Subset
<1> QED
  BY <1>3, FS_CardinalityType DEF Before, Earlier

\* A message comes before every later WR.
LEMMA BeforeLess ==
  ASSUME NEW p \in Seq(SendWR), NEW m \in MessagesIn(p), NEW n \in Nat, m < n
  PROVE  Before(p, m) < Before(p, n)
<1>1. m \in Nat /\ m \notin Earlier(p, m)
  <2>1. m \in 1 .. Len(p)
    BY DEF MessagesIn
  <2>2. m \in Nat /\ ~(m < m)
    BY <2>1
  <2> QED
    BY <2>2 DEF Earlier
<1>2. Earlier(p, m) \cup {m} \subseteq Earlier(p, n)
  <2>1. ASSUME NEW i \in MessagesIn(p), i < m PROVE i < n
    <3>1. i \in 1 .. Len(p)
      BY DEF MessagesIn
    <3> QED
      BY <1>1, <2>1, <3>1
  <2> QED
    BY <2>1 DEF Earlier
<1>3. Cardinality(Earlier(p, m) \cup {m}) = Before(p, m) + 1 /\ Before(p, m) \in Nat
  <2>1. IsFiniteSet(Earlier(p, m)) /\ Before(p, m) = Cardinality(Earlier(p, m))
    BY <1>1, EarlierFinite
  <2>2. Cardinality(Earlier(p, m) \cup {m}) = Cardinality(Earlier(p, m)) + 1
    BY <1>1, <2>1, FS_AddElement
  <2> QED
    BY <1>1, <2>1, <2>2, EarlierFinite
<1>4. Cardinality(Earlier(p, m) \cup {m}) <= Before(p, n) /\ Before(p, n) \in Nat
  BY <1>2, EarlierFinite, FS_Subset
<1> QED
  BY <1>3, <1>4

\* So two messages have different numbers before them.
LEMMA BeforeTells ==
  ASSUME NEW p \in Seq(SendWR), NEW i \in MessagesIn(p), NEW j \in MessagesIn(p),
         Before(p, i) = Before(p, j)
  PROVE  i = j
<1>1. i \in Nat /\ j \in Nat
  BY DEF MessagesIn
<1>2. Before(p, i) \in Nat /\ Before(p, j) \in Nat
  BY <1>1, EarlierFinite
<1>3. ~(i < j) /\ ~(j < i)
  BY <1>1, <1>2, BeforeLess
<1> QED
  BY <1>1, <1>3

LEMMA BeforeNext ==
  ASSUME NEW p \in Seq(SendWR), NEW m \in MessagesIn(p), NEW n \in Nat, m < n,
         \A i \in MessagesIn(p) : m < i => n <= i
  PROVE  Before(p, n) = Before(p, m) + 1
<1>1. m \in Nat /\ m \notin Earlier(p, m)
  BY DEF MessagesIn, Earlier
<1>2. ASSUME NEW i \in MessagesIn(p) PROVE i < n <=> i < m \/ i = m
  <2>1. i \in Nat
    BY DEF MessagesIn
  <2> QED
    BY <1>1, <2>1
<1>3. Earlier(p, n) = Earlier(p, m) \cup {m}
  BY <1>2 DEF Earlier
<1> QED
  BY <1>1, <1>3, EarlierFinite, FS_AddElement

\* WRs that are no messages do not count.
LEMMA BeforeSame ==
  ASSUME NEW p \in Seq(SendWR), NEW n \in Nat, n \notin MessagesIn(p)
  PROVE  Before(p, n + 1) = Before(p, n)
<1>1. ASSUME NEW i \in MessagesIn(p) PROVE i < n + 1 <=> i < n
  <2>1. i \in Nat /\ i # n
    BY DEF MessagesIn
  <2> QED
    BY <2>1
<1> QED
  BY <1>1 DEF Before

\* One more WR.
LEMMA AppendWr ==
  ASSUME NEW p \in Seq(SendWR), NEW e \in SendWR
  PROVE  /\ Len(p) \in Nat /\ Append(p, e) \in Seq(SendWR) /\ Len(Append(p, e)) = Len(p) + 1
         /\ \A i \in 1 .. Len(p) : Append(p, e)[i] = p[i]
         /\ MessagesIn(Append(p, e)) =
              MessagesIn(p) \cup {i \in {Len(p) + 1} : IsMessage(e)}
         /\ \A n \in 0 .. Len(p) + 1 : Before(Append(p, e), n) = Before(p, n)
<1>1. /\ Len(p) \in Nat /\ Append(p, e) \in Seq(SendWR) /\ Len(Append(p, e)) = Len(p) + 1
      /\ \A i \in 1 .. Len(p) : Append(p, e)[i] = p[i]
      /\ Append(p, e)[Len(p) + 1] = e
  OBVIOUS
<1>2. \A i \in 1 .. Len(p) + 1 : i \in 1 .. Len(p) \/ i = Len(p) + 1
  BY <1>1
<1>3. 1 .. Len(p) \subseteq 1 .. Len(p) + 1 /\ Len(p) + 1 \in 1 .. Len(p) + 1
  BY <1>1
<1>4. MessagesIn(Append(p, e)) = MessagesIn(p) \cup {i \in {Len(p) + 1} : IsMessage(e)}
  BY <1>1, <1>2, <1>3 DEF MessagesIn
<1>5. ASSUME NEW n \in 0 .. Len(p) + 1 PROVE Before(Append(p, e), n) = Before(p, n)
  <2>1. ~(Len(p) + 1 < n)
    BY <1>1
  <2>2. {i \in MessagesIn(Append(p, e)) : i < n} = {i \in MessagesIn(p) : i < n}
    BY <1>4, <2>1
  <2> QED
    BY <2>2 DEF Before
<1> QED
  BY <1>1, <1>4, <1>5

LEMMA MessagesCount ==
  ASSUME NEW p \in Seq(SendWR)
  PROVE  /\ Before(p, Len(p) + 1) = Cardinality(MessagesIn(p))
         /\ Cardinality(MessagesIn(p)) \in Nat
<1>1. {i \in MessagesIn(p) : i < Len(p) + 1} = MessagesIn(p)
  BY DEF MessagesIn
<1>2. Before(p, Len(p) + 1) \in Nat
  BY EarlierFinite
<1> QED
  BY <1>1, <1>2 DEF Before

\* Every number below that of all messages is the number of one.
Enumerated(p) ==
  \A n \in Nat : n < Cardinality(MessagesIn(p)) => \E i \in MessagesIn(p) : Before(p, i) = n

\* A prefix and the element that follows it.
LEMMA PrefixAppend ==
  ASSUME NEW S, NEW p \in Seq(S), NEW n \in 1 .. Len(p)
  PROVE  /\ SubSeq(p, 1, n - 1) \in Seq(S) /\ p[n] \in S
         /\ SubSeq(p, 1, n) = Append(SubSeq(p, 1, n - 1), p[n])
<1>1. /\ Len(p) \in Nat /\ n \in Nat /\ n - 1 \in Nat /\ (n - 1) + 1 = n /\ n <= Len(p)
      /\ p[n] \in S
  OBVIOUS
<1>2. PICK a, b : a = SubSeq(p, 1, n - 1) /\ b = SubSeq(p, 1, n)
  OBVIOUS
<1>3. /\ a \in Seq(S) /\ Len(a) = n - 1 /\ \A i \in 1 .. n - 1 : a[i] = p[i]
  BY <1>1, <1>2
<1>4. /\ b \in Seq(S) /\ Len(b) = n /\ \A i \in 1 .. n : b[i] = p[i]
  BY <1>1, <1>2
<1>5. /\ Append(a, p[n]) \in Seq(S) /\ Len(Append(a, p[n])) = n
      /\ \A i \in 1 .. n - 1 : Append(a, p[n])[i] = p[i]
      /\ Append(a, p[n])[n] = p[n]
  BY <1>1, <1>3
<1>6. \A i \in 1 .. n : Append(a, p[n])[i] = b[i]
  BY <1>1, <1>4, <1>5
<1>7. Append(a, p[n]) = b
  BY <1>4, <1>5, <1>6, SeqEqual
<1> QED
  BY <1>1, <1>2, <1>3, <1>7

LEMMA EnumeratedAppend ==
  ASSUME NEW p \in Seq(SendWR), NEW e \in SendWR, Enumerated(p)
  PROVE  Enumerated(Append(p, e))
<1> DEFINE a == Append(p, e)
<1>1. /\ Len(p) \in Nat /\ a \in Seq(SendWR) /\ Len(a) = Len(p) + 1
      /\ MessagesIn(a) = MessagesIn(p) \cup {i \in {Len(p) + 1} : IsMessage(e)}
      /\ \A n \in 0 .. Len(p) + 1 : Before(a, n) = Before(p, n)
  BY AppendWr
<1> HIDE DEF a
<1>2. /\ Cardinality(MessagesIn(p)) = Before(p, Len(p) + 1)
      /\ Before(p, Len(p) + 1) = Before(a, Len(p) + 1)
      /\ Cardinality(MessagesIn(a)) = Before(a, (Len(p) + 1) + 1)
      /\ Cardinality(MessagesIn(p)) \in Nat
  <2>1. Len(p) + 1 \in 0 .. Len(p) + 1
    BY <1>1
  <2> QED
    BY <1>1, <2>1, MessagesCount
<1>3. ASSUME NEW n \in Nat, n < Cardinality(MessagesIn(p))
      PROVE  \E i \in MessagesIn(a) : Before(a, i) = n
  <2>1. PICK i \in MessagesIn(p) : Before(p, i) = n
    BY <1>3 DEF Enumerated
  <2>2. i \in 0 .. Len(p) + 1 /\ i \in MessagesIn(a)
    BY <1>1 DEF MessagesIn
  <2> QED
    BY <1>1, <2>1, <2>2
<1>4. CASE IsMessage(e)
  <2>1. Len(p) + 1 \in MessagesIn(a) /\ \A i \in MessagesIn(a) : ~(Len(p) + 1 < i)
    BY <1>1, <1>4 DEF MessagesIn
  <2>2. Cardinality(MessagesIn(a)) = Before(a, Len(p) + 1) + 1
    <3>1. Len(p) + 1 < (Len(p) + 1) + 1 /\ (Len(p) + 1) + 1 \in Nat
      BY <1>1
    <3> QED
      BY <1>1, <1>2, <2>1, <3>1, BeforeNext
  <2>3. ASSUME NEW n \in Nat, n < Cardinality(MessagesIn(a))
        PROVE  \E i \in MessagesIn(a) : Before(a, i) = n
    <3>1. n < Cardinality(MessagesIn(p)) \/ n = Before(a, Len(p) + 1)
      BY <1>2, <2>2, <2>3
    <3> QED
      BY <1>3, <2>1, <3>1
  <2> QED
    BY <2>3 DEF Enumerated, a
<1>5. CASE ~IsMessage(e)
  <2>1. MessagesIn(a) = MessagesIn(p)
    BY <1>1, <1>5
  <2> QED
    BY <1>3, <2>1 DEF Enumerated, a
<1> QED
  BY <1>4, <1>5

\* The numbers are those of messages whatever the list.
LEMMA AllEnumerated ==
  ASSUME NEW p \in Seq(SendWR)
  PROVE  Enumerated(p)
<1> DEFINE P(n) == Enumerated(SubSeq(p, 1, n))
<1>1. Len(p) \in Nat /\ SubSeq(p, 1, Len(p)) = p
  OBVIOUS
<1>2. P(0)
  <2>1. SubSeq(p, 1, 0) = <<>>
    OBVIOUS
  <2>2. MessagesIn(<<>>) = {}
    BY DEF MessagesIn
  <2>3. Cardinality(MessagesIn(<<>>)) = 0
    BY <2>2, FS_EmptySet
  <2>4. Enumerated(<<>>)
    BY <2>3 DEF Enumerated
  <2> QED
    BY <2>1, <2>4
<1>3. ASSUME NEW n \in 1 .. Len(p), P(n - 1) PROVE P(n)
  <2>1. /\ SubSeq(p, 1, n - 1) \in Seq(SendWR) /\ p[n] \in SendWR
        /\ SubSeq(p, 1, n) = Append(SubSeq(p, 1, n - 1), p[n])
    BY <1>1, PrefixAppend
  <2> QED
    BY <1>3, <2>1, EnumeratedAppend
<1> HIDE DEF P
<1>4. \A n \in 0 .. Len(p) : P(n)
  <2> DEFINE S == {n \in 0 .. Len(p) : ~P(n)}
  <2>1. SUFFICES ASSUME S # {} PROVE FALSE
    OBVIOUS
  <2>2. PICK k \in S : \A j \in S : k <= j
    <3>1. S \in SUBSET Nat
      BY <1>1
    <3> HIDE DEF S
    <3> QED
      BY <2>1, <3>1, LeastElement
  <2>3. k \in 1 .. Len(p) /\ k - 1 \in 0 .. Len(p) /\ ~(k <= k - 1)
    BY <1>1, <1>2, <2>2
  <2>4. P(k - 1)
    BY <2>2, <2>3
  <2> QED
    BY <1>3, <2>2, <2>3, <2>4
<1>5. P(Len(p))
  BY <1>1, <1>4
<1> QED
  BY <1>1, <1>5 DEF P

-----------------------------------------------------------------------------
(* The mapping. *)

SentOf(p) ==
  [k \in 1 .. Cardinality(MessagesIn(p)) |->
     Content(p[CHOOSE i \in MessagesIn(p) : Before(p, i) = k - 1])]

\* A message is sent at the place that the number of those before it says.
LEMMA SentAt ==
  ASSUME NEW p \in Seq(SendWR), NEW m \in MessagesIn(p)
  PROVE  /\ Before(p, m) \in Nat /\ Before(p, m) < Len(SentOf(p))
         /\ SentOf(p)[Before(p, m) + 1] = Content(p[m])
<1>1. m \in 1 .. Len(p) /\ m \in Nat /\ Len(p) \in Nat
  BY DEF MessagesIn
<1>2. /\ Before(p, m) \in Nat /\ Cardinality(MessagesIn(p)) \in Nat
      /\ Before(p, m) < Cardinality(MessagesIn(p))
  BY <1>1, EarlierFinite, MessagesCount, BeforeLess
<1>3. Len(SentOf(p)) = Cardinality(MessagesIn(p))
  BY <1>2 DEF SentOf
<1>4. PICK n \in Nat : n = Before(p, m)
  BY <1>2
<1>5. (n + 1) - 1 = n /\ n + 1 \in 1 .. Cardinality(MessagesIn(p))
  BY <1>2, <1>4
<1>6. (CHOOSE i \in MessagesIn(p) : Before(p, i) = n) = m
  <2>1. \A i \in MessagesIn(p) : Before(p, i) = n => i = m
    BY <1>4, BeforeTells
  <2> QED
    BY <1>4, <2>1
<1>7. SentOf(p)[n + 1] = Content(p[CHOOSE i \in MessagesIn(p) : Before(p, i) = (n + 1) - 1])
  BY <1>5 DEF SentOf
<1> QED
  BY <1>2, <1>3, <1>4, <1>5, <1>6, <1>7

LEMMA SentSeq ==
  ASSUME NEW p \in Seq(SendWR)
  PROVE  /\ IsList(SentOf(p)) /\ Len(SentOf(p)) = Cardinality(MessagesIn(p))
         /\ Len(SentOf(p)) \in Nat
<1>1. Cardinality(MessagesIn(p)) \in Nat
  BY EarlierFinite, MessagesCount
<1> DEFINE C(k) == Content(p[CHOOSE i \in MessagesIn(p) : Before(p, i) = k - 1])
           n == Cardinality(MessagesIn(p))
<1>2. SentOf(p) = [k \in 1 .. n |-> C(k)]
  BY DEF SentOf
<1> HIDE DEF C, n
<1>3. SentOf(p) \in Seq({C(k) : k \in 1 .. n})
  BY <1>1, <1>2 DEF n
<1> QED
  BY <1>1, <1>2, <1>3 DEF IsList, n

\* roce_post_send sends one message more or none.
LEMMA SentAppend ==
  ASSUME NEW p \in Seq(SendWR), NEW e \in SendWR
  PROVE  /\ IsMessage(e) => /\ Len(SentOf(Append(p, e))) = Len(SentOf(p)) + 1
                            /\ SubSeq(SentOf(Append(p, e)), 1, Len(SentOf(p))) = SentOf(p)
         /\ ~IsMessage(e) => SentOf(Append(p, e)) = SentOf(p)
<1>1. PICK a : a = Append(p, e)
  OBVIOUS
<1>2. /\ Len(p) \in Nat /\ a \in Seq(SendWR) /\ Len(a) = Len(p) + 1
      /\ \A i \in 1 .. Len(p) : a[i] = p[i]
      /\ MessagesIn(a) = MessagesIn(p) \cup {i \in {Len(p) + 1} : IsMessage(e)}
      /\ \A n \in 0 .. Len(p) + 1 : Before(a, n) = Before(p, n)
  BY <1>1, AppendWr
<1>3. PICK s, t : s = SentOf(p) /\ t = SentOf(a)
  OBVIOUS
<1>4. /\ IsList(s) /\ IsList(t) /\ Len(s) \in Nat /\ Len(t) \in Nat
      /\ Len(s) = Cardinality(MessagesIn(p)) /\ Len(t) = Cardinality(MessagesIn(a))
  BY <1>2, <1>3, SentSeq
<1>5. ASSUME NEW k \in 1 .. Len(s) PROVE s[k] = t[k]
  <2>1. PICK n \in Nat : n + 1 = k /\ n < Len(s)
    BY <1>4
  <2>2. PICK m \in MessagesIn(p) : Before(p, m) = n
    BY <1>4, <2>1, AllEnumerated DEF Enumerated
  <2>3. m \in 1 .. Len(p) /\ m \in 0 .. Len(p) + 1 /\ m \in MessagesIn(a)
    BY <1>2 DEF MessagesIn
  <2>4. Before(a, m) = n /\ a[m] = p[m]
    BY <1>2, <2>2, <2>3
  <2>5. s[n + 1] = Content(p[m]) /\ t[n + 1] = Content(a[m])
    BY <1>2, <1>3, <2>2, <2>3, <2>4, SentAt
  <2> QED
    BY <2>1, <2>4, <2>5
<1>6. CASE IsMessage(e)
  <2>1. Len(t) = Len(s) + 1
    <3>1. Len(p) + 1 \in MessagesIn(a) /\ \A i \in MessagesIn(a) : ~(Len(p) + 1 < i)
      BY <1>2, <1>6 DEF MessagesIn
    <3>2. Len(p) + 1 < (Len(p) + 1) + 1 /\ (Len(p) + 1) + 1 \in Nat
      BY <1>2
    <3>3. Before(a, (Len(p) + 1) + 1) = Before(a, Len(p) + 1) + 1
      BY <1>2, <3>1, <3>2, BeforeNext
    <3>4. /\ Before(a, Len(p) + 1) = Before(p, Len(p) + 1)
          /\ Before(a, (Len(p) + 1) + 1) = Cardinality(MessagesIn(a))
          /\ Before(p, Len(p) + 1) = Cardinality(MessagesIn(p))
      <4>1. Len(p) + 1 \in 0 .. Len(p) + 1
        BY <1>2
      <4> QED
        BY <1>2, <4>1, MessagesCount
    <3> QED
      BY <1>4, <3>3, <3>4
  <2>2. SubSeq(t, 1, Len(s)) = s
    <3>1. PICK T : t \in Seq(T)
      BY <1>4 DEF IsList
    <3>2. PICK S : s \in Seq(S)
      BY <1>4 DEF IsList
    <3>3. Len(SubSeq(t, 1, Len(s))) = Len(s) /\ SubSeq(t, 1, Len(s)) \in Seq(T)
          /\ \A k \in 1 .. Len(s) : SubSeq(t, 1, Len(s))[k] = t[k]
      BY <1>4, <2>1, <3>1
    <3> QED
      BY <1>4, <1>5, <3>2, <3>3, SeqEqual
  <2> QED
    BY <1>1, <1>3, <1>6, <2>1, <2>2
<1>7. CASE ~IsMessage(e)
  <2>1. MessagesIn(a) = MessagesIn(p)
    BY <1>2, <1>7
  <2>2. Len(s) = Len(t)
    BY <1>4, <2>1
  <2>3. s = t
    <3>1. PICK T : t \in Seq(T)
      BY <1>4 DEF IsList
    <3>2. PICK S : s \in Seq(S)
      BY <1>4 DEF IsList
    <3> QED
      BY <1>5, <2>2, <3>1, <3>2, SeqEqual
  <2> QED
    BY <1>1, <1>3, <1>7, <2>3
<1> QED
  BY <1>6, <1>7

\* No WR, no message.
LEMMA SentOfNone == SentOf(<<>>) = <<>>
<1>1. MessagesIn(<<>>) = {}
  BY DEF MessagesIn
<1>2. Cardinality(MessagesIn(<<>>)) = 0
  BY <1>1, FS_EmptySet
<1>3. 1 .. 0 = {}
  OBVIOUS
<1> QED
  BY <1>2, <1>3 DEF SentOf

\* One WR more makes the list of messages one longer or leaves it.
LEMMA SentGrows ==
  ASSUME NEW p \in Seq(SendWR), NEW e \in SendWR
  PROVE  SentOf(Append(p, e)) =
           IF IsMessage(e) THEN Append(SentOf(p), Content(e)) ELSE SentOf(p)
<1>1. PICK a : a = Append(p, e)
  OBVIOUS
<1>2. PICK s, t : s = SentOf(p) /\ t = SentOf(a)
  OBVIOUS
<1>3. /\ a \in Seq(SendWR) /\ Len(a) = Len(p) + 1 /\ Len(p) \in Nat /\ a[Len(p) + 1] = e
      /\ MessagesIn(a) = MessagesIn(p) \cup {i \in {Len(p) + 1} : IsMessage(e)}
      /\ \A n \in 0 .. Len(p) + 1 : Before(a, n) = Before(p, n)
  BY <1>1, AppendWr
<1>4. CASE IsMessage(e)
  <2>1. Len(t) = Len(s) + 1 /\ SubSeq(t, 1, Len(s)) = s /\ Len(s) \in Nat
    BY <1>1, <1>2, <1>4, SentAppend, SentSeq
  <2>2. Len(p) + 1 \in MessagesIn(a) /\ Len(p) + 1 \in 0 .. Len(p) + 1
    BY <1>3, <1>4
  <2>3. Before(a, Len(p) + 1) = Len(s)
    BY <1>2, <1>3, <2>2, MessagesCount, SentSeq
  <2>4. t[Len(s) + 1] = Content(e)
    BY <1>2, <1>3, <2>2, <2>3, SentAt
  <2>5. PICK T : t \in Seq(T)
    BY <1>2, <1>3, SentSeq DEF IsList
  <2>6. Len(s) + 1 \in 1 .. Len(t) /\ (Len(s) + 1) - 1 = Len(s)
    BY <2>1
  <2>7. SubSeq(t, 1, Len(s) + 1) = Append(SubSeq(t, 1, Len(s)), t[Len(s) + 1])
    BY <2>5, <2>6, PrefixAppend
  <2>8. SubSeq(t, 1, Len(t)) = t
    BY <2>5
  <2> QED
    BY <1>1, <1>2, <1>4, <2>1, <2>4, <2>7, <2>8
<1>5. CASE ~IsMessage(e)
  BY <1>1, <1>5, SentAppend
<1> QED
  BY <1>4, <1>5

\* The list that MessageList builds WR by WR is that of the numbered messages.
LEMMA MessageListIsSent ==
  ASSUME NEW p \in Seq(SendWR)
  PROVE  MessageList(p) = SentOf(p)
<1> DEFINE Step(f, n) == IF n = 0 THEN <<>>
                         ELSE IF IsMessage(p[n]) THEN Append(f[n - 1], Content(p[n]))
                         ELSE f[n - 1]
           Builds(f) == f = [n \in 0 .. Len(p) |-> Step(f, n)]
           g == [n \in 0 .. Len(p) |-> SentOf(SubSeq(p, 1, n))]
<1>1. Len(p) \in Nat /\ SubSeq(p, 1, Len(p)) = p
  OBVIOUS
<1>2. \A n \in 0 .. Len(p) : g[n] = Step(g, n)
  <2>1. g[0] = <<>>
    <3>1. SubSeq(p, 1, 0) = <<>> /\ g[0] = SentOf(SubSeq(p, 1, 0))
      BY <1>1
    <3>2. SentOf(<<>>) = <<>>
      BY SentOfNone
    <3> QED
      BY <3>1, <3>2
  <2>2. ASSUME NEW n \in 1 .. Len(p)
        PROVE  g[n] = IF IsMessage(p[n]) THEN Append(g[n - 1], Content(p[n])) ELSE g[n - 1]
    <3>1. /\ SubSeq(p, 1, n - 1) \in Seq(SendWR) /\ p[n] \in SendWR
          /\ SubSeq(p, 1, n) = Append(SubSeq(p, 1, n - 1), p[n])
      BY PrefixAppend
    <3>2. n \in 0 .. Len(p) /\ n - 1 \in 0 .. Len(p)
      BY <1>1
    <3>3. g[n] = SentOf(SubSeq(p, 1, n)) /\ g[n - 1] = SentOf(SubSeq(p, 1, n - 1))
      BY <3>2
    <3> HIDE DEF g
    <3> QED
      BY <3>1, <3>3, SentGrows
  <2>3. \A n \in 0 .. Len(p) : n = 0 \/ (n \in 1 .. Len(p) /\ n # 0)
    BY <1>1
  <2> HIDE DEF g
  <2> QED
    BY <2>1, <2>2, <2>3
<1>3. Builds(g)
  BY <1>2
<1>4. ASSUME NEW f, Builds(f)
      PROVE  \A n \in 0 .. Len(p) : f[n] = g[n]
  <2>1. \A n \in 0 .. Len(p) : f[n] = Step(f, n)
    BY <1>4
  <2> HIDE DEF g
  <2> DEFINE S == {n \in 0 .. Len(p) : f[n] # g[n]}
  <2>2. SUFFICES ASSUME S # {} PROVE FALSE
    OBVIOUS
  <2>3. PICK k \in S : \A j \in S : k <= j
    <3>1. S \in SUBSET Nat
      BY <1>1
    <3> HIDE DEF S
    <3> QED
      BY <2>2, <3>1, LeastElement
  <2>4. k \in 0 .. Len(p) /\ f[k] # g[k] /\ f[k] = Step(f, k) /\ g[k] = Step(g, k)
    BY <1>2, <2>1, <2>3
  <2>5. k # 0
    BY <2>4
  <2>6. k - 1 \in 0 .. Len(p) /\ ~(k <= k - 1)
    BY <1>1, <2>4, <2>5
  <2>7. f[k - 1] = g[k - 1]
    BY <2>3, <2>6
  <2> QED
    BY <2>4, <2>5, <2>7
<1>5. MessageList(p) = (CHOOSE f : Builds(f))[Len(p)]
  BY DEF MessageList
<1> HIDE DEF Builds
<1>6. Builds(CHOOSE f : Builds(f))
  BY <1>3
<1>7. Len(p) \in 0 .. Len(p)
  BY <1>1
<1>8. MessageList(p) = g[Len(p)]
  BY <1>4, <1>5, <1>6, <1>7
<1> QED
  BY <1>1, <1>7, <1>8

-----------------------------------------------------------------------------
(* The messages in the queue. *)

\* The first n units of message m.
UnitsOf(m, n) == [i \in 1 .. n |-> <<m, i - 1>>]

\* A packet of a message; the last carries its opcode and its end.
OfMessage(x, p) ==
  /\ x.msg \in MessagesIn(p)
  /\ EndsMessage(x) => x.op = p[x.msg].op /\ x.off + x.len = p[x.msg].len
  /\ x.opaque # 0 => EndsMessage(x) /\ x.opaque = x.msg

\* The message of packet k, or the WR that is posted next.
NextMsg(q, p, k) == IF k <= Len(q) THEN q[k].msg ELSE Len(p) + 1

\* No message is left out between two of the queue, nor behind the last.
QueueWhole(q, p) ==
  /\ \A i \in 1 .. Len(q) : OfMessage(q[i], p)
  /\ \A i \in 1 .. Len(q), m \in MessagesIn(p) :
       EndsMessage(q[i]) /\ q[i].msg < m => NextMsg(q, p, i + 1) <= m

\* The first n messages are those that end before packet k.
UpTo(q, p, k, n) ==
  /\ Before(p, NextMsg(q, p, k)) = n
  /\ \A j \in 1 .. Len(q) : j < k /\ EndsMessage(q[j]) => Before(p, q[j].msg) < n

\* What roce_rc_build_pkts makes of a message.
LEMMA PacketsOfMessage ==
  ASSUME NEW wr \in SendWR, IsMessage(wr), NEW psn \in PSN,
         NEW p \in Seq(SendWR), wr.id \in 1 .. Len(p), p[wr.id] = wr
  PROVE  LET k == RcBuildPkts(wr, psn) IN
         /\ k \in Seq(Packet) /\ Len(k) > 0
         /\ \A i \in 1 .. Len(k) : k[i].msg = wr.id /\ OfMessage(k[i], p)
<1> DEFINE n == NumPkts(wr.len)
           k == RcBuildPkts(wr, psn)
<1>0. wr.op \in PacketOps /\ wr.id \in MessagesIn(p)
  BY DEF IsMessage, PacketOps, MessagesIn
<1>1. n \in Nat \ {0} /\ Mtu \in Nat \ {0} /\ wr.len \in Nat
  BY NumPktsType, RequesterAssumption DEF SendWR
<1> HIDE DEF n
<1>2. k \in Seq(Packet) /\ Len(k) = n
  BY <1>0, BuildPkts DEF n
<1>3. \A i \in 1 .. n : /\ k[i].op = PacketOp(wr.op, i, n) /\ k[i].pos = Position(i, n)
                        /\ k[i].msg = wr.id /\ k[i].off = (i - 1) * Mtu
                        /\ k[i].len = PacketLen(wr.len, i, n)
                        /\ k[i].opaque = Opaque(wr, i, n)
  BY DEF RcBuildPkts, n
<1> HIDE DEF k
<1>4. ASSUME NEW i \in 1 .. n PROVE OfMessage(k[i], p)
  <2>1. /\ k[i].op = PacketOp(wr.op, i, n) /\ k[i].pos = Position(i, n)
        /\ k[i].msg = wr.id /\ k[i].off = (i - 1) * Mtu
        /\ k[i].len = PacketLen(wr.len, i, n) /\ k[i].opaque = Opaque(wr, i, n)
    BY <1>3
  <2>2. EndsMessage(k[i]) <=> i = n
    BY <1>1, <2>1 DEF EndsMessage, Position
  <2>3. CASE i = n
    <3>1. k[i].op = wr.op /\ k[i].opaque = wr.id
      BY <2>1, <2>3 DEF PacketOp, Opaque
    <3>2. k[i].len = wr.len - (n - 1) * Mtu /\ (n - 1) * Mtu \in Int
      BY <1>1, <2>1, <2>3 DEF PacketLen
    <3>3. k[i].off = (n - 1) * Mtu
      BY <2>1, <2>3
    <3>4. k[i].off + k[i].len = wr.len
      BY <1>1, <3>2, <3>3
    <3> QED
      BY <1>0, <2>1, <2>2, <2>3, <3>1, <3>4 DEF OfMessage
  <2>4. CASE i # n
    <3>1. k[i].opaque = 0
      BY <2>1, <2>4 DEF Opaque
    <3> QED
      BY <1>0, <2>1, <2>2, <2>4, <3>1 DEF OfMessage
  <2> QED
    BY <2>3, <2>4
<1> QED
  BY <1>1, <1>2, <1>3, <1>4 DEF k

\* Messages stay messages when one more WR is posted.
LEMMA OfMessageAppend ==
  ASSUME NEW p \in Seq(SendWR), NEW e \in SendWR, NEW x, OfMessage(x, p)
  PROVE  OfMessage(x, Append(p, e)) /\ x.msg \in 1 .. Len(p)
<1>1. /\ \A i \in 1 .. Len(p) : Append(p, e)[i] = p[i]
      /\ MessagesIn(p) \subseteq MessagesIn(Append(p, e))
  BY AppendWr
<1>2. x.msg \in 1 .. Len(p) /\ x.msg \in MessagesIn(Append(p, e))
  BY <1>1 DEF OfMessage, MessagesIn
<1>3. Append(p, e)[x.msg] = p[x.msg]
  BY <1>1, <1>2
<1> QED
  BY <1>2, <1>3 DEF OfMessage

\* roce_post_send adds the packets of a message, or a WR that is none.
LEMMA QueuePost ==
  ASSUME NEW q \in Seq(Packet), NEW d \in Seq(Packet), NEW p \in Seq(SendWR),
         NEW e \in SendWR, QueueWhole(q, p),
         \/ d = <<>> /\ ~IsMessage(e)
         \/ /\ Len(d) > 0 /\ IsMessage(e)
            /\ \A i \in 1 .. Len(d) : d[i].msg = Len(p) + 1 /\ OfMessage(d[i], Append(p, e))
  PROVE  /\ QueueWhole(q \o d, Append(p, e))
         /\ \A k \in 1 .. Len(q) + 1, n \in Nat :
              UpTo(q, p, k, n) => UpTo(q \o d, Append(p, e), k, n)
<1>1. PICK a, c : a = Append(p, e) /\ c = q \o d
  OBVIOUS
<1>2. /\ Len(p) \in Nat /\ a \in Seq(SendWR) /\ Len(a) = Len(p) + 1
      /\ MessagesIn(a) = MessagesIn(p) \cup {i \in {Len(p) + 1} : IsMessage(e)}
      /\ \A n \in 0 .. Len(p) + 1 : Before(a, n) = Before(p, n)
  BY <1>1, AppendWr
<1>3. /\ c \in Seq(Packet) /\ Len(c) = Len(q) + Len(d) /\ Len(q) <= Len(c)
      /\ \A m \in 1 .. Len(q) : m \in 1 .. Len(c) /\ c[m] = q[m]
      /\ \A m \in 1 .. Len(d) : Len(q) + m \in 1 .. Len(c) /\ c[Len(q) + m] = d[m]
      /\ \A k \in 1 .. Len(c) : \/ \E m \in 1 .. Len(q) : c[k] = q[m]
                               \/ \E m \in 1 .. Len(d) : c[k] = d[m]
      /\ Len(q) \in Nat /\ Len(d) \in Nat
  BY <1>1, Joined
<1>4. ASSUME NEW i \in 1 .. Len(q)
      PROVE  OfMessage(q[i], a) /\ q[i].msg \in 1 .. Len(p) /\ c[i] = q[i]
  BY <1>1, <1>3, OfMessageAppend DEF QueueWhole
<1>5. MessagesIn(p) \subseteq 1 .. Len(p) /\ (IsMessage(e) => Len(p) + 1 \in MessagesIn(a))
  BY <1>2 DEF MessagesIn
\* The message of packet k of the old queue, or of the one behind it.
<1>6. ASSUME NEW k \in 1 .. Len(q) + 1
      PROVE  /\ k <= Len(q) => /\ NextMsg(c, a, k) = q[k].msg
                               /\ NextMsg(q, p, k) = q[k].msg
             /\ ~(k <= Len(q)) =>
                  /\ k = Len(q) + 1 /\ NextMsg(q, p, k) = Len(p) + 1
                  /\ NextMsg(c, a, k) = IF d = <<>> THEN Len(p) + 2 ELSE Len(p) + 1
  <2>1. CASE k <= Len(q)
    <3>1. k \in 1 .. Len(q) /\ k <= Len(c)
      BY <1>3, <2>1
    <3> QED
      BY <1>4, <2>1, <3>1 DEF NextMsg
  <2>2. CASE ~(k <= Len(q))
    <3>1. k = Len(q) + 1 /\ NextMsg(q, p, k) = Len(p) + 1
      BY <1>3, <2>2 DEF NextMsg
    <3>2. CASE d = <<>>
      <4>1. ~(k <= Len(c))
        BY <1>3, <3>1, <3>2
      <4> QED
        BY <1>2, <2>2, <3>1, <3>2, <4>1 DEF NextMsg
    <3>3. CASE d # <<>>
      <4>1. 1 \in 1 .. Len(d) /\ d[1].msg = Len(p) + 1
        BY <1>3, <3>3
      <4>2. k <= Len(c) /\ c[k] = d[1]
        BY <1>3, <3>1, <4>1
      <4> QED
        BY <2>2, <3>1, <3>3, <4>1, <4>2 DEF NextMsg
    <3> QED
      BY <3>2, <3>3
  <2> QED
    BY <2>1, <2>2
<1>7. QueueWhole(c, a)
  <2>1. \A i \in 1 .. Len(c) : OfMessage(c[i], a)
    BY <1>1, <1>3, <1>4
  <2>2. ASSUME NEW i \in 1 .. Len(c), NEW m \in MessagesIn(a), EndsMessage(c[i]), c[i].msg < m
        PROVE  NextMsg(c, a, i + 1) <= m
    <3>1. m \in MessagesIn(p) \/ (IsMessage(e) /\ m = Len(p) + 1)
      BY <1>2
    <3>2. CASE i \in 1 .. Len(q)
      <4>1. c[i] = q[i] /\ i + 1 \in 1 .. Len(q) + 1
        BY <1>3, <1>4, <3>2
      <4>2. CASE m \in MessagesIn(p)
        <5>1. NextMsg(q, p, i + 1) <= m /\ m \in 1 .. Len(p)
          BY <1>5, <2>2, <3>2, <4>1, <4>2 DEF QueueWhole
        <5>2. i + 1 <= Len(q)
          BY <1>2, <1>6, <4>1, <5>1
        <5> QED
          BY <1>6, <4>1, <5>1, <5>2
      <4>3. CASE IsMessage(e) /\ m = Len(p) + 1
        <5>1. d # <<>>
          BY <1>3, <4>3
        <5>2. CASE i + 1 <= Len(q)
          <6>1. i + 1 \in 1 .. Len(q)
            BY <1>3, <5>2
          <6>2. q[i + 1].msg \in 1 .. Len(p) /\ NextMsg(c, a, i + 1) = q[i + 1].msg
            BY <1>4, <1>6, <4>1, <5>2, <6>1
          <6> QED
            BY <1>2, <4>3, <6>2
        <5>3. CASE ~(i + 1 <= Len(q))
          BY <1>2, <1>6, <4>1, <4>3, <5>1, <5>3
        <5> QED
          BY <5>2, <5>3
      <4> QED
        BY <3>1, <4>2, <4>3
    <3>3. CASE i \notin 1 .. Len(q)
      <4>1. PICK j \in 1 .. Len(d) : i = Len(q) + j
        <5>1. i - Len(q) \in 1 .. Len(d) /\ i = Len(q) + (i - Len(q))
          BY <1>3, <3>3
        <5> QED
          BY <5>1
      <4>2. c[i].msg = Len(p) + 1
        <5>1. c[i] = d[j]
          BY <1>3, <4>1
        <5>2. d # <<>>
          BY <4>1
        <5> QED
          BY <5>1, <5>2
      <4>3. m <= Len(p) + 1 /\ m \in Nat
        BY <1>2, <1>5, <3>1
      <4> QED
        BY <1>2, <2>2, <4>2, <4>3
    <3> QED
      BY <3>2, <3>3
  <2> QED
    BY <2>1, <2>2 DEF QueueWhole
<1>8. ASSUME NEW k \in 1 .. Len(q) + 1, NEW n \in Nat, UpTo(q, p, k, n)
      PROVE  UpTo(c, a, k, n)
  <2>1. Before(a, NextMsg(c, a, k)) = n
    <3>1. Before(p, NextMsg(q, p, k)) = n
      BY <1>8 DEF UpTo
    <3>2. CASE k <= Len(q)
      <4>1. k \in 1 .. Len(q) /\ q[k].msg \in 0 .. Len(p) + 1
        BY <1>3, <1>4, <3>2
      <4> QED
        BY <1>2, <1>6, <3>1, <3>2, <4>1
    <3>3. CASE ~(k <= Len(q))
      <4>1. Len(p) + 1 \in 0 .. Len(p) + 1 /\ Len(p) + 1 \in Nat
            /\ (Len(p) + 1) + 1 = Len(p) + 2
        BY <1>2
      <4>2. Before(a, Len(p) + 1) = n
        BY <1>2, <1>6, <3>1, <3>3, <4>1
      <4>3. CASE d = <<>>
        <5>1. Len(p) + 1 \notin MessagesIn(a)
          BY <1>2, <1>5, <4>3
        <5> QED
          BY <1>2, <1>6, <3>3, <4>1, <4>2, <4>3, <5>1, BeforeSame
      <4>4. CASE d # <<>>
        BY <1>6, <3>3, <4>2, <4>4
      <4> QED
        BY <4>3, <4>4
    <3> QED
      BY <3>2, <3>3
  <2>2. ASSUME NEW j \in 1 .. Len(c), j < k, EndsMessage(c[j]) PROVE Before(a, c[j].msg) < n
    <3>1. j \in 1 .. Len(q)
      BY <1>3, <2>2
    <3>2. q[j].msg \in 0 .. Len(p) + 1 /\ c[j] = q[j]
      BY <1>2, <1>4, <3>1
    <3>3. Before(p, q[j].msg) < n
      BY <1>8, <2>2, <3>1, <3>2 DEF UpTo
    <3> QED
      BY <1>2, <3>2, <3>3
  <2> QED
    BY <2>1, <2>2 DEF UpTo
<1> QED
  BY <1>1, <1>7, <1>8

\* The queue without its oldest packet.
LEMMA QueueTail ==
  ASSUME NEW q \in Seq(Packet), q # <<>>, NEW p \in Seq(SendWR), QueueWhole(q, p)
  PROVE  /\ QueueWhole(Tail(q), p)
         /\ \A k \in Nat \ {0}, n \in Nat : UpTo(q, p, k + 1, n) => UpTo(Tail(q), p, k, n)
<1>1. PICK t : t = Tail(q)
  OBVIOUS
<1>2. /\ Len(t) = Len(q) - 1 /\ Len(q) \in Nat /\ t \in Seq(Packet)
      /\ \A i \in 1 .. Len(t) : i + 1 \in 1 .. Len(q) /\ t[i] = q[i + 1]
  BY <1>1
<1>3. ASSUME NEW k \in Nat \ {0} PROVE NextMsg(t, p, k) = NextMsg(q, p, k + 1)
  <2>1. k <= Len(t) <=> k + 1 <= Len(q)
    BY <1>2
  <2>2. k <= Len(t) => k \in 1 .. Len(t)
    BY <1>2
  <2> QED
    BY <1>2, <2>1, <2>2 DEF NextMsg
<1>4. QueueWhole(t, p)
  <2>1. ASSUME NEW i \in 1 .. Len(t), NEW m \in MessagesIn(p), EndsMessage(t[i]), t[i].msg < m
        PROVE  NextMsg(t, p, i + 1) <= m
    <3>1. NextMsg(q, p, (i + 1) + 1) <= m
      BY <1>2, <2>1 DEF QueueWhole
    <3> QED
      BY <1>3, <3>1
  <2> QED
    BY <1>2, <2>1 DEF QueueWhole
<1>5. ASSUME NEW k \in Nat \ {0}, NEW n \in Nat, UpTo(q, p, k + 1, n) PROVE UpTo(t, p, k, n)
  <2>1. ASSUME NEW j \in 1 .. Len(t), j < k, EndsMessage(t[j]) PROVE Before(p, t[j].msg) < n
    <3>1. j + 1 \in 1 .. Len(q) /\ t[j] = q[j + 1] /\ j + 1 < k + 1
      BY <1>2, <2>1
    <3> QED
      BY <1>5, <2>1, <3>1 DEF UpTo
  <2> QED
    BY <1>3, <1>5, <2>1 DEF UpTo
<1> QED
  BY <1>1, <1>4, <1>5

\* Behind a packet that ends a message there is one message more.
LEMMA UpToNext ==
  ASSUME NEW q \in Seq(Packet), NEW p \in Seq(SendWR), MessagesInOrder(q, p), QueueWhole(q, p),
         NEW k \in 1 .. Len(q), NEW n \in Nat, UpTo(q, p, k, n)
  PROVE  IF EndsMessage(q[k])
         THEN Before(p, q[k].msg) = n /\ UpTo(q, p, k + 1, n + 1)
         ELSE UpTo(q, p, k + 1, n)
<1>1. PICK x, y, m : x = q[k] /\ y = q[k + 1] /\ m = NextMsg(q, p, k + 1)
  OBVIOUS
<1>2. /\ x.msg \in MessagesIn(p) /\ x.msg \in Nat /\ Before(p, x.msg) = n
      /\ Len(q) \in Nat /\ Len(p) \in Nat /\ x.msg <= Len(p)
  BY <1>1 DEF UpTo, NextMsg, QueueWhole, OfMessage, MessagesIn
<1>3. k + 1 <= Len(q) => NextInMessage(x, y) /\ m = y.msg /\ y.msg \in Nat
  <2> SUFFICES ASSUME k + 1 <= Len(q) PROVE NextInMessage(x, y) /\ m = y.msg /\ y.msg \in Nat
    OBVIOUS
  <2>1. k \in 1 .. Len(q) - 1 /\ k + 1 \in 1 .. Len(q)
    BY <1>2
  <2> QED
    BY <1>1, <2>1 DEF MessagesInOrder, NextMsg, OfPosted
<1>4. ~(k + 1 <= Len(q)) => EndsMessage(x) /\ m = Len(p) + 1
  <2> SUFFICES ASSUME ~(k + 1 <= Len(q)) PROVE EndsMessage(x) /\ m = Len(p) + 1
    OBVIOUS
  <2>1. k = Len(q) /\ q # <<>>
    BY <1>2
  <2> QED
    BY <1>1, <2>1 DEF MessagesInOrder, NextMsg
<1>5. \A j \in 1 .. Len(q) : j < k + 1 => j < k \/ j = k
  BY <1>2
<1>6. CASE EndsMessage(x)
  <2>1. m \in Nat /\ x.msg < m
    BY <1>2, <1>3, <1>4, <1>6 DEF NextInMessage
  <2>2. \A i \in MessagesIn(p) : x.msg < i => m <= i
    BY <1>1, <1>6 DEF QueueWhole
  <2>3. Before(p, m) = n + 1
    BY <1>2, <2>1, <2>2, BeforeNext
  <2>4. ASSUME NEW j \in 1 .. Len(q), j < k + 1, EndsMessage(q[j])
        PROVE  Before(p, q[j].msg) < n + 1
    <3>1. CASE j < k
      <4>1. Before(p, q[j].msg) < n
        BY <2>4, <3>1 DEF UpTo
      <4>2. Before(p, q[j].msg) \in Nat
        <5>1. q[j].msg \in Nat
          BY DEF QueueWhole, OfMessage, MessagesIn
        <5> QED
          BY <5>1, EarlierFinite
      <4> QED
        BY <4>1, <4>2
    <3>2. CASE j = k
      BY <1>1, <1>2, <3>2
    <3> QED
      BY <1>5, <2>4, <3>1, <3>2
  <2> QED
    BY <1>1, <1>2, <1>6, <2>3, <2>4 DEF UpTo
<1>7. CASE ~EndsMessage(x)
  <2>1. m = x.msg
    BY <1>3, <1>4, <1>7 DEF NextInMessage
  <2>2. \A j \in 1 .. Len(q) : j < k + 1 /\ EndsMessage(q[j]) => Before(p, q[j].msg) < n
    BY <1>1, <1>5, <1>7 DEF UpTo
  <2> QED
    BY <1>1, <1>2, <1>7, <2>1, <2>2 DEF UpTo
<1> QED
  BY <1>1, <1>6, <1>7

-----------------------------------------------------------------------------
(* The units that arrived. *)

\* The units of the message in progress that came before packet x.
Partial(x) ==
  InProcess(x) =>
    IF IsSend(x)
    THEN resp_u.wr.byte_len = x.off /\ resp_u.wr.data = UnitsOf(x.msg, x.off)
    ELSE \A i \in 0 .. x.off - 1 : mem[x.va + i] = <<x.msg, i>>

FreshWrs == \A i \in 1 .. Len(rq) : rq[i].byte_len = 0 /\ rq[i].data = <<>>

LEMMA UnitsSeq ==
  ASSUME NEW m \in Nat, NEW n \in Nat
  PROVE  /\ UnitsOf(m, n) \in Seq(Nat \X Nat) /\ Len(UnitsOf(m, n)) = n
         /\ \A i \in 1 .. n : UnitsOf(m, n)[i] = <<m, i - 1>>
         /\ n = 0 => UnitsOf(m, n) = <<>>
<1>1. \A i \in 1 .. n : i - 1 \in Nat
  OBVIOUS
<1>2. UnitsOf(m, n) \in Seq(Nat \X Nat) /\ Len(UnitsOf(m, n)) = n
  BY <1>1 DEF UnitsOf
<1> QED
  BY <1>2 DEF UnitsOf

LEMMA UnitsJoined ==
  ASSUME NEW x \in Packet
  PROVE  UnitsOf(x.msg, x.off) \o Units(x) = UnitsOf(x.msg, x.off + x.len)
<1>1. PICK m, off, len \in Nat : m = x.msg /\ off = x.off /\ len = x.len
  BY DEF Packet
<1>2. PICK u, v, w, t : /\ u = UnitsOf(m, off) /\ v = Units(x) /\ w = u \o v
                        /\ t = UnitsOf(m, off + len)
  OBVIOUS
<1>3. /\ u \in Seq(Nat \X Nat) /\ Len(u) = off /\ \A i \in 1 .. off : u[i] = <<m, i - 1>>
  BY <1>2, UnitsSeq
<1>4. /\ t \in Seq(Nat \X Nat) /\ Len(t) = off + len
      /\ \A i \in 1 .. off + len : t[i] = <<m, i - 1>>
  <2>1. off + len \in Nat
    OBVIOUS
  <2> QED
    BY <1>2, <2>1, UnitsSeq
<1>5. v \in Seq(Nat \X Nat) /\ Len(v) = len /\ \A i \in 1 .. len : v[i] = <<m, off + i - 1>>
  <2>1. v = [i \in 1 .. len |-> <<m, off + i - 1>>]
    BY <1>1, <1>2 DEF Units
  <2>2. \A i \in 1 .. len : off + i - 1 \in Nat
    OBVIOUS
  <2> QED
    BY <2>1, <2>2
<1>6. /\ w \in Seq(Nat \X Nat) /\ Len(w) = off + len
      /\ \A i \in 1 .. off : w[i] = u[i]
      /\ \A i \in 1 .. len : w[off + i] = v[i]
  <2>1. /\ w \in Seq(Nat \X Nat) /\ Len(w) = Len(u) + Len(v)
        /\ \A i \in 1 .. Len(u) : w[i] = u[i]
        /\ \A i \in 1 .. Len(v) : w[Len(u) + i] = v[i]
    <3>1. PICK S : S = Nat \X Nat
      OBVIOUS
    <3>2. u \in Seq(S) /\ v \in Seq(S) /\ w = u \o v
      BY <1>2, <1>3, <1>5, <3>1
    <3>3. /\ w \in Seq(S) /\ Len(w) = Len(u) + Len(v)
          /\ \A i \in 1 .. Len(u) : w[i] = u[i]
          /\ \A i \in 1 .. Len(v) : w[Len(u) + i] = v[i]
      BY ONLY <3>2, Joined
    <3> QED
      BY <3>1, <3>3
  <2>2. Len(u) = off /\ Len(v) = len
    BY <1>3, <1>5
  <2>3. Len(w) = off + len
    BY ONLY <2>1, <2>2
  <2>4. \A i \in 1 .. off : w[i] = u[i]
    BY ONLY <2>1, <2>2
  <2>5. \A i \in 1 .. len : w[off + i] = v[i]
    BY ONLY <2>1, <2>2
  <2> QED
    BY <2>1, <2>3, <2>4, <2>5
<1>7. ASSUME NEW i \in 1 .. off + len PROVE w[i] = t[i]
  <2>1. CASE i <= off
    <3>1. i \in 1 .. off
      BY <2>1
    <3> QED
      BY <1>3, <1>4, <1>6, <3>1
  <2>2. CASE ~(i <= off)
    <3>1. PICK j \in 1 .. len : i = off + j
      <4>1. i - off \in 1 .. len /\ i = off + (i - off)
        BY <2>2
      <4> QED
        BY <4>1
    <3>2. w[i] = <<m, off + j - 1>>
      BY <1>5, <1>6, <3>1
    <3>3. t[i] = <<m, i - 1>>
      BY <1>4
    <3> QED
      BY <3>1, <3>2, <3>3
  <2> QED
    BY <2>1, <2>2
<1>8. w = t
  BY <1>4, <1>6, <1>7, SeqEqual
<1> QED
  BY <1>1, <1>2, <1>8

\* roce_recv_payload puts the payload behind what the receive WR holds.
LEMMA SendStored ==
  ASSUME rq_psn \in PSN, NEW x \in Packet, NEW mapped, RecvPayload(x, mapped),
         rq_psn' = PsnInc(rq_psn), RecvWr \in RecvWR, RecvWr.byte_len = x.off,
         RecvWr.data = UnitsOf(x.msg, x.off)
  PROVE  /\ PopRecvWr /\ ~NoRecvWr(x)
         /\ IF EndsMessage(x)
            THEN \E c : /\ received' = Append(received, c) /\ c.op = x.op
                        /\ c.data = UnitsOf(x.msg, x.off + x.len)
            ELSE /\ received' = received /\ resp_u'.wr.byte_len = x.off + x.len
                 /\ resp_u'.wr.data = UnitsOf(x.msg, x.off + x.len)
<1> DEFINE filled == [RecvWr EXCEPT !.off = @ + x.len, !.byte_len = @ + x.len,
                                    !.data = @ \o Units(x)]
           bytes == SubSeq(filled.data, 1, filled.byte_len)
           c == [wr |-> RecvWr.id, op |-> x.op, msg |-> x.msg, data |-> bytes]
<1>1. ~Drop
  BY IncMoves DEF Drop
<1>2. /\ PopRecvWr /\ ~NoRecvWr(x)
      /\ resp_u' = IF EndsMessage(x) THEN NullU ELSE WrU(filled)
      /\ received' = IF EndsMessage(x) THEN Append(received, c) ELSE received
  BY <1>1 DEF RecvPayload
<1>3. filled.data = UnitsOf(x.msg, x.off + x.len) /\ filled.byte_len = x.off + x.len
  <2>1. filled.data = RecvWr.data \o Units(x) /\ filled.byte_len = RecvWr.byte_len + x.len
    BY DEF RecvWR
  <2> QED
    BY <2>1, UnitsJoined
<1>4. bytes = UnitsOf(x.msg, x.off + x.len)
  <2>1. PICK m, n \in Nat : m = x.msg /\ n = x.off + x.len
    BY DEF Packet
  <2>2. PICK u : u = UnitsOf(m, n)
    OBVIOUS
  <2>3. u \in Seq(Nat \X Nat) /\ Len(u) = n
    BY <2>2, UnitsSeq
  <2>4. bytes = SubSeq(u, 1, n)
    BY <1>3, <2>1, <2>2
  <2>5. SubSeq(u, 1, n) = u
    BY ONLY <2>3, n \in Nat
  <2> QED
    BY <2>1, <2>2, <2>4, <2>5
<1>5. c.op = x.op /\ c.data = bytes
  OBVIOUS
<1> HIDE DEF filled, bytes, c
<1> QED
  BY <1>2, <1>3, <1>4, <1>5, Kinds

\* roce_rdma_write_payload stores the payload behind what the memory holds.
LEMMA WriteStored ==
  ASSUME rq_psn \in PSN, NEW x \in Packet, NEW mapped, RdmaWritePayload(x, mapped),
         rq_psn' = PsnInc(rq_psn), writtenlen = x.off, WriteAddr(x) = x.va + x.off,
         \A i \in 0 .. x.off - 1 : mem[x.va + i] = <<x.msg, i>>
  PROVE  /\ \A i \in 0 .. (x.off + x.len) - 1 : mem'[x.va + i] = <<x.msg, i>>
         /\ IF x.op = "WRITE_IMM"
            THEN /\ rq' = Tail(rq) /\ rq # <<>>
                 /\ \E c : /\ received' = Append(received, c) /\ c.op = x.op
                           /\ c.data = UnitsOf(x.msg, x.off + x.len)
            ELSE received' = received /\ rq' = rq
<1>1. ~Drop /\ ~(rq_psn' = rq_psn)
  BY IncMoves DEF Drop
<1> DEFINE cells == Written(x.va + x.off, x)
           c == [wr |-> Head(rq).id, op |-> x.op, msg |-> x.msg,
                 data |-> [i \in 1 .. x.off + x.len |-> cells[(x.va + x.off) - x.off + i - 1]]]
<1>2. /\ mem' = cells /\ InMr(x.va + x.off, x.len)
      /\ IF x.op = "WRITE_IMM"
         THEN rq' = Tail(rq) /\ rq # <<>> /\ received' = Append(received, c)
         ELSE received' = received /\ rq' = rq
  BY <1>1 DEF RdmaWritePayload
<1>3. PICK va, m, off, len \in Nat : va = x.va /\ m = x.msg /\ off = x.off /\ len = x.len
  BY DEF Packet
<1>4. ASSUME NEW i \in 0 .. (off + len) - 1 PROVE cells[va + i] = <<m, i>>
  <2>1. va + i \in 0 .. MemSize - 1
    <3>1. (va + off) + len <= MemSize /\ MemSize \in Nat
      BY <1>2, <1>3, ResponderAssumption DEF InMr
    <3> QED
      BY <3>1
  <2>2. cells[va + i] = IF va + i \in va + off .. (va + off) + len - 1
                        THEN Units(x)[(va + i) - (va + off) + 1] ELSE mem[va + i]
    BY <1>3, <2>1 DEF Written
  <2> HIDE DEF cells
  <2>3. CASE i < off
    <3>1. ~(va + i \in va + off .. (va + off) + len - 1) /\ i \in 0 .. off - 1
      BY <2>3
    <3> QED
      BY <1>3, <2>2, <3>1
  <2>4. CASE ~(i < off)
    <3>1. /\ va + i \in va + off .. (va + off) + len - 1
          /\ (va + i) - (va + off) + 1 = (i - off) + 1 /\ (i - off) + 1 \in 1 .. len
          /\ off + ((i - off) + 1) - 1 = i
      BY <2>4
    <3>2. Units(x)[(i - off) + 1] = <<m, off + ((i - off) + 1) - 1>>
      BY <1>3, <3>1 DEF Units
    <3> QED
      BY <2>2, <3>1, <3>2
  <2> QED
    BY <2>3, <2>4
<1>5. c.op = x.op
  OBVIOUS
<1>6. c.data = UnitsOf(x.msg, x.off + x.len)
  <2>1. c.data = [i \in 1 .. off + len |-> cells[(va + off) - off + i - 1]]
    BY <1>3
  <2> HIDE DEF cells, c
  <2>2. ASSUME NEW i \in 1 .. off + len PROVE cells[(va + off) - off + i - 1] = <<m, i - 1>>
    <3>1. i - 1 \in 0 .. (off + len) - 1 /\ (va + off) - off + i - 1 = va + (i - 1)
      OBVIOUS
    <3> QED
      BY <1>4, <3>1
  <2>3. c.data = [i \in 1 .. off + len |-> <<m, i - 1>>]
    BY <2>1, <2>2
  <2> QED
    BY <1>3, <2>3 DEF UnitsOf
<1> HIDE DEF cells, c
<1> QED
  BY <1>2, <1>3, <1>4, <1>5, <1>6

-----------------------------------------------------------------------------
(* The invariant. *)

(***************************************************************************)
(* The packet the responder expects, packet k, is behind as many messages  *)
(* as were received; what came of its own message is kept.                 *)
(***************************************************************************)
ChanInv ==
  /\ QueueWhole(Queued, posted) /\ FreshWrs
  /\ \A k \in Nat : Expecting(k) =>
       /\ UpTo(Queued, posted, k, Len(received))
       /\ k <= Len(Queued) => Partial(Queued[k])

\* The WRs are those of RcRequester also between two QPs.
LEMMA WrInvConn ==
  ASSUME NoOtherOps, TypeInv, WrInv, [Next]_vars
  PROVE  WrInv'
<1>1. ReqInv' /\ abort # "opaque"
  BY ReqInvConn DEF WrInv
<1>2. ASSUME NEW w \in Requests, Post(w) PROVE WrInv'
  BY <1>2, PostSendWr DEF Post
<1>3. ASSUME AckLoop PROVE WrInv'
  BY <1>3, AckOneWr, AckDoneWr DEF AckLoop
<1>4. ASSUME UNCHANGED <<queues, posted, completed, abort>> PROVE WrInv'
  BY <1>1, <1>4, WrInvKept DEF queues, Queued
<1>5. ASSUME NEW i, DeliverRequest(i) PROVE WrInv'
  BY <1>4, <1>5 DEF DeliverRequest, queues
<1>6. ASSUME NEW i, DeliverAck(i) PROVE WrInv'
  BY <1>4, <1>6 DEF DeliverAck, HandleAcknowledge, history
<1>7. CASE Lose \/ Duplicate \/ UNCHANGED vars \/ \E cap : Recv(cap)
  BY <1>4, <1>7 DEF Lose, Duplicate, Recv, vars, req_vars, history, queues
<1> QED
  BY <1>2, <1>3, <1>5, <1>6, <1>7 DEF Next

\* The packet expected, when the queue has grown or lost its head.
LEMMA ExpectingKept ==
  ASSUME OneExpected, sq_psn \in PSN, Queued \in Seq(Packet), rq_psn' = rq_psn,
         NEW k \in Nat, Expecting(k)'
  PROVE  /\ /\ sq_psn' = sq_psn /\ Queued' \in Seq(Packet) /\ Len(Queued) <= Len(Queued')
            => Expecting(k)
         /\ Queued' = Tail(Queued) /\ sq_psn' = PsnInc(sq_psn) /\ Queued # <<>>
            => k # 0 /\ Expecting(k + 1)
<1>1. PICK n \in Nat : Expecting(n)
  BY DEF OneExpected
<1>2. n \in 1 .. Len(Queued) + 1 /\ PsnAdd(sq_psn, n - 1) = rq_psn /\ Len(Queued) \in Nat
  BY <1>1 DEF Expecting
<1>3. k \in 1 .. Len(Queued') + 1 /\ PsnAdd(sq_psn', k - 1) = rq_psn
  BY DEF Expecting
<1>4. ASSUME sq_psn' = sq_psn, Queued' \in Seq(Packet), Len(Queued) <= Len(Queued')
      PROVE  Expecting(k)
  <2>1. n \in 1 .. Len(Queued') + 1
    BY <1>2, <1>4
  <2>2. n = k
    BY <1>2, <1>4, <2>1 DEF Expecting
  <2> QED
    BY <1>1, <2>2
<1>5. ASSUME Queued' = Tail(Queued), sq_psn' = PsnInc(sq_psn), Queued # <<>>
      PROVE  k # 0 /\ Expecting(k + 1)
  <2>1. Len(Queued') = Len(Queued) - 1
    BY <1>5
  <2>2. k + 1 \in 1 .. Len(Queued) + 1 /\ k # 0
    BY <1>2, <1>3, <2>1
  <2>3. PsnAdd(sq_psn, (k + 1) - 1) = rq_psn
    <3>1. PsnInc(sq_psn) = PsnAdd(sq_psn, 1) /\ sq_psn \in Int
      BY PsnAssumption DEF PsnInc, PSN
    <3>2. PsnAdd(PsnAdd(sq_psn, 1), k - 1) = PsnAdd(sq_psn, 1 + (k - 1))
      BY <3>1, PsnAddAdd
    <3>3. 1 + (k - 1) = (k + 1) - 1
      OBVIOUS
    <3> QED
      BY <1>3, <1>5, <3>1, <3>2, <3>3
  <2>4. n = k + 1
    BY <1>1, <2>2, <2>3 DEF Expecting
  <2> QED
    BY <1>1, <2>2, <2>4
<1> QED
  BY <1>4, <1>5

\* Steps that leave the responder alone, or what it keeps of the message in progress.
LEMMA ChanKept ==
  ASSUME OneExpected, ChanInv, FreshWrs', sq_psn \in PSN, Queued \in Seq(Packet),
         posted \in Seq(SendWR), IsList(received),
         UNCHANGED <<rq_psn, resp_u, mem, received, posted>>,
         \/ Queued' = Queued /\ sq_psn' = sq_psn
         \/ Queued' = Tail(Queued) /\ sq_psn' = PsnInc(sq_psn) /\ Queued # <<>>
  PROVE  ChanInv'
<1>1. PICK q, t, p : q = Queued /\ t = Queued' /\ p = posted
  OBVIOUS
<1>2. PICK n \in Nat : n = Len(received)
  BY AppendList
<1>3. QueueWhole(q, p)
  BY <1>1 DEF ChanInv
<1>4. ASSUME NEW x, Partial(x) PROVE Partial(x)'
  BY <1>4 DEF Partial
<1>5. CASE Queued' = Queued /\ sq_psn' = sq_psn
  <2>1. ASSUME NEW k \in Nat, Expecting(k)'
        PROVE  UpTo(t, p, k, n) /\ (k <= Len(t) => Partial(t[k])')
    <3>1. Expecting(k)
      BY <1>5, <2>1 DEF Expecting
    <3>2. UpTo(q, p, k, n) /\ (k <= Len(q) => Partial(q[k]))
      BY <1>1, <1>2, <3>1 DEF ChanInv
    <3> QED
      BY <1>1, <1>4, <1>5, <3>2
  <2> QED
    BY <1>1, <1>2, <1>3, <1>5, <2>1 DEF ChanInv
<1>6. CASE Queued' = Tail(Queued) /\ sq_psn' = PsnInc(sq_psn) /\ Queued # <<>>
  <2>1. q \in Seq(Packet) /\ q # <<>> /\ t = Tail(q) /\ p \in Seq(SendWR)
    BY <1>1, <1>6
  <2>2. ASSUME NEW k \in Nat, Expecting(k)'
        PROVE  UpTo(t, p, k, n) /\ (k <= Len(t) => Partial(t[k])')
    <3>1. k # 0 /\ Expecting(k + 1)
      BY <1>6, <2>2, ExpectingKept
    <3>2. UpTo(q, p, k + 1, n) /\ (k + 1 <= Len(q) => Partial(q[k + 1]))
      BY <1>1, <1>2, <3>1 DEF ChanInv
    <3>3. k <= Len(t) => k + 1 <= Len(q) /\ t[k] = q[k + 1]
      BY <2>1, <3>1
    <3> QED
      BY <1>3, <1>4, <2>1, <3>1, <3>2, <3>3, QueueTail
  <2>3. QueueWhole(t, p)
    BY <1>3, <2>1, QueueTail
  <2> QED
    BY <1>1, <1>2, <1>3, <2>2, <2>3 DEF ChanInv
<1> QED
  BY <1>5, <1>6

-----------------------------------------------------------------------------
(* Steps of the channel. *)

LEMMA SameChannel ==
  ASSUME UNCHANGED <<posted, received, completed>>
  PROVE  UNCHANGED <<Sent, Got, Acknowledged>>
  BY DEF Sent, Got, Acknowledged, CompletedIds

LEMMA GotList ==
  ASSUME IsList(received)
  PROVE  IsList(Got) /\ Len(Got) = Len(received) /\ Len(Got) \in Nat
<1> DEFINE n == Len(received)
           G(i) == [op |-> received[i].op, data |-> received[i].data]
<1>1. n \in Nat /\ DOMAIN received = 1 .. n
  BY DEF IsList
<1>2. Got = [i \in 1 .. n |-> G(i)]
  BY <1>1 DEF Got
<1> HIDE DEF n, G
<1>3. PICK T : T = {G(i) : i \in 1 .. n}
  OBVIOUS
<1>4. Got \in Seq(T) /\ Len(Got) = n
  <2>1. \A i \in 1 .. n : G(i) \in T
    BY <1>3
  <2> QED
    BY <1>1, <1>2, <2>1
<1> QED
  BY <1>1, <1>4 DEF IsList, n

\* The completion of a receive WR delivers the next message.
LEMMA DeliverNext ==
  ASSUME posted \in Seq(SendWR), IsList(received), UNCHANGED <<posted, completed>>,
         NEW m \in MessagesIn(posted), posted[m].id = m, Before(posted, m) = Len(received),
         NEW c, received' = Append(received, c),
         c.op = posted[m].op, c.data = UnitsOf(m, posted[m].len)
  PROVE  Channel!Deliver
<1>1. UNCHANGED <<Sent, Acknowledged>> /\ Sent = SentOf(posted)
  BY MessageListIsSent DEF Sent, Acknowledged, CompletedIds
<1>2. PICK n \in Nat : n = Len(received)
  BY AppendList
<1>3. PICK d : d = [op |-> c.op, data |-> c.data]
  OBVIOUS
<1>4. n < Len(Sent) /\ Sent[n + 1] = d
  <2>1. Content(posted[m]) = [op |-> posted[m].op, data |-> UnitsOf(m, posted[m].len)]
    BY DEF Content, UnitsOf
  <2> QED
    BY <1>1, <1>2, <1>3, <2>1, SentAt
<1>5. PICK g, h : g = Got /\ h = Got'
  OBVIOUS
<1>6. IsList(g) /\ Len(g) = n
  BY <1>2, <1>5, GotList
<1>7. /\ IsList(received') /\ Len(received') = n + 1 /\ received'[n + 1] = c
      /\ \A i \in 1 .. n : received'[i] = received[i]
      /\ DOMAIN received = 1 .. n /\ DOMAIN received' = 1 .. n + 1
  <2>1. PICK w : w = received'
    OBVIOUS
  <2>2. /\ IsList(w) /\ Len(w) = n + 1 /\ w[n + 1] = c
        /\ \A i \in 1 .. n : w[i] = received[i]
    BY <1>2, <2>1, AppendList
  <2>3. DOMAIN received = 1 .. n
    BY <1>2 DEF IsList
  <2>4. DOMAIN w = 1 .. n + 1
    BY <2>2 DEF IsList
  <2> QED
    BY <2>1, <2>2, <2>3, <2>4
<1>8. /\ g = [i \in 1 .. n |-> [op |-> received[i].op, data |-> received[i].data]]
      /\ h = [i \in 1 .. n + 1 |-> [op |-> received'[i].op, data |-> received'[i].data]]
  BY <1>5, <1>7 DEF Got
<1>9. \A i \in 1 .. n : h[i] = g[i]
  <2> SUFFICES ASSUME NEW i \in 1 .. n PROVE h[i] = g[i]
    OBVIOUS
  <2>1. i \in 1 .. n + 1 /\ received'[i] = received[i]
    BY <1>7
  <2>2. g[i] = [op |-> received[i].op, data |-> received[i].data]
    BY <1>8
  <2>3. h[i] = [op |-> received'[i].op, data |-> received'[i].data]
    BY <1>8, <2>1
  <2> QED
    BY <2>1, <2>2, <2>3
<1>10. h[n + 1] = d
  <2>1. n + 1 \in 1 .. n + 1
    OBVIOUS
  <2>2. h[n + 1] = [op |-> received'[n + 1].op, data |-> received'[n + 1].data]
    BY <1>8, <2>1
  <2> QED
    BY <1>3, <1>7, <2>2
<1>11. h = Append(g, d)
  <2>1. PICK S : g \in Seq(S)
    BY <1>6 DEF IsList
  <2>2. PICK T : T = S \cup {d}
    OBVIOUS
  <2>3. g \in Seq(T) /\ d \in T
    BY <2>1, <2>2
  <2>4. /\ Append(g, d) \in Seq(T) /\ Len(Append(g, d)) = n + 1
        /\ Append(g, d)[n + 1] = d /\ \A i \in 1 .. n : Append(g, d)[i] = g[i]
    BY <1>6, <2>3, AppendProperties
  <2>5. \A i \in 1 .. n + 1 : i \in 1 .. n \/ i = n + 1
    OBVIOUS
  <2>6. \A i \in 1 .. n + 1 : h[i] = Append(g, d)[i]
    BY <1>9, <1>10, <2>4, <2>5
  <2>7. h \in Seq(T) /\ Len(h) = n + 1
    <3>1. \A i \in 1 .. n + 1 : Append(g, d)[i] \in T
      BY <2>4
    <3>2. \A i \in 1 .. n + 1 : h[i] \in T
      BY <2>6, <3>1
    <3>3. h = [i \in 1 .. n + 1 |-> h[i]]
      BY <1>8
    <3>4. PICK k \in Nat : k = n + 1
      BY <1>6
    <3>5. h = [i \in 1 .. k |-> h[i]] /\ \A i \in 1 .. k : h[i] \in T
      BY <3>2, <3>3, <3>4
    <3>6. Len(h) = k /\ h \in Seq(T)
      BY ONLY <3>4, <3>5, k \in Nat
    <3> QED
      BY <3>4, <3>6
  <2> QED
    BY <2>4, <2>6, <2>7, SeqEqual
<1> QED
  BY <1>1, <1>4, <1>5, <1>6, <1>11 DEF Channel!Deliver

\* A WR completes after its message was received.
LEMMA ConfirmNext ==
  ASSUME posted \in Seq(SendWR), IsList(received), UNCHANGED <<posted, received>>,
         NEW m \in MessagesIn(posted), Before(posted, m) < Len(received),
         CompletedIds \subseteq 1 .. Len(posted), \A i \in CompletedIds : i < m,
         CompletedIds' = CompletedIds \cup {m}
  PROVE  Channel!Confirm
<1>1. UNCHANGED <<Sent, Got>>
  BY DEF Sent, Got
<1>2. PICK D : D = {i \in CompletedIds : IsMessage(posted[i])}
  OBVIOUS
<1>3. m \in 1 .. Len(posted) /\ IsMessage(posted[m]) /\ m \in Nat
  BY DEF MessagesIn
<1>4. {i \in CompletedIds' : IsMessage(posted'[i])} = D \cup {m}
  BY <1>2, <1>3
<1>5. D \subseteq Earlier(posted, m)
  BY <1>2 DEF Earlier, MessagesIn
<1>6. m \notin D
  BY <1>3, <1>5 DEF Earlier
<1>7. /\ IsFiniteSet(D) /\ Cardinality(D) <= Before(posted, m)
      /\ Cardinality(D) \in Nat /\ Before(posted, m) \in Nat
  <2>1. PICK E : E = Earlier(posted, m)
    OBVIOUS
  <2>2. IsFiniteSet(E) /\ Before(posted, m) = Cardinality(E) /\ Before(posted, m) \in Nat
    BY <1>3, <2>1, EarlierFinite
  <2>3. IsFiniteSet(D) /\ Cardinality(D) <= Cardinality(E)
    BY <1>5, <2>1, <2>2, FS_Subset
  <2>4. Cardinality(D) \in Nat
    BY <2>3, FS_CardinalityType
  <2> QED
    BY <2>2, <2>3, <2>4
<1>8. Acknowledged = Cardinality(D) /\ Acknowledged' = Cardinality(D \cup {m})
  BY <1>2, <1>4 DEF Acknowledged
<1>9. Acknowledged' = Acknowledged + 1
  BY <1>6, <1>7, <1>8, FS_AddElement
<1>10. Len(Got) = Len(received) /\ Len(Got) \in Nat
  BY GotList
<1>11. Acknowledged < Len(Got)
  BY <1>7, <1>8, <1>10
<1> QED
  BY <1>1, <1>9, <1>11 DEF Channel!Confirm

-----------------------------------------------------------------------------
(* A packet that arrives in its turn. *)

\* A receive WR at the head of the queue may leave it.
LEMMA FreshKept ==
  ASSUME FreshWrs, NEW w \in Seq(RecvWR), w = rq, \/ rq' = w
                                                  \/ rq' = Tail(w) /\ w # <<>>
  PROVE  FreshWrs'
<1>1. CASE rq' = w
  BY <1>1 DEF FreshWrs
<1>2. CASE rq' = Tail(w) /\ w # <<>>
  <2>1. \A i \in 1 .. Len(Tail(w)) : i + 1 \in 1 .. Len(w) /\ Tail(w)[i] = w[i + 1]
    BY <1>2
  <2> QED
    BY <1>2, <2>1 DEF FreshWrs
<1> QED
  BY <1>1, <1>2

\* What the packet stores: the rest of its message, which completes a receive WR.
LEMMA PacketStored ==
  ASSUME WellUsed, TypeInv, WriteInv, RecvWrs, MessagesInOrder(Queued, posted),
         QueueOfRequests, RoomyWrs, FreshWrs, rq_psn \in PSN,
         Queued \in Seq(Packet), posted \in Seq(SendWR), Len(posted) <= MaxPosts,
         NEW k \in 1 .. Len(Queued), Expecting(k), Delivered(k), AtBoundary(k),
         NEW x \in Packet, x = Queued[k], Partial(x),
         ExpectedRequest(x, TRUE), rq_psn' = PsnInc(rq_psn)
  PROVE  /\ FreshWrs'
         /\ ~EndsMessage(x) =>
              IF IsSend(x) THEN /\ resp_u'.wr.byte_len = x.off + x.len
                                /\ resp_u'.wr.data = UnitsOf(x.msg, x.off + x.len)
              ELSE \A i \in 0 .. (x.off + x.len) - 1 : mem'[x.va + i] = <<x.msg, i>>
         /\ IF EndsMessage(x)
            THEN \E c : /\ received' = Append(received, c) /\ c.op = x.op
                        /\ c.data = UnitsOf(x.msg, x.off + x.len)
            ELSE received' = received
<1>1. OfPosted(x, posted) /\ x.psn = rq_psn /\ OfRequest(x)
  BY DEF Expecting, MessagesInOrder, QueueOfRequests
<1>2. /\ EnoughRecvs /\ rq \in Seq(RecvWR) /\ IsList(received)
      /\ resp_u.kind = "wr" => resp_u.wr \in RecvWR
  BY DEF WellUsed, RecvWrs
<1>3. x.off \in Nat /\ x.msg \in Nat
  BY DEF Packet
<1>4. /\ InProcess(x) \in BOOLEAN /\ EndsMessage(x) \in BOOLEAN /\ IsSend(x) \in BOOLEAN
      /\ IF InProcess(x)
         THEN IF IsSend(x)
              THEN resp_u.kind = "wr" /\ resp_u.wr.off = x.off /\ writtenlen = 0
              ELSE resp_u.kind # "wr" /\ writtenlen = x.off /\ writtenlen # 0
         ELSE resp_u = NullU /\ resp_u.kind # "wr" /\ writtenlen = 0 /\ x.off = 0
  <2>1. k <= Len(Queued) /\ (InProcess(x) => x.off > 0) /\ (~InProcess(x) => x.off = 0)
    BY <1>1 DEF OfPosted
  <2> QED
    BY <1>3, <2>1, Kinds DEF AtBoundary, InProcess, EndsMessage, IsSend
<1>5. resp_u.kind # "wr" => rq # <<>>
  BY <1>1, <1>2, RecvWrLeft DEF Delivered, OfPosted
<1>6. PICK w \in Seq(RecvWR) : w = rq
  BY <1>2
<1>7. CASE IsSend(x)
  <2>1. RecvPayload(x, TRUE)
    BY <1>1, <1>7 DEF ExpectedRequest, OfRequest, IsSend
  <2>2. /\ RecvWr \in RecvWR /\ RecvWr.byte_len = x.off
        /\ RecvWr.data = UnitsOf(x.msg, x.off)
    <3>1. CASE InProcess(x)
      <4>1. resp_u.kind = "wr" /\ resp_u # NullU
        BY <1>4, <1>7, <3>1, Kinds
      <4>2. RecvWr = resp_u.wr /\ resp_u.wr \in RecvWR
        BY <1>2, <4>1 DEF RecvWr
      <4>3. resp_u.wr.byte_len = x.off /\ resp_u.wr.data = UnitsOf(x.msg, x.off)
        BY <1>7, <3>1 DEF Partial
      <4> QED
        BY ONLY <4>2, <4>3
    <3>2. CASE ~InProcess(x)
      <4>1. resp_u = NullU /\ x.off = 0 /\ rq # <<>>
        BY <1>4, <1>5, <3>2
      <4>2. RecvWr = w[1] /\ 1 \in 1 .. Len(w) /\ w[1] \in RecvWR
        BY <1>6, <4>1 DEF RecvWr
      <4>3. w[1].byte_len = 0 /\ w[1].data = <<>>
        BY <1>6, <4>2 DEF FreshWrs
      <4>4. UnitsOf(x.msg, x.off) = <<>>
        BY <1>3, <4>1, UnitsSeq
      <4> QED
        BY <4>1, <4>2, <4>3, <4>4
    <3> QED
      BY <3>1, <3>2
  <2>3. /\ PopRecvWr /\ ~NoRecvWr(x)
        /\ IF EndsMessage(x)
           THEN \E c : /\ received' = Append(received, c) /\ c.op = x.op
                       /\ c.data = UnitsOf(x.msg, x.off + x.len)
           ELSE /\ received' = received /\ resp_u'.wr.byte_len = x.off + x.len
                /\ resp_u'.wr.data = UnitsOf(x.msg, x.off + x.len)
    BY <2>1, <2>2, SendStored
  <2>4. FreshWrs'
    <3>1. rq' = w \/ (rq' = Tail(w) /\ w # <<>>)
      BY <1>6, <2>3 DEF PopRecvWr, NoRecvWr
    <3> QED
      BY <1>6, <3>1, FreshKept
  <2> QED
    BY <1>4, <1>7, <2>3, <2>4
<1>8. CASE ~IsSend(x)
  <2>1. RdmaWritePayload(x, TRUE)
    BY <1>8 DEF ExpectedRequest, IsSend
  <2>2. resp_u.kind # "wr" /\ InProcess(x) = (writtenlen # 0)
    BY <1>4, <1>8
  <2>3. writtenlen = x.off /\ WriteAddr(x) = x.va + x.off
    BY <1>1, <1>8, <2>2, WriteAddrPlace
  <2>4. \A i \in 0 .. x.off - 1 : mem[x.va + i] = <<x.msg, i>>
    BY <1>4, <1>8 DEF Partial
  <2>5. /\ \A i \in 0 .. (x.off + x.len) - 1 : mem'[x.va + i] = <<x.msg, i>>
        /\ IF x.op = "WRITE_IMM"
           THEN /\ rq' = Tail(rq) /\ rq # <<>>
                /\ \E c : /\ received' = Append(received, c) /\ c.op = x.op
                          /\ c.data = UnitsOf(x.msg, x.off + x.len)
           ELSE received' = received /\ rq' = rq
    BY <2>1, <2>3, <2>4, WriteStored
  <2>6. EndsMessage(x) <=> x.op = "WRITE_IMM"
    <3>1. EndsMessage(x) => x.op = "WRITE_IMM"
      BY <1>1, <1>8 DEF OfRequest
    <3>2. ~EndsMessage(x) => x.op \in {"SEND", "WRITE"}
      <4>1. CASE k = Len(Queued)
        <5>1. EndsMessage(x)
          BY <4>1 DEF MessagesInOrder
        <5> QED
          BY <5>1
      <4>2. CASE k # Len(Queued)
        <5>1. k \in 1 .. Len(Queued) - 1
          BY <4>2
        <5> QED
          BY <5>1 DEF MessagesInOrder, NextInMessage
      <4> QED
        BY <4>1, <4>2
    <3> QED
      BY <3>1, <3>2
  <2>7. FreshWrs'
    BY <1>6, <2>5, FreshKept
  <2> QED
    BY <1>4, <1>8, <2>5, <2>6, <2>7
<1> QED
  BY <1>4, <1>7, <1>8

\* The packet expected is taken: it may complete the receive WR of its message, and its
\* rest comes next.
LEMMA ChanTaken ==
  ASSUME WellUsed, TypeInv, WriteInv, RecvWrs, MessagesInOrder(Queued, posted),
         QueueOfRequests, RoomyWrs, PostedNumbered, ChanInv, rq_psn \in PSN,
         Queued \in Seq(Packet), posted \in Seq(SendWR), Len(posted) <= MaxPosts,
         NEW k \in 1 .. Len(Queued), Expecting(k), Delivered(k), AtBoundary(k),
         NEW mapped \in MapOutcomes, ExpectedRequest(Queued[k], mapped),
         Queued' = Queued, UNCHANGED <<posted, completed>>
  PROVE  /\ rq_psn' = PsnInc(rq_psn) /\ FreshWrs'
         /\ UpTo(Queued, posted, k + 1, Len(received'))
         /\ (k + 1 <= Len(Queued) => Partial(Queued[k + 1]))'
         /\ Channel!Deliver \/ UNCHANGED <<Sent, Got, Acknowledged>>
<1>1. PICK x, y : x = Queued[k] /\ y = Queued[k + 1]
  OBVIOUS
<1>2. x \in Packet /\ OfMessage(x, posted) /\ Partial(x) /\ k \in Nat /\ k <= Len(Queued)
  BY <1>1 DEF ChanInv, QueueWhole
<1>3. ExpectedRequest(x, TRUE) /\ rq_psn' = PsnInc(rq_psn)
  <2>1. mapped = TRUE
    BY DEF WellUsed
  <2> QED
    BY <1>1, <2>1, ExpectedTaken
<1>4. /\ FreshWrs'
      /\ ~EndsMessage(x) =>
           IF IsSend(x) THEN /\ resp_u'.wr.byte_len = x.off + x.len
                             /\ resp_u'.wr.data = UnitsOf(x.msg, x.off + x.len)
           ELSE \A i \in 0 .. (x.off + x.len) - 1 : mem'[x.va + i] = <<x.msg, i>>
      /\ IF EndsMessage(x)
         THEN \E c : /\ received' = Append(received, c) /\ c.op = x.op
                     /\ c.data = UnitsOf(x.msg, x.off + x.len)
         ELSE received' = received
  BY <1>1, <1>2, <1>3, PacketStored DEF ChanInv
<1>5. PICK n \in Nat : n = Len(received) /\ UpTo(Queued, posted, k, n)
  BY <1>2, AppendList DEF ChanInv, RecvWrs
<1>6. IF EndsMessage(x)
      THEN Before(posted, x.msg) = n /\ UpTo(Queued, posted, k + 1, n + 1)
      ELSE UpTo(Queued, posted, k + 1, n)
  BY <1>1, <1>5, UpToNext DEF ChanInv
<1>7. IsList(received)
  BY DEF RecvWrs
<1>8. /\ UpTo(Queued, posted, k + 1, Len(received'))
      /\ Channel!Deliver \/ UNCHANGED <<Sent, Got, Acknowledged>>
  <2>1. CASE EndsMessage(x)
    <3>1. PICK c : /\ received' = Append(received, c) /\ c.op = x.op
                   /\ c.data = UnitsOf(x.msg, x.off + x.len)
      BY <1>4, <2>1
    <3>2. PICK m \in MessagesIn(posted) : m = x.msg
      BY <1>2 DEF OfMessage
    <3>3. posted[m].id = m /\ Before(posted, m) = Len(received)
      BY <1>5, <1>6, <2>1, <3>2 DEF PostedNumbered, MessagesIn
    <3>4. c.op = posted[m].op /\ c.data = UnitsOf(m, posted[m].len)
      BY <1>2, <2>1, <3>1, <3>2 DEF OfMessage
    <3>5. Channel!Deliver
      BY <1>7, <3>1, <3>3, <3>4, DeliverNext
    <3>6. Len(received') = n + 1
      BY <1>5, <1>7, <3>1, AppendList
    <3> QED
      BY <1>6, <2>1, <3>5, <3>6
  <2>2. CASE ~EndsMessage(x)
    <3>1. received' = received
      BY <1>4, <2>2
    <3> QED
      BY <1>5, <1>6, <2>2, <3>1, SameChannel
  <2> QED
    BY <2>1, <2>2
<1>9. (k + 1 <= Len(Queued) => Partial(Queued[k + 1]))'
  <2>1. SUFFICES ASSUME k + 1 <= Len(Queued), InProcess(y)
                 PROVE  IF IsSend(y) THEN /\ resp_u'.wr.byte_len = y.off
                                          /\ resp_u'.wr.data = UnitsOf(y.msg, y.off)
                        ELSE \A i \in 0 .. y.off - 1 : mem'[y.va + i] = <<y.msg, i>>
    BY <1>1 DEF Partial
  <2>2. /\ ~EndsMessage(x) /\ (IsSend(x) <=> IsSend(y))
        /\ y.msg = x.msg /\ y.off = x.off + x.len
    <3>1. k \in 1 .. Len(Queued) - 1
      BY <2>1
    <3>2. NextInMessage(x, y)
      BY <1>1, <3>1 DEF MessagesInOrder
    <3> QED
      BY <2>1, <3>2 DEF NextInMessage
  <2>3. x.va = y.va
    <3>1. k \in 1 .. Len(Queued) /\ k + 1 \in 1 .. Len(Queued)
      BY <2>1
    <3>2. OfPosted(x, posted) /\ OfPosted(y, posted)
      BY <1>1, <3>1 DEF MessagesInOrder
    <3> QED
      BY <2>2, <3>2 DEF OfPosted
  <2>4. IsSend(x) \in BOOLEAN /\ IsSend(y) \in BOOLEAN
    BY DEF IsSend
  <2>5. PICK off : off = x.off + x.len /\ off = y.off
    BY <2>2
  <2> QED
    BY <1>4, <2>2, <2>3, <2>4, <2>5
<1> QED
  BY <1>3, <1>4, <1>8, <1>9

-----------------------------------------------------------------------------
(* Posting and completing. *)

\* roce_post_send with RDMA WRITEs with immediate data only: a WR becomes packets if and
\* only if it is a message.
LEMMA PostedPackets ==
  ASSUME WellUsed, ReqInv, NEW w \in Requests, NEW e \in SendWR, e = NewWr(w),
         NEW d \in Seq(Packet), d = NewPkts(w), NEW p \in Seq(SendWR), p = Append(posted, e)
  PROVE  \/ d = <<>> /\ ~IsMessage(e)
         \/ /\ Len(d) > 0 /\ IsMessage(e)
            /\ \A i \in 1 .. Len(d) : d[i].msg = Len(posted) + 1 /\ OfMessage(d[i], p)
<1>1. e.op = w.op /\ e.id = Len(posted) + 1 /\ w.op \notin {"WRITE", "SEND_INV"}
  BY DEF NewWr, WellUsed
<1>2. IsMessage(e) <=> w.op \in PacketOps /\ ~e.error
  BY <1>1 DEF IsMessage, PacketOps
<1>3. posted \in Seq(SendWR) /\ req_psn \in PSN
  BY DEF ReqInv, ReqTypeOK
<1>4. CASE IsMessage(e)
  <2>1. d = RcBuildPkts(e, req_psn)
    BY <1>2, <1>4 DEF NewPkts
  <2>2. e.id \in 1 .. Len(p) /\ p[e.id] = e
    BY <1>1, <1>3, AppendWr
  <2>3. /\ Len(d) > 0
        /\ \A i \in 1 .. Len(d) : d[i].msg = e.id /\ OfMessage(d[i], p)
    <3>1. PICK psn \in PSN : psn = req_psn
      BY <1>3
    <3>2. /\ Len(RcBuildPkts(e, psn)) > 0
          /\ \A i \in 1 .. Len(RcBuildPkts(e, psn)) :
               /\ RcBuildPkts(e, psn)[i].msg = e.id
               /\ OfMessage(RcBuildPkts(e, psn)[i], p)
      BY ONLY <1>4, <2>2, PacketsOfMessage, e \in SendWR, p \in Seq(SendWR), psn \in PSN
    <3> QED
      BY ONLY <2>1, <3>1, <3>2
  <2> QED
    BY <1>1, <1>4, <2>3
<1>5. CASE ~IsMessage(e)
  BY <1>2, <1>5 DEF NewPkts
<1> QED
  BY <1>4, <1>5

\* The WRs that completed stay those they were.
LEMMA AcknowledgedKept ==
  ASSUME posted \in Seq(SendWR), NEW e \in SendWR, posted' = Append(posted, e),
         completed' = completed, CompletedIds \subseteq 1 .. Len(posted)
  PROVE  UNCHANGED Acknowledged
<1>1. CompletedIds' = CompletedIds
  BY DEF CompletedIds
<1>2. \A i \in CompletedIds : posted'[i] = posted[i]
  BY AppendWr
<1>3. {i \in CompletedIds' : IsMessage(posted'[i])} = {i \in CompletedIds : IsMessage(posted[i])}
  BY <1>1, <1>2 DEF IsMessage
<1> QED
  BY <1>3 DEF Acknowledged

\* The packets that are added come behind those expected before.
LEMMA PostedBehind ==
  ASSUME ChanInv, Queued \in Seq(Packet), UNCHANGED <<resp_u, mem, received>>,
         IsList(received), NEW p, posted' = p, NEW q \in Seq(Packet), Queued' = q,
         \A i \in 1 .. Len(Queued) : q[i] = Queued[i],
         Len(Queued) < Len(q) => ~InProcess(q[Len(Queued) + 1]),
         \A k \in 1 .. Len(Queued) + 1, n \in Nat :
           UpTo(Queued, posted, k, n) => UpTo(q, p, k, n),
         NEW k \in Nat, Expecting(k)
  PROVE  /\ UpTo(q, p, k, Len(received))
         /\ k <= Len(q) => Partial(q[k])'
<1>1. /\ k \in 1 .. Len(Queued) + 1 /\ UpTo(Queued, posted, k, Len(received))
      /\ k <= Len(Queued) => Partial(Queued[k])
  BY DEF ChanInv, Expecting
<1>2. Len(received) \in Nat /\ Len(Queued) \in Nat /\ Len(q) \in Nat
  BY AppendList
<1>3. CASE k <= Len(Queued)
  <2>1. PICK x : x = q[k]
    OBVIOUS
  <2>2. Partial(x)
    BY <1>1, <1>3, <2>1
  <2>3. Partial(x)'
    BY <2>2 DEF Partial
  <2> QED
    BY <1>1, <1>2, <2>1, <2>3
<1>4. CASE ~(k <= Len(Queued))
  <2>1. k = Len(Queued) + 1
    BY <1>1, <1>2, <1>4
  <2>2. k <= Len(q) => ~InProcess(q[k])
    BY <1>2, <2>1
  <2> QED
    BY <1>1, <1>2, <2>2 DEF Partial
<1> QED
  BY <1>3, <1>4

LEMMA PostChan ==
  ASSUME WellUsed, ReqInv, WrInv, MessagesInOrder(Queued, posted), OneExpected, ChanInv,
         IsList(received), NEW w \in Requests, PostSend(w),
         UNCHANGED <<rq_psn, rq, resp_u, mem, received>>
  PROVE  ChanInv' /\ (Channel!Send \/ UNCHANGED <<Sent, Got, Acknowledged>>)
<1>1. /\ sq_psn' = sq_psn /\ sq_psn \in PSN /\ NewWr(w) \in SendWR
      /\ \/ UNCHANGED <<outgoing_pkts, pending_pkts, req_net, posted>>
         \/ /\ Queued' = Queued \o NewPkts(w) /\ posted' = Append(posted, NewWr(w))
            /\ NewPkts(w) \in Seq(Packet)
  BY PostQueue DEF ReqInv, ReqTypeOK
<1>2. /\ Queued \in Seq(Packet) /\ Queued' \in Seq(Packet) /\ posted \in Seq(SendWR)
      /\ Len(Queued) <= Len(Queued') /\ completed' = completed
      /\ \A i \in 1 .. Len(Queued) : Queued'[i] = Queued[i]
      /\ Len(Queued) < Len(Queued') => ~InProcess(Queued'[Len(Queued) + 1])
  BY PostMessages DEF PostSend
<1>3. FreshWrs'
  BY DEF ChanInv, FreshWrs
<1>4. CASE UNCHANGED <<outgoing_pkts, pending_pkts, req_net, posted>>
  <2>1. Queued' = Queued
    BY <1>4 DEF Queued
  <2>2. ChanInv'
    BY <1>1, <1>2, <1>3, <1>4, <2>1, ChanKept
  <2> QED
    BY <1>2, <1>4, <2>2, SameChannel
<1>5. CASE /\ Queued' = Queued \o NewPkts(w) /\ posted' = Append(posted, NewWr(w))
           /\ NewPkts(w) \in Seq(Packet)
  <2>1. PICK e \in SendWR, d \in Seq(Packet) : e = NewWr(w) /\ d = NewPkts(w)
    BY <1>1, <1>5
  <2>2. PICK p \in Seq(SendWR), q \in Seq(Packet) :
          p = Append(posted, e) /\ q = Queued \o d /\ posted' = p /\ Queued' = q
    BY <1>2, <1>5, <2>1, AppendWr
  <2>3. \/ d = <<>> /\ ~IsMessage(e)
        \/ /\ Len(d) > 0 /\ IsMessage(e)
           /\ \A i \in 1 .. Len(d) : d[i].msg = Len(posted) + 1 /\ OfMessage(d[i], p)
    BY <2>1, <2>2, PostedPackets
  <2>4. /\ QueueWhole(q, p)
        /\ \A k \in 1 .. Len(Queued) + 1, n \in Nat :
             UpTo(Queued, posted, k, n) => UpTo(q, p, k, n)
    BY <1>2, <2>2, <2>3, QueuePost DEF ChanInv
  <2>5. ASSUME NEW k \in Nat, Expecting(k)'
        PROVE  /\ UpTo(q, p, k, Len(received))
               /\ k <= Len(q) => Partial(q[k])'
    <3>1. Expecting(k)
      BY <1>1, <1>2, <2>5, ExpectingKept
    <3> QED
      BY <1>2, <2>2, <2>4, <3>1, PostedBehind
  <2>6. ChanInv'
    BY <1>3, <2>2, <2>4, <2>5 DEF ChanInv
  <2>7. UNCHANGED <<Got, Acknowledged>>
    <3>1. CompletedIds \subseteq 1 .. Len(posted)
      BY DEF WrInv, WRsConserved, MessageIds
    <3>2. UNCHANGED Got
      BY DEF Got
    <3> QED
      BY <1>2, <2>2, <3>1, <3>2, AcknowledgedKept
  <2>8. Sent = SentOf(posted) /\ Sent' = SentOf(p)
    BY <1>2, <2>2, MessageListIsSent DEF Sent
  <2>9. CASE IsMessage(e)
    <3>1. /\ Len(SentOf(p)) = Len(SentOf(posted)) + 1
          /\ SubSeq(SentOf(p), 1, Len(SentOf(posted))) = SentOf(posted)
      BY <1>2, <2>2, <2>9, SentAppend
    <3>2. Channel!Send
      BY <2>7, <2>8, <3>1 DEF Channel!Send
    <3> QED
      BY <2>6, <3>2
  <2>10. CASE ~IsMessage(e)
    <3>1. SentOf(p) = SentOf(posted)
      BY <1>2, <2>2, <2>10, SentAppend
    <3> QED
      BY <2>6, <2>7, <2>8, <3>1
  <2> QED
    BY <2>9, <2>10
<1> QED
  BY <1>1, <1>4, <1>5

\* roce_rc_complete_send_wr: the message of the packet is behind the responder.
LEMMA AckOneChan ==
  ASSUME ReqInv, WrInv, WrInv', OneExpected, OneExpected', ChanInv, IsList(received),
         AckOne, UNCHANGED resp_vars,
         Queued # <<>>, Queued' = Tail(Queued)
  PROVE  ChanInv' /\ (Channel!Confirm \/ UNCHANGED <<Sent, Got, Acknowledged>>)
<1>1. /\ outgoing_pkts \in Seq(Packet) /\ pending_pkts \in Seq(Packet) /\ outgoing_pkts # <<>>
      /\ sq_psn \in PSN /\ posted \in Seq(SendWR) /\ sq \in Seq(SendWR)
      /\ completed \in Seq([id : Nat, cqe : BOOLEAN])
  BY DEF AckOne, ReqInv, ReqTypeOK, LoopHasPacket
<1>2. /\ Queued \in Seq(Packet) /\ sq_psn' = PsnInc(sq_psn) /\ posted' = posted
      /\ Head(outgoing_pkts) = Head(Queued)
  BY <1>1, Joined, TailOfQueue DEF Queued, AckOne
<1>3. UNCHANGED <<rq_psn, rq, resp_u, mem, received>>
  BY DEF resp_vars
<1>4. ChanInv'
  <2>1. FreshWrs'
    BY <1>3 DEF ChanInv, FreshWrs
  <2> QED
    BY <1>1, <1>2, <1>3, <2>1, ChanKept
<1>5. PICK x \in Packet : x = Queued[1] /\ x = Head(Queued) /\ 1 \in 1 .. Len(Queued)
  BY <1>2
<1>6. CASE x.opaque = 0
  <2>1. completed' = completed
    BY <1>2, <1>5, <1>6 DEF AckOne
  <2> QED
    BY <1>2, <1>3, <1>4, <2>1, SameChannel
<1>7. CASE x.opaque # 0
  <2>1. /\ EndsMessage(x) /\ x.msg \in MessagesIn(posted) /\ x.opaque = x.msg
    BY <1>5, <1>7 DEF ChanInv, QueueWhole, OfMessage
  <2>2. PICK m \in MessagesIn(posted) : m = x.opaque /\ m = x.msg
    BY <2>1
  <2>3. Before(posted, m) < Len(received)
    <3>1. PICK k \in Nat : Expecting(k)'
      BY DEF OneExpected
    <3>2. k # 0 /\ Expecting(k + 1)
      BY <1>1, <1>2, <1>3, <3>1, ExpectingKept
    <3>3. UpTo(Queued, posted, k + 1, Len(received)) /\ 1 < k + 1
      BY <3>2 DEF ChanInv
    <3> QED
      BY <1>5, <2>1, <2>2, <3>3 DEF UpTo
  <2>4. \E cqe : completed' = Append(completed, [id |-> m, cqe |-> cqe])
    BY <1>2, <1>5, <1>7, <2>2 DEF AckOne, WrInv
  <2>5. /\ Len(completed') = Len(completed) + 1 /\ Len(completed) \in Nat
        /\ completed'[Len(completed) + 1].id = m
        /\ \A i \in 1 .. Len(completed) : completed'[i] = completed[i]
    BY <1>1, <2>4
  <2>6. CompletedIds' = CompletedIds \cup {m}
    <3>1. 1 .. Len(completed') = (1 .. Len(completed)) \cup {Len(completed) + 1}
      BY <2>5
    <3> QED
      BY <3>1, <2>5 DEF CompletedIds
  <2>7. m \in WaitingIds
    <3>1. m \in PacketIds
      BY <1>5, <1>7, <2>2 DEF PacketIds
    <3> QED
      BY <3>1 DEF WrInv, OpaqueMatch
  <2>8. \A i \in CompletedIds : i < m
    BY <2>7 DEF WrInv, WRsConserved
  <2>9. CompletedIds \subseteq 1 .. Len(posted)
    BY DEF WrInv, WRsConserved, MessageIds
  <2>10. Channel!Confirm
    BY <1>1, <1>2, <1>3, <2>3, <2>6, <2>8, <2>9, ConfirmNext
  <2> QED
    BY <1>4, <2>10
<1> QED
  BY <1>6, <1>7

-----------------------------------------------------------------------------
(* Every step of the connection is a step of the channel. *)

LEMMA ChanStep ==
  ASSUME WellUsed, ShortLived, NoOtherOps, ConnInv, ConnInv', OneExpected, OneExpected',
         WriteInv, BoundaryInv, WrInv, WrInv', ChanInv, [Next]_vars
  PROVE  ChanInv' /\ (Channel!Next \/ UNCHANGED <<Sent, Got, Acknowledged>>)
<1>1. /\ TypeInv /\ ReqInv /\ RecvWrs /\ MessagesInOrder(Queued, posted)
      /\ Queued \in Seq(Packet) /\ posted \in Seq(SendWR) /\ req_net \in Seq(Packet)
      /\ sq_psn \in PSN /\ rq_psn \in PSN /\ IsList(received) /\ FreshWrs
  BY ConnFacts DEF ReqInv, ReqTypeOK, ChanInv
<1>2. QueueOfRequests /\ RoomyWrs
  BY DEF BoundaryInv
<1>3. TypeInv'
  BY DEF ConnInv
<1>4. PICK b \in PSN, a \in Nat, r \in Nat, k \in Nat :
        ConnPlace(b, a, r, k) /\ k \in 1 .. Len(Queued) + 1
  BY ConnFacts
<1>5. r + 1 = a + k /\ Place(b, a, r) /\ rq_psn = PsnAdd(b, r) /\ Len(posted) <= MaxPosts
  BY <1>4 DEF ConnPlace, Place, Numbered
<1> DEFINE Goal == ChanInv' /\ (Channel!Next \/ UNCHANGED <<Sent, Got, Acknowledged>>)
<1>6. ASSUME UNCHANGED <<sq_psn, rq_psn, resp_u, mem, rq, posted, received, completed>>,
             Queued' = Queued
      PROVE  Goal
  <2>1. FreshWrs'
    BY <1>1, <1>6 DEF FreshWrs
  <2>2. ChanInv'
    BY <1>1, <1>6, <2>1, ChanKept
  <2>3. UNCHANGED <<Sent, Got, Acknowledged>>
    BY <1>6, SameChannel
  <2> QED
    BY <2>2, <2>3
<1>7. ASSUME NEW w \in Requests, Post(w) PROVE Goal
  <2>1. PostSend(w) /\ UNCHANGED <<rq_psn, rq, resp_u, mem, received>>
    BY <1>7 DEF Post, resp_vars
  <2>2. ChanInv' /\ (Channel!Send \/ UNCHANGED <<Sent, Got, Acknowledged>>)
    BY <1>1, <2>1, PostChan
  <2> QED
    BY <2>2 DEF Channel!Next
<1>8. ASSUME NEW i \in DOMAIN req_net, DeliverRequest(i) PROVE Goal
  <2>1. /\ RecvRc(req_net[i]) /\ sq_psn' = sq_psn /\ Queued' = Queued
        /\ UNCHANGED <<posted, completed>>
    BY <1>8 DEF DeliverRequest, Queued
  <2>2. CASE DuplicatedRequest(req_net[i]) \/ OutOfSeq(req_net[i])
    BY <1>6, <2>1, <2>2 DEF DuplicatedRequest, OutOfSeq, resp_vars
  <2>3. ASSUME NEW mapped \in MapOutcomes, ExpectedRequest(req_net[i], mapped)
        PROVE  Goal
    <3>1. IsExpected(req_net[i])
      BY <2>3 DEF ExpectedRequest
    <3>2. PICK m \in 1 .. Len(Queued) : req_net[i] = Queued[m] /\ Queued[m].psn = rq_psn
      <4>1. /\ r - a + 1 \in 1 .. Len(Queued) /\ req_net[i] = Queued[r - a + 1]
            /\ req_net[i].psn = PsnAdd(b, r)
        BY ONLY ShortLived, <1>1, <1>4, <1>5, <1>8, <3>1, ExpectedKept
      <4>2. Queued[r - a + 1].psn = rq_psn
        BY <1>5, <4>1
      <4> QED
        BY <4>1, <4>2
    <3>3. Expecting(m) /\ Delivered(m) /\ PsnAdd(sq_psn, m - 1) = rq_psn
      <4>1. PICK n \in Nat : Expecting(n) /\ Delivered(n)
        BY DEF OneExpected
      <4>2. m = n
        BY <3>2, <4>1 DEF Expecting
      <4> QED
        BY <4>1, <4>2 DEF Expecting
    <3>4. AtBoundary(m) /\ ExpectedRequest(Queued[m], mapped)
      BY <2>3, <3>2, <3>3 DEF BoundaryInv
    <3>5. /\ rq_psn' = PsnInc(rq_psn) /\ FreshWrs'
          /\ UpTo(Queued, posted, m + 1, Len(received'))
          /\ (m + 1 <= Len(Queued) => Partial(Queued[m + 1]))'
          /\ Channel!Deliver \/ UNCHANGED <<Sent, Got, Acknowledged>>
      BY <1>1, <1>2, <1>5, <2>1, <3>3, <3>4, ChanTaken DEF WrInv
    <3>6. PsnAdd(sq_psn, (m + 1) - 1) = rq_psn'
      <4>1. sq_psn \in Int /\ m - 1 \in Int /\ (m - 1) + 1 = (m + 1) - 1
        BY <1>1, PsnAssumption DEF PSN
      <4>2. PsnInc(PsnAdd(sq_psn, m - 1)) = PsnAdd(sq_psn, (m - 1) + 1)
        BY <1>1, <4>1, IncNumber
      <4> QED
        BY <3>3, <3>5, <4>1, <4>2
    <3>7. ASSUME NEW n \in Nat, Expecting(n)' PROVE n = m + 1
      <4>1. m + 1 \in 1 .. Len(Queued) + 1
        BY <1>1
      <4> QED
        BY <2>1, <3>6, <3>7, <4>1 DEF Expecting
    <3>8. ChanInv'
      BY <2>1, <3>5, <3>7 DEF ChanInv
    <3> QED
      BY <3>5, <3>8 DEF Channel!Next
  <2> QED
    BY <2>1, <2>2, <2>3 DEF RecvRc
<1>9. ASSUME NEW i \in DOMAIN ack_net, DeliverAck(i) PROVE Goal
  <2>1. /\ HandleAcknowledge(ack_net[i].nak, ack_net[i].psn)
        /\ UNCHANGED <<rq_psn, resp_u, mem, rq, received>>
    BY <1>9 DEF DeliverAck
  <2>2. Queued' = Queued /\ UNCHANGED <<sq_psn, posted, completed>>
    BY <2>1 DEF HandleAcknowledge, queues, history, Queued
  <2> QED
    BY <1>6, <2>1, <2>2
<1>10. ASSUME AckOne, UNCHANGED <<resp_vars, lost, dup>> PROVE Goal
  <2>1. Queued # <<>> /\ Queued' = Tail(Queued)
    BY <1>1, <1>3, <1>5, <1>10, AckOnePlace
  <2>2. ChanInv' /\ (Channel!Confirm \/ UNCHANGED <<Sent, Got, Acknowledged>>)
    BY <1>1, <1>10, <2>1, AckOneChan
  <2> QED
    BY <2>2 DEF Channel!Next
<1>11. ASSUME AckDone, UNCHANGED <<resp_vars, lost, dup>> PROVE Goal
  <2>1. Queued' = Queued
    BY <1>1, <1>3, <1>5, <1>11, AckDonePlace
  <2>2. UNCHANGED <<sq_psn, rq_psn, resp_u, mem, rq, posted, received, completed>>
    BY <1>11 DEF AckDone, history, resp_vars
  <2> QED
    BY <1>6, <2>1, <2>2
<1>12. ASSUME NEW cap \in Capacities, Recv(cap) PROVE Goal
  <2>1. /\ UNCHANGED <<sq_psn, rq_psn, resp_u, mem, posted, received, completed>>
        /\ Queued' = Queued
        /\ rq' = Append(rq, NewRecvWr(recv_posted + 1, cap)) /\ rq \in Seq(RecvWR)
    BY <1>1, <1>12 DEF Recv, PostRecv, req_vars, queues, history, Queued, RecvWrs
  <2>2. PICK new : /\ new = NewRecvWr(recv_posted + 1, cap)
                   /\ new.byte_len = 0 /\ new.data = <<>>
    <3>1. /\ NewRecvWr(recv_posted + 1, cap).byte_len = 0
          /\ NewRecvWr(recv_posted + 1, cap).data = <<>>
      BY DEF NewRecvWr
    <3> QED
      BY <3>1
  <2>3. \A j \in 1 .. Len(rq') : rq'[j] = new \/ (j \in 1 .. Len(rq) /\ rq'[j] = rq[j])
    BY <2>1, <2>2
  <2>4. FreshWrs'
    BY <1>1, <2>2, <2>3 DEF FreshWrs
  <2>5. ChanInv'
    BY <1>1, <2>1, <2>4, ChanKept
  <2> QED
    BY <2>1, <2>5, SameChannel
<1>13. CASE Lose \/ Duplicate \/ UNCHANGED vars
  <2>1. Queued' = Queued /\ UNCHANGED <<sq_psn, posted, completed>>
    BY <1>13 DEF Lose, Duplicate, vars, req_vars, queues, history, Queued
  <2>2. UNCHANGED <<rq_psn, resp_u, mem, rq, received>>
    BY <1>13 DEF Lose, Duplicate, vars, resp_vars
  <2> QED
    BY <1>6, <2>1, <2>2
<1> QED
  BY <1>7, <1>8, <1>9, <1>10, <1>11, <1>12, <1>13 DEF Next, Deliverable, AckLoop

LEMMA ChanInit == ASSUME Init PROVE ChanInv /\ Channel!Init
<1>1. /\ posted = <<>> /\ received = <<>> /\ completed = <<>> /\ Queued = <<>>
      /\ rq = [i \in 1 .. Len(Preposted) |-> NewRecvWr(i, Preposted[i])]
  BY DEF Init, ReqInit, RespInit, Queued
<1>2. Len(posted) = 0 /\ Len(received) = 0 /\ Len(completed) = 0 /\ Len(Queued) = 0
  BY <1>1
<1>3. \A n \in Int : ~(n \in 1 .. 0)
  OBVIOUS
<1>4. MessagesIn(posted) = {} /\ CompletedIds = {}
  BY <1>2, <1>3 DEF MessagesIn, CompletedIds
<1>5. Cardinality({}) = 0
  BY FS_EmptySet
<1>6. QueueWhole(Queued, posted)
  BY <1>2, <1>3 DEF QueueWhole
<1>7. FreshWrs
  <2>1. Len(Preposted) \in Nat
    BY ResponderAssumption
  <2>2. \A i \in 1 .. Len(rq) : rq[i] = NewRecvWr(i, Preposted[i])
    BY <1>1, <2>1
  <2>3. \A i \in 1 .. Len(rq) : /\ NewRecvWr(i, Preposted[i]).byte_len = 0
                               /\ NewRecvWr(i, Preposted[i]).data = <<>>
    BY DEF NewRecvWr
  <2> QED
    BY <2>2, <2>3 DEF FreshWrs
<1>8. ASSUME NEW k \in Nat, Expecting(k)
      PROVE  UpTo(Queued, posted, k, Len(received)) /\ ~(k <= Len(Queued))
  <2>1. k = 1
    BY <1>2, <1>8 DEF Expecting
  <2>2. {i \in MessagesIn(posted) : i < NextMsg(Queued, posted, k)} = {}
    BY <1>4
  <2>3. Before(posted, NextMsg(Queued, posted, k)) = 0
    BY ONLY <1>5, <2>2 DEF Before
  <2>4. ~(k <= Len(Queued))
    BY ONLY <1>2, <2>1
  <2> QED
    BY <1>2, <1>3, <2>1, <2>3, <2>4 DEF UpTo
<1>9. ChanInv
  BY <1>6, <1>7, <1>8 DEF ChanInv
<1>10. Sent = <<>>
  <2>1. <<>> \in Seq(SendWR)
    OBVIOUS
  <2> QED
    BY <1>1, <2>1, MessageListIsSent, SentOfNone DEF Sent
<1>11. Got = <<>>
  BY <1>1 DEF Got
<1>12. Acknowledged = 0
  <2>1. {i \in CompletedIds : IsMessage(posted[i])} = {}
    BY <1>4
  <2> QED
    BY <1>5, <2>1 DEF Acknowledged
<1> QED
  BY <1>9, <1>10, <1>11, <1>12 DEF Channel!Init

(***************************************************************************)
(* Between two QPs too every WR completes exactly once, in the order of    *)
(* posting, as the packet roce_rc_complete_send_wr takes from the outgoing *)
(* list points at the WR at the head of the send queue, when no opcode is  *)
(* posted that roce_rc_build_pkts ignores.                                 *)
(***************************************************************************)
THEOREM ConnectionWrInvariant ==
  ASSUME NoOtherOps
  PROVE  Spec => []WrInv
<1>1. Init => WrInv
  BY WrInvInit DEF Init
<1>2. TypeInv /\ WrInv /\ [Next]_vars => WrInv'
  BY WrInvConn
<1>3. Init => TypeInv
  BY TypeInvInit
<1>4. TypeInv /\ [Next]_vars => TypeInv'
  BY TypeInvStep
<1> QED
  BY <1>1, <1>2, <1>3, <1>4, PTL DEF Spec

(***************************************************************************)
(* A connection is a reliable channel.  For every start PSN, MTU, window,  *)
(* number and length of the messages, and whatever the network loses,      *)
(* repeats or reorders: the application at the responder is given the      *)
(* messages posted at the requester, each once, in order and intact, and   *)
(* the requester completes a WR only after its message was received.  It   *)
(* holds when the application keeps to what WellUsed asks of it, posts no  *)
(* opcode that roce_rc_build_pkts ignores, and the connection is not used  *)
(* long enough for the PSNs of old ACKs to come round again.               *)
(***************************************************************************)
THEOREM ConnectionImplementsChannel ==
  ASSUME WellUsed, ShortLived, NoOtherOps
  PROVE  Spec => IsReliableChannel
<1>0. EnoughRecvs
  BY DEF WellUsed
<1>1. Init => WriteInv /\ BoundaryInv /\ ChanInv /\ Channel!Init
  BY WriteInvInit, BoundaryInit, ChanInit
<1>2. ConnInv => OneExpected
  BY ConnOneExpected
<1>3. ConnInv /\ OneExpected /\ OneExpected' /\ WriteInv /\ BoundaryInv /\ [Next]_vars
        => WriteInv' /\ BoundaryInv'
  BY <1>0, WriteInvStep, BoundaryStep
<1>4. ConnInv /\ ConnInv' /\ OneExpected /\ OneExpected' /\ WriteInv /\ BoundaryInv
        /\ WrInv /\ WrInv' /\ ChanInv /\ [Next]_vars
        => ChanInv' /\ [Channel!Next]_<<Sent, Got, Acknowledged>>
  <2> SUFFICES ASSUME ConnInv, ConnInv', OneExpected, OneExpected', WriteInv, BoundaryInv,
                      WrInv, WrInv', ChanInv, [Next]_vars
               PROVE  ChanInv' /\ [Channel!Next]_<<Sent, Got, Acknowledged>>
    OBVIOUS
  <2>1. ChanInv' /\ (Channel!Next \/ UNCHANGED <<Sent, Got, Acknowledged>>)
    BY ChanStep
  <2> QED
    BY <2>1
<1> QED
  BY <1>1, <1>2, <1>3, <1>4, ConnectionInvariant, ConnectionWrInvariant, PTL
     DEF Spec, Channel!Spec, IsReliableChannel

=============================================================================
