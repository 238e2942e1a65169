--------------------------- MODULE KernelQueueProofs ---------------------------
(***************************************************************************)
(* The kernel's queues.  First what the operations of its priority list    *)
(* (k/list.h) do to a List: whom they link, whom they unlink, and that     *)
(* they keep it in order.  Then how the kernel's queue operations keep the *)
(* states of Contexts and the queues their items are linked into in        *)
(* agreement: one lemma per way a Context or an Interrupt is moved.        *)
(***************************************************************************)
EXTENDS KernelProperties, SequenceTheorems, WellFoundedInduction, TLAPS

-----------------------------------------------------------------------------
(* The priority list *)

\* Taking the item at place k out of a sublist joins its neighbours, as
\* Item::unlink joins its item's prev and next.
LEMMA RemoveAtSeq ==
  ASSUME NEW S, NEW s \in Seq(S), NEW k \in 1 .. Len(s)
  PROVE  /\ RemoveAt(s, k) \in Seq(S)
         /\ Len(RemoveAt(s, k)) = Len(s) - 1
         /\ \A i \in 1 .. (Len(s) - 1) :
               RemoveAt(s, k)[i] = IF i < k THEN s[i] ELSE s[i + 1]
<1>. DEFINE a == SubSeq(s, 1, k - 1)
            b == SubSeq(s, k + 1, Len(s))
<1>0. /\ Len(s) \in Nat
      /\ \A i \in 1 .. Len(s) : s[i] \in S
  BY LenProperties, ElementOfSeq
<1>1. /\ a \in Seq(S)
      /\ Len(a) = k - 1
      /\ \A i \in 1 .. (k - 1) : a[i] = s[i]
  <2>1. \A i \in 1 .. (k - 1) : s[i] \in S  BY <1>0
  <2>2. /\ a \in Seq(S)
        /\ Len(a) = IF 1 <= k - 1 THEN (k - 1) - 1 + 1 ELSE 0
        /\ \A i \in 1 .. ((k - 1) - 1 + 1) : a[i] = s[1 + i - 1]
    BY <1>0, <2>1, SubSeqProperties
  <2>. QED  BY <1>0, <2>2
<1>2. /\ b \in Seq(S)
      /\ Len(b) = Len(s) - k
      /\ \A i \in 1 .. (Len(s) - k) : b[i] = s[k + i]
  <2>1. \A i \in (k + 1) .. Len(s) : s[i] \in S  BY <1>0
  <2>2. /\ b \in Seq(S)
        /\ Len(b) = IF k + 1 <= Len(s) THEN Len(s) - (k + 1) + 1 ELSE 0
        /\ \A i \in 1 .. (Len(s) - (k + 1) + 1) : b[i] = s[(k + 1) + i - 1]
    BY <1>0, <2>1, SubSeqProperties
  <2>. QED  BY <1>0, <2>2
<1>3. /\ a \o b \in Seq(S)
      /\ Len(a \o b) = Len(a) + Len(b)
      /\ \A i \in 1 .. (Len(a) + Len(b)) :
            (a \o b)[i] = IF i <= Len(a) THEN a[i] ELSE b[i - Len(a)]
  BY <1>1, <1>2, ConcatProperties
<1>4. RemoveAt(s, k) = a \o b
  BY DEF RemoveAt
<1>. HIDE DEF a, b
<1>5. Len(a) + Len(b) = Len(s) - 1
  BY <1>0, <1>1, <1>2
<1>6. ASSUME NEW i \in 1 .. (Len(s) - 1)
      PROVE  (a \o b)[i] = IF i < k THEN s[i] ELSE s[i + 1]
  <2>1. CASE i < k
    BY <1>0, <1>1, <1>3, <1>5, <2>1
  <2>2. CASE ~ (i < k)
    <3>1. i - (k - 1) \in 1 .. (Len(s) - k)
      BY <1>0, <2>2
    <3>2. b[i - (k - 1)] = s[k + (i - (k - 1))]
      BY <1>2, <3>1
    <3>3. k + (i - (k - 1)) = i + 1
      BY <1>0
    <3>. QED  BY <1>0, <1>1, <1>3, <1>5, <2>2, <3>2, <3>3
  <2>. QED  BY <2>1, <2>2
<1>. QED  BY <1>3, <1>4, <1>5, <1>6

\* Item::unlink on one sublist: its owner is gone, nobody else is, and
\* no owner is linked twice.
LEMMA RemoveFirstSeq ==
  ASSUME NEW S, NEW s \in Seq(S), NEW x,
         \A i, j \in DOMAIN s : s[i] = s[j] => i = j
  PROVE  /\ RemoveFirst(s, x) \in Seq(S)
         /\ Range(RemoveFirst(s, x)) = Range(s) \ {x}
         /\ \A i, j \in DOMAIN RemoveFirst(s, x) :
               RemoveFirst(s, x)[i] = RemoveFirst(s, x)[j] => i = j
<1>0. DOMAIN s = 1 .. Len(s) /\ Len(s) \in Nat
  BY LenProperties
<1>1. CASE ~ \E i \in 1 .. Len(s) : s[i] = x
  BY <1>0, <1>1 DEF RemoveFirst, Range
<1>2. CASE \E i \in 1 .. Len(s) : s[i] = x
  <2>1. PICK k \in 1 .. Len(s) : s[k] = x
    BY <1>2
  <2>2. SelectInSeq(s, LAMBDA v : v = x) = k
    <3>1. {i \in 1 .. Len(s) : s[i] = x} = {k}
      BY <1>0, <2>1
    <3>2. Min({k}) = k
      BY <1>0 DEF Min
    <3>. QED  BY <3>1, <3>2 DEF SelectInSeq
  <2>. DEFINE t == RemoveAt(s, k)
  <2>3. RemoveFirst(s, x) = t
    BY <1>2, <2>2 DEF RemoveFirst
  <2>4. /\ t \in Seq(S)
        /\ Len(t) = Len(s) - 1
        /\ \A i \in 1 .. (Len(s) - 1) : t[i] = IF i < k THEN s[i] ELSE s[i + 1]
    BY <2>1, RemoveAtSeq
  <2>. HIDE DEF t
  <2>5. DOMAIN t = 1 .. (Len(s) - 1)
    BY <2>4, LenProperties
  <2>6. ASSUME NEW i \in DOMAIN t
        PROVE  LET j == IF i < k THEN i ELSE i + 1
               IN  j \in DOMAIN s /\ j # k /\ t[i] = s[j]
    <3>1. i \in 1 .. (Len(s) - 1)
      BY <2>5
    <3>2. CASE i < k
      BY <1>0, <2>4, <3>1, <3>2
    <3>3. CASE ~(i < k)
      <4>1. i + 1 \in DOMAIN s /\ i + 1 # k
        BY <1>0, <3>1, <3>3
      <4>2. t[i] = s[i + 1]
        BY <2>4, <3>1, <3>3
      <4>. QED  BY <3>3, <4>1, <4>2
    <3>. QED  BY <3>2, <3>3
  <2>8. \A i, j \in DOMAIN t : t[i] = t[j] => i = j
    <3>1. ASSUME NEW i \in DOMAIN t, NEW j \in DOMAIN t, t[i] = t[j]
          PROVE  i = j
      <4>. DEFINE u == IF i < k THEN i ELSE i + 1
                  v == IF j < k THEN j ELSE j + 1
      <4>1. u \in DOMAIN s /\ t[i] = s[u]
        BY <2>6
      <4>2. v \in DOMAIN s /\ t[j] = s[v]
        BY <2>6
      <4>3. u = v
        BY <3>1, <4>1, <4>2
      <4>4. i \in Nat /\ j \in Nat /\ k \in Nat
        BY <1>0, <2>1, <2>5
      <4>. QED  BY <4>3, <4>4
    <3>. QED  BY <3>1
  <2>7. Range(t) = Range(s) \ {x}
    <3>1. ASSUME NEW i \in DOMAIN t
          PROVE  t[i] \in Range(s) \ {x}
      <4>. DEFINE u == IF i < k THEN i ELSE i + 1
      <4>1. u \in DOMAIN s /\ u # k /\ t[i] = s[u]
        BY <2>6
      <4>. HIDE DEF u
      <4>2. k \in DOMAIN s
        BY <1>0
      <4>3. s[u] # x
        BY <2>1, <4>1, <4>2
      <4>. QED  BY <4>1, <4>3 DEF Range
    <3>2. ASSUME NEW i \in DOMAIN s, s[i] # x
          PROVE  s[i] \in Range(t)
      <4>1. CASE i < k
        <5>1. i \in DOMAIN t /\ t[i] = s[i]
          BY <1>0, <2>1, <2>4, <2>5, <4>1
        <5>. QED  BY <5>1 DEF Range
      <4>2. CASE k < i
        <5>1. i - 1 \in DOMAIN t /\ t[i - 1] = s[i]
          BY <1>0, <2>1, <2>4, <2>5, <4>2
        <5>. QED  BY <5>1 DEF Range
      <4>. QED  BY <1>0, <2>1, <3>2, <4>1, <4>2
    <3>. QED  BY <3>1, <3>2 DEF Range
  <2>. QED  BY <2>3, <2>4, <2>7, <2>8
<1>. QED BY <1>1, <1>2

\* Unlinking another owner leaves the head of a sublist where it was.
LEMMA RemoveFirstKeepsHead ==
  ASSUME NEW S, NEW s \in Seq(S), s # << >>, NEW x, Head(s) # x,
         \A i, j \in DOMAIN s : s[i] = s[j] => i = j
  PROVE  RemoveFirst(s, x) # << >> /\ Head(RemoveFirst(s, x)) = Head(s)
<1>0. /\ DOMAIN s = 1 .. Len(s) /\ Len(s) \in Nat \ {0}
      /\ Head(s) = s[1]
  BY LenProperties, EmptySeq, HeadTailProperties
<1>1. CASE ~ \E i \in 1 .. Len(s) : s[i] = x
  BY <1>1 DEF RemoveFirst
<1>2. CASE \E i \in 1 .. Len(s) : s[i] = x
  <2>1. PICK k \in 1 .. Len(s) : s[k] = x
    BY <1>2
  <2>2. SelectInSeq(s, LAMBDA v : v = x) = k
    <3>1. {i \in 1 .. Len(s) : s[i] = x} = {k}
      BY <1>0, <2>1
    <3>2. Min({k}) = k
      BY <1>0 DEF Min
    <3>. QED  BY <3>1, <3>2 DEF SelectInSeq
  <2>. DEFINE t == RemoveAt(s, k)
  <2>3. RemoveFirst(s, x) = t
    BY <1>2, <2>2 DEF RemoveFirst
  <2>4. /\ t \in Seq(S)
        /\ Len(t) = Len(s) - 1
        /\ \A i \in 1 .. (Len(s) - 1) : t[i] = IF i < k THEN s[i] ELSE s[i + 1]
    BY <2>1, RemoveAtSeq
  <2>. HIDE DEF t
  <2>5. 1 < k /\ 1 \in 1 .. (Len(s) - 1)
    BY <1>0, <2>1
  <2>6. t[1] = s[1] /\ Len(t) # 0
    BY <1>0, <2>4, <2>5
  <2>7. t # << >> /\ Head(t) = t[1]
    BY <2>4, <2>6, EmptySeq, HeadTailProperties
  <2>. QED  BY <1>0, <2>3, <2>6, <2>7
<1>. QED  BY <1>1, <1>2

\* List::insert links the owner, at the end of its own level, and nobody else.
LEMMA InsertList ==
  ASSUME NEW S, NEW l \in List(S), NEW x \in S, NEW p \in Prio
  PROVE  /\ Insert(l, x, p) \in List(S)
         /\ Linked(Insert(l, x, p)) = Linked(l) \cup {x}
         /\ NoDuplicates(l) /\ x \notin Linked(l) => NoDuplicates(Insert(l, x, p))
<1>. DEFINE m == Insert(l, x, p)
<1>0. \A q \in Prio : /\ l[q] \in Seq(S)
                      /\ Len(l[q]) \in Nat
                      /\ DOMAIN l[q] = 1 .. Len(l[q])
  BY LenProperties DEF List
<1>1. /\ m \in List(S)
      /\ m[p] = Append(l[p], x)
      /\ \A q \in Prio : q # p => m[q] = l[q]
  BY DEF List, Insert
<1>2. /\ DOMAIN m[p] = 1 .. (Len(l[p]) + 1)
      /\ m[p][Len(l[p]) + 1] = x
      /\ \A i \in 1 .. Len(l[p]) : m[p][i] = l[p][i]
  BY <1>0, <1>1, AppendProperties
<1>. HIDE DEF m
<1>3. \A y : y \in Linked(m) <=> \E q \in Prio : \E i \in DOMAIN m[q] : m[q][i] = y
  BY DEF Linked, Range
<1>4. \A y : y \in Linked(l) <=> \E q \in Prio : \E i \in DOMAIN l[q] : l[q][i] = y
  BY DEF Linked, Range
<1>6. x \in Linked(m)
  BY <1>0, <1>2, <1>3
<1>7. Linked(l) \subseteq Linked(m)
  <2>. SUFFICES ASSUME NEW q \in Prio, NEW i \in DOMAIN l[q]
               PROVE  l[q][i] \in Linked(m)
    BY <1>4
  <2>1. i \in DOMAIN m[q] /\ m[q][i] = l[q][i]
    BY <1>0, <1>1, <1>2
  <2>. QED  BY <1>3, <2>1
<1>8. ASSUME NEW q \in Prio, NEW i \in DOMAIN m[q]
      PROVE  \/ q = p /\ i = Len(l[p]) + 1 /\ m[q][i] = x
             \/ i \in DOMAIN l[q] /\ m[q][i] = l[q][i] /\ l[q][i] \in Linked(l)
  <2>1. CASE q = p
    <3>1. i \in 1 .. (Len(l[p]) + 1)  BY <1>2, <2>1
    <3>2. CASE i = Len(l[p]) + 1  BY <1>2, <2>1, <3>2
    <3>3. CASE i # Len(l[p]) + 1
      <4>1. i \in 1 .. Len(l[p])  BY <1>0, <3>1, <3>3
      <4>. QED  BY <1>0, <1>2, <1>4, <2>1, <4>1
    <3>. QED  BY <3>2, <3>3
  <2>2. CASE q # p
    <3>1. m[q] = l[q]  BY <1>1, <2>2
    <3>. QED  BY <1>4, <3>1
  <2>. QED  BY <2>1, <2>2
<1>5. Linked(m) \subseteq Linked(l) \cup {x}
  BY <1>3, <1>8
<1>9. NoDuplicates(l) /\ x \notin Linked(l) => NoDuplicates(m)
  <2>. SUFFICES ASSUME NoDuplicates(l), x \notin Linked(l),
                      NEW q \in Prio, NEW r \in Prio,
                      NEW i \in DOMAIN m[q], NEW j \in DOMAIN m[r],
                      m[q][i] = m[r][j]
               PROVE  q = r /\ i = j
    BY DEF NoDuplicates
  <2>1. \/ q = p /\ i = Len(l[p]) + 1 /\ m[q][i] = x
        \/ i \in DOMAIN l[q] /\ m[q][i] = l[q][i] /\ l[q][i] \in Linked(l)
    BY <1>8
  <2>2. \/ r = p /\ j = Len(l[p]) + 1 /\ m[r][j] = x
        \/ j \in DOMAIN l[r] /\ m[r][j] = l[r][j] /\ l[r][j] \in Linked(l)
    BY <1>8
  <2>3. CASE m[q][i] = x
    BY <2>1, <2>2, <2>3
  <2>4. CASE m[q][i] # x
    <3>1. i \in DOMAIN l[q] /\ j \in DOMAIN l[r] /\ l[q][i] = l[r][j]
      BY <2>1, <2>2, <2>4
    <3>. QED  BY <3>1 DEF NoDuplicates
  <2>. QED  BY <2>3, <2>4
<1>. QED  BY <1>1, <1>5, <1>6, <1>7, <1>9 DEF m

\* Item::unlink on a whole List, whichever level the owner is filed under.
LEMMA UnlinkList ==
  ASSUME NEW S, NEW l \in List(S), NEW x, NoDuplicates(l)
  PROVE  /\ Unlink(l, x) \in List(S)
         /\ Linked(Unlink(l, x)) = Linked(l) \ {x}
         /\ NoDuplicates(Unlink(l, x))
<1>. DEFINE m == Unlink(l, x)
<1>1. \A p \in Prio : /\ l[p] \in Seq(S)
                      /\ m[p] = RemoveFirst(l[p], x)
                      /\ \A i, j \in DOMAIN l[p] : l[p][i] = l[p][j] => i = j
  BY DEF List, Unlink, NoDuplicates
<1>2. \A p \in Prio : /\ m[p] \in Seq(S)
                      /\ Range(m[p]) = Range(l[p]) \ {x}
                      /\ \A i, j \in DOMAIN m[p] : m[p][i] = m[p][j] => i = j
  BY <1>1, RemoveFirstSeq
<1>3. m = [p \in Prio |-> m[p]]
  BY DEF Unlink
<1>. HIDE DEF m
<1>4. m \in List(S)
  BY <1>2, <1>3 DEF List
<1>5. Linked(m) = Linked(l) \ {x}
  <2>1. ASSUME NEW y
        PROVE  y \in Linked(m) <=> \E p \in Prio : y \in Range(l[p]) \ {x}
    BY <1>2 DEF Linked
  <2>. QED  BY <2>1 DEF Linked
<1>6. NoDuplicates(m)
  <2>. SUFFICES ASSUME NEW p \in Prio, NEW q \in Prio,
                      NEW i \in DOMAIN m[p], NEW j \in DOMAIN m[q],
                      m[p][i] = m[q][j]
               PROVE  p = q /\ i = j
    BY DEF NoDuplicates
  <2>1. m[p][i] \in Range(l[p]) /\ m[p][i] \in Range(l[q])
    <3>1. m[p][i] \in Range(m[p]) /\ m[q][j] \in Range(m[q])
      BY DEF Range
    <3>. QED  BY <1>2, <3>1
  <2>2. p = q
    BY <2>1 DEF Range, NoDuplicates
  <2>. QED  BY <1>2, <2>2
<1>. QED  BY <1>4, <1>5, <1>6 DEF m

\* List::is_empty says exactly that no owner is linked.
LEMMA EmptyIffNothingLinked ==
  ASSUME NEW S, NEW l \in List(S)
  PROVE  IsEmpty(l) <=> Linked(l) = {}
<1>1. \A p \in Prio : l[p] = << >> <=> Range(l[p]) = {}
  <2>. SUFFICES ASSUME NEW p \in Prio
               PROVE  l[p] = << >> <=> Range(l[p]) = {}
    OBVIOUS
  <2>1. l[p] \in Seq(S)  BY DEF List
  <2>2. DOMAIN l[p] = 1 .. Len(l[p]) /\ Len(l[p]) \in Nat
    BY <2>1, LenProperties
  <2>3. CASE l[p] = << >>  BY <2>3 DEF Range
  <2>4. CASE l[p] # << >>
    <3>1. 1 \in DOMAIN l[p]  BY <2>1, <2>2, <2>4, EmptySeq
    <3>. QED  BY <2>4, <3>1 DEF Range
  <2>. QED  BY <2>3, <2>4
<1>. QED  BY <1>1 DEF IsEmpty, Linked

\* Every nonempty set of naturals has a least element.
LEMMA LeastNatural ==
  ASSUME NEW T \in SUBSET Nat, T # {}
  PROVE  \E m \in T : \A n \in T : m <= n
<1>1. PICK m \in T : \A n \in T : ~ (<<n, m>> \in OpToRel(<, Nat))
  BY NatLessThanWellFounded, WFMin, Zenon
<1>2. \A n \in T : ~ (n < m)
  BY <1>1 DEF OpToRel
<1>. QED  BY <1>2

\* The level List::peek stops at is the first nonempty one.
LEMMA TopPrioIsLeast ==
  ASSUME NEW S, NEW l \in List(S), ~ IsEmpty(l)
  PROVE  /\ TopPrio(l) \in Prio
         /\ l[TopPrio(l)] # << >>
         /\ \A q \in Prio : q < TopPrio(l) => l[q] = << >>
<1>. DEFINE T == {p \in Prio : l[p] # << >>}
<1>1. T \in SUBSET Nat /\ T # {}
  BY NPrioAssumption DEF IsEmpty, Prio
<1>2. PICK m \in T : \A n \in T : m <= n
  BY <1>1, LeastNatural
<1>3. \A q \in Prio : q < m => l[q] = << >>
  BY <1>1, <1>2, NPrioAssumption DEF Prio
<1>4. \E p \in Prio : l[p] # << >> /\ \A q \in Prio : q < p => l[q] = << >>
  BY <1>2, <1>3
<1>. QED  BY <1>4 DEF TopPrio

\* List::peek of a nonempty List returns an owner linked into it.
LEMMA PeekList ==
  ASSUME NEW S, NEW l \in List(S), ~ IsEmpty(l)
  PROVE  Peek(l) \in Linked(l) /\ Peek(l) \in S
<1>. DEFINE p == TopPrio(l)
<1>1. p \in Prio /\ l[p] # << >>
  BY TopPrioIsLeast
<1>. HIDE DEF p
<1>2. l[p] \in Seq(S)
  BY <1>1 DEF List
<1>3. Head(l[p]) = l[p][1] /\ 1 \in DOMAIN l[p] /\ l[p][1] \in S
  BY <1>1, <1>2, HeadTailProperties, LenProperties, EmptySeq, ElementOfSeq
<1>4. Head(l[p]) \in Range(l[p])
  BY <1>3 DEF Range
<1>. QED  BY <1>1, <1>3, <1>4 DEF Peek, Linked, p

\* Unlinking another owner than List::peek returns leaves it at the head.
LEMMA PeekUnlinkOther ==
  ASSUME NEW S, NEW l \in List(S), ~ IsEmpty(l), NoDuplicates(l), NEW x, Peek(l) # x
  PROVE  Peek(Unlink(l, x)) = Peek(l)
<1>. DEFINE m == Unlink(l, x)
            p == TopPrio(l)
            q == TopPrio(m)
<1>1. /\ p \in Prio /\ l[p] # << >>
      /\ \A r \in Prio : r < p => l[r] = << >>
  BY TopPrioIsLeast
<1>2. \A r \in Prio : l[r] \in Seq(S) /\ m[r] = RemoveFirst(l[r], x)
  BY DEF List, Unlink
<1>3. Head(l[p]) = Peek(l)
  BY DEF Peek
<1>. HIDE DEF p
<1>4. m[p] # << >> /\ Head(m[p]) = Head(l[p])
  <2>1. \A i, j \in DOMAIN l[p] : l[p][i] = l[p][j] => i = j
    BY <1>1 DEF NoDuplicates
  <2>. QED  BY <1>1, <1>2, <1>3, <2>1, RemoveFirstKeepsHead
<1>5. \A r \in Prio : r < p => m[r] = << >>
  <2>. SUFFICES ASSUME NEW r \in Prio, r < p  PROVE  m[r] = << >>
    OBVIOUS
  <2>1. l[r] = << >> /\ Len(l[r]) = 0
    BY <1>1
  <2>2. ~ \E i \in 1 .. Len(l[r]) : l[r][i] = x
    BY <2>1
  <2>. QED  BY <1>2, <2>1, <2>2 DEF RemoveFirst
<1>6. m \in List(S)
  BY UnlinkList
<1>. HIDE DEF m
<1>7. /\ q \in Prio /\ m[q] # << >>
      /\ \A r \in Prio : r < q => m[r] = << >>
  BY <1>1, <1>4, <1>6, TopPrioIsLeast DEF IsEmpty
<1>. HIDE DEF q
<1>8. q = p
  BY <1>1, <1>4, <1>5, <1>7, NPrioAssumption DEF Prio
<1>. QED  BY <1>3, <1>4, <1>8 DEF Peek, m, q

-----------------------------------------------------------------------------
(* The same for a List in order *)

\* List::insert of an unlinked owner at its own level keeps a List in order.
LEMMA InsertOrderly ==
  ASSUME NEW S, NEW l \in List(S), NEW x \in S, NEW level, level[x] \in Prio,
         Orderly(l, level), x \notin Linked(l)
  PROVE  /\ Insert(l, x, level[x]) \in List(S)
         /\ Linked(Insert(l, x, level[x])) = Linked(l) \cup {x}
         /\ Orderly(Insert(l, x, level[x]), level)
<1>. DEFINE p == level[x]
            m == Insert(l, x, p)
<1>1. /\ m \in List(S)
      /\ Linked(m) = Linked(l) \cup {x}
      /\ NoDuplicates(m)
  BY InsertList DEF Orderly
<1>2. FiledUnder(m, level)
  <2>. SUFFICES ASSUME NEW q \in Prio, NEW i \in DOMAIN m[q]
               PROVE  level[m[q][i]] = q
    BY DEF FiledUnder, Range
  <2>0. l[q] \in Seq(S)
    BY DEF List
  <2>1. CASE q = p
    <3>1. m[q] = Append(l[q], x)
      BY <2>1 DEF Insert, List
    <3>2. (i \in DOMAIN l[q] /\ m[q][i] = l[q][i]) \/ m[q][i] = x
      BY <2>0, <3>1, AppendProperties, LenProperties
    <3>. QED  BY <2>1, <3>2 DEF Orderly, FiledUnder, Range
  <2>2. CASE q # p
    <3>1. m[q] = l[q]
      BY <2>2 DEF Insert, List
    <3>. QED  BY <3>1 DEF Orderly, FiledUnder, Range
  <2>. QED  BY <2>1, <2>2
<1>. QED  BY <1>1, <1>2 DEF Orderly

\* Item::unlink keeps a List in order and takes exactly its owner out.
LEMMA UnlinkOrderly ==
  ASSUME NEW S, NEW l \in List(S), NEW x, NEW level, NEW newLevel,
         Orderly(l, level),
         \A y \in Linked(l) \ {x} : newLevel[y] = level[y]
  PROVE  /\ Unlink(l, x) \in List(S)
         /\ Linked(Unlink(l, x)) = Linked(l) \ {x}
         /\ Orderly(Unlink(l, x), newLevel)
<1>1. /\ Unlink(l, x) \in List(S)
      /\ Linked(Unlink(l, x)) = Linked(l) \ {x}
      /\ NoDuplicates(Unlink(l, x))
  BY UnlinkList DEF Orderly
<1>2. \A p \in Prio : Range(Unlink(l, x)[p]) = Range(l[p]) \ {x}
  <2>. TAKE p \in Prio
  <2>1. /\ l[p] \in Seq(S)
        /\ Unlink(l, x)[p] = RemoveFirst(l[p], x)
        /\ \A i, j \in DOMAIN l[p] : l[p][i] = l[p][j] => i = j
    BY DEF List, Unlink, Orderly, NoDuplicates
  <2>. QED  BY <2>1, RemoveFirstSeq
<1>3. FiledUnder(Unlink(l, x), newLevel)
  BY <1>2 DEF Orderly, FiledUnder, Linked
<1>. QED  BY <1>1, <1>3 DEF Orderly

\* Item::unlink of an item that is in another List leaves this one alone.
LEMMA UnlinkAbsent ==
  ASSUME NEW S, NEW l \in List(S), NEW x, x \notin Linked(l)
  PROVE  Unlink(l, x) = l
<1>1. ASSUME NEW p \in Prio
      PROVE  RemoveFirst(l[p], x) = l[p]
  <2>1. l[p] \in Seq(S) /\ DOMAIN l[p] = 1 .. Len(l[p])
    BY LenProperties DEF List
  <2>2. ~ \E i \in 1 .. Len(l[p]) : l[p][i] = x
    BY <2>1 DEF Linked, Range
  <2>. QED  BY <2>2 DEF RemoveFirst
<1>. QED  BY <1>1 DEF Unlink, List

\* Levels of owners that are not linked do not matter to a List.
LEMMA OrderlyFrame ==
  ASSUME NEW l, NEW level, NEW newLevel, Orderly(l, level),
         \A y \in Linked(l) : newLevel[y] = level[y]
  PROVE  Orderly(l, newLevel)
BY DEF Orderly, FiledUnder, Linked

\* The List constructor makes a List in order, with nobody linked.
LEMMA EmptyOrderly ==
  ASSUME NEW S, NEW level
  PROVE  /\ EmptyList \in List(S)
         /\ Linked(EmptyList) = {}
         /\ IsEmpty(EmptyList)
         /\ Orderly(EmptyList, level)
BY EmptySeq DEF EmptyList, List, Linked, Range, IsEmpty, Orderly, NoDuplicates, FiledUnder

\* Only owners of a List's type are linked into it.
LEMMA LinkedSubset ==
  ASSUME NEW S, NEW l \in List(S)
  PROVE  Linked(l) \subseteq S
<1>. SUFFICES ASSUME NEW p \in Prio, NEW i \in DOMAIN l[p]
             PROVE  l[p][i] \in S
  BY DEF Linked, Range
<1>1. l[p] \in Seq(S)
  BY DEF List
<1>. QED  BY <1>1, LenProperties, ElementOfSeq

-----------------------------------------------------------------------------
(* The states of Contexts and the queues *)

(***************************************************************************)
(* The part of the invariant that the queue operations disturb.            *)
(***************************************************************************)
Queues ==
  /\ state \in [Context -> {"stopped", "runnable", "sending", "receiving"}]
  /\ priority \in [Context -> Prio]
  /\ runnable \in List(Context)
  /\ receivers \in [Gate -> List(Context)]
  /\ senders \in [Gate -> List(Context \cup Interrupt)]
  /\ RunQueueAgrees
  /\ ReceiversAgree
  /\ SendersAgree

queueVars == <<state, priority, runnable, receivers, senders>>

\* Removing x from every queue of a Gate, which the code does by unlinking x
\* from the one queue that holds it.
UnlinkAll(queues, x) == [g \in Gate |-> Unlink(queues[g], x)]

\* The levels items are filed under (get_priority) are priorities, a Context's
\* own or an Interrupt's 0, and queues hold Contexts and Interrupts only.
LEMMA LevelFacts ==
  ASSUME Queues
  PROVE  /\ SenderLevels \in [Context \cup Interrupt -> Prio]
         /\ \A c \in Context : SenderLevels[c] = priority[c] /\ SenderPriority(c) = priority[c]
         /\ \A i \in Interrupt : SenderLevels[i] = 0 /\ SenderPriority(i) = 0
         /\ Linked(runnable) \subseteq Context
         /\ \A g \in Gate : /\ Linked(receivers[g]) \subseteq Context
                            /\ Linked(senders[g]) \subseteq Context \cup Interrupt
<1>1. 0 \in Prio
  BY NPrioAssumption DEF Prio
<1>2. \A i \in Interrupt : i \notin Context
  BY KernelAssumption
<1>. QED  BY <1>1, <1>2, LinkedSubset DEF Queues, SenderLevels, SenderPriority

\* A step that changes no State, priority or queue keeps their agreement.
LEMMA QueuesUnchanged ==
  ASSUME Queues, UNCHANGED queueVars
  PROVE  Queues'
BY DEF Queues, queueVars, RunQueueAgrees, ReceiversAgree, SendersAgree,
       SenderLevels, SenderPriority

\* A Context that holds a queue's only item is unlinked from no other queue.
LEMMA UnlinkOne ==
  ASSUME NEW S, NEW queues \in [Gate -> List(S)], NEW g \in Gate, NEW x,
         \A h \in Gate \ {g} : x \notin Linked(queues[h])
  PROVE  [queues EXCEPT ![g] = Unlink(@, x)] = UnlinkAll(queues, x)
<1>1. \A h \in Gate \ {g} : Unlink(queues[h], x) = queues[h]
  BY UnlinkAbsent
<1>. QED  BY <1>1 DEF UnlinkAll

\* Unlinking an item that is in no Gate's queue changes none of them.
LEMMA UnlinkNone ==
  ASSUME NEW S, NEW queues \in [Gate -> List(S)], NEW x,
         \A h \in Gate : x \notin Linked(queues[h])
  PROVE  queues = UnlinkAll(queues, x)
<1>1. \A h \in Gate : Unlink(queues[h], x) = queues[h]
  BY UnlinkAbsent
<1>. QED  BY <1>1 DEF UnlinkAll

\* Item::unlink of whatever queue x is in keeps every Gate's queue in order.
LEMMA UnlinkAllOrderly ==
  ASSUME NEW S, NEW queues \in [Gate -> List(S)], NEW x, NEW level,
         \A g \in Gate : Orderly(queues[g], level)
  PROVE  /\ UnlinkAll(queues, x) \in [Gate -> List(S)]
         /\ \A g \in Gate : /\ Linked(UnlinkAll(queues, x)[g]) = Linked(queues[g]) \ {x}
                            /\ Orderly(UnlinkAll(queues, x)[g], level)
<1>1. ASSUME NEW g \in Gate
      PROVE  /\ Unlink(queues[g], x) \in List(S)
             /\ Linked(Unlink(queues[g], x)) = Linked(queues[g]) \ {x}
             /\ Orderly(Unlink(queues[g], x), level)
  <2>1. /\ queues[g] \in List(S)
        /\ Orderly(queues[g], level)
        /\ \A y \in Linked(queues[g]) \ {x} : level[y] = level[y]
    OBVIOUS
  <2>. QED  BY <2>1, UnlinkOrderly
<1>. QED  BY <1>1 DEF UnlinkAll

\* make_runnable, when the Context has been unlinked from whatever it was in.
LEMMA WakePreservesQueues ==
  ASSUME Queues, NEW c \in Context, state[c] # "runnable",
         MakeRunnable(c), UNCHANGED priority,
         receivers' = UnlinkAll(receivers, c),
         senders' = UnlinkAll(senders, c)
  PROVE  Queues'
<1>1. state' \in [Context -> {"stopped", "runnable", "sending", "receiving"}]
      /\ priority' \in [Context -> Prio]
      /\ state' = [state EXCEPT ![c] = "runnable"]
  BY DEF Queues, MakeRunnable
<1>2. /\ runnable' \in List(Context)
      /\ Linked(runnable') = Linked(runnable) \cup {c}
      /\ Orderly(runnable', priority)
  BY InsertOrderly DEF Queues, MakeRunnable, RunQueueAgrees
<1>3. /\ receivers' \in [Gate -> List(Context)]
      /\ \A g \in Gate : /\ Linked(receivers'[g]) = Linked(receivers[g]) \ {c}
                         /\ Orderly(receivers'[g], priority)
  <2>1. /\ receivers \in [Gate -> List(Context)]
        /\ \A g \in Gate : Orderly(receivers[g], priority)
    BY DEF Queues, ReceiversAgree
  <2>2. /\ UnlinkAll(receivers, c) \in [Gate -> List(Context)]
        /\ \A g \in Gate :
              /\ Linked(UnlinkAll(receivers, c)[g]) = Linked(receivers[g]) \ {c}
              /\ Orderly(UnlinkAll(receivers, c)[g], priority)
    BY ONLY <2>1, UnlinkAllOrderly, Zenon
  <2>. QED  BY <2>2
<1>4. /\ senders' \in [Gate -> List(Context \cup Interrupt)]
      /\ \A g \in Gate : /\ Linked(senders'[g]) = Linked(senders[g]) \ {c}
                         /\ Orderly(senders'[g], SenderLevels)
  <2>1. /\ senders \in [Gate -> List(Context \cup Interrupt)]
        /\ \A g \in Gate : Orderly(senders[g], SenderLevels)
    BY DEF Queues, SendersAgree
  <2>2. /\ UnlinkAll(senders, c) \in [Gate -> List(Context \cup Interrupt)]
        /\ \A g \in Gate :
              /\ Linked(UnlinkAll(senders, c)[g]) = Linked(senders[g]) \ {c}
              /\ Orderly(UnlinkAll(senders, c)[g], SenderLevels)
    BY ONLY <2>1, UnlinkAllOrderly, Zenon
  <2>. QED  BY <2>2
<1>5. RunQueueAgrees'
  BY <1>1, <1>2 DEF Queues, RunQueueAgrees
<1>6. ReceiversAgree'
  BY <1>1, <1>3, LevelFacts DEF Queues, ReceiversAgree
<1>7. SendersAgree'
  <2>1. SenderLevels' = SenderLevels
    BY DEF SenderLevels, SenderPriority
  <2>2. \A x \in Context :
          state'[x] = "sending" <=> \E g \in Gate : x \in Linked(senders'[g])
    BY <1>1, <1>4 DEF Queues, SendersAgree
  <2>. QED  BY <1>4, <2>1, <2>2 DEF Queues, SendersAgree
<1>. QED  BY <1>1, <1>2, <1>3, <1>4, <1>5, <1>6, <1>7 DEF Queues

\* invalidation_hook of a Context.
LEMMA HaltPreservesQueues ==
  ASSUME Queues, NEW c \in Context, UNCHANGED priority,
         runnable' = Unlink(runnable, c),
         state' = [state EXCEPT ![c] = "stopped"],
         receivers' = UnlinkAll(receivers, c),
         senders' = UnlinkAll(senders, c)
  PROVE  Queues'
<1>1. state' \in [Context -> {"stopped", "runnable", "sending", "receiving"}]
      /\ priority' \in [Context -> Prio]
  BY DEF Queues
<1>2. /\ runnable' \in List(Context)
      /\ Linked(runnable') = Linked(runnable) \ {c}
      /\ Orderly(runnable', priority)
  BY UnlinkOrderly DEF Queues, RunQueueAgrees
<1>3. /\ receivers' \in [Gate -> List(Context)]
      /\ \A g \in Gate : /\ Linked(receivers'[g]) = Linked(receivers[g]) \ {c}
                         /\ Orderly(receivers'[g], priority)
  <2>1. /\ receivers \in [Gate -> List(Context)]
        /\ \A g \in Gate : Orderly(receivers[g], priority)
    BY DEF Queues, ReceiversAgree
  <2>2. /\ UnlinkAll(receivers, c) \in [Gate -> List(Context)]
        /\ \A g \in Gate :
              /\ Linked(UnlinkAll(receivers, c)[g]) = Linked(receivers[g]) \ {c}
              /\ Orderly(UnlinkAll(receivers, c)[g], priority)
    BY ONLY <2>1, UnlinkAllOrderly, Zenon
  <2>. QED  BY <2>2
<1>4. /\ senders' \in [Gate -> List(Context \cup Interrupt)]
      /\ \A g \in Gate : /\ Linked(senders'[g]) = Linked(senders[g]) \ {c}
                         /\ Orderly(senders'[g], SenderLevels)
  <2>1. /\ senders \in [Gate -> List(Context \cup Interrupt)]
        /\ \A g \in Gate : Orderly(senders[g], SenderLevels)
    BY DEF Queues, SendersAgree
  <2>2. /\ UnlinkAll(senders, c) \in [Gate -> List(Context \cup Interrupt)]
        /\ \A g \in Gate :
              /\ Linked(UnlinkAll(senders, c)[g]) = Linked(senders[g]) \ {c}
              /\ Orderly(UnlinkAll(senders, c)[g], SenderLevels)
    BY ONLY <2>1, UnlinkAllOrderly, Zenon
  <2>. QED  BY <2>2
<1>5. RunQueueAgrees'
  BY <1>1, <1>2 DEF Queues, RunQueueAgrees
<1>6. ReceiversAgree'
  BY <1>1, <1>3, LevelFacts DEF Queues, ReceiversAgree
<1>7. SendersAgree'
  <2>1. SenderLevels' = SenderLevels
    BY DEF SenderLevels, SenderPriority
  <2>2. \A x \in Context :
          state'[x] = "sending" <=> \E g \in Gate : x \in Linked(senders'[g])
    BY <1>1, <1>4 DEF Queues, SendersAgree
  <2>. QED  BY <1>4, <2>1, <2>2 DEF Queues, SendersAgree
<1>. QED  BY <1>1, <1>2, <1>3, <1>4, <1>5, <1>6, <1>7 DEF Queues
Sender == Context \cup Interrupt

\* The queues of the Gates, each in order.
InOrder(queues, S, level) ==
  queues \in [Gate -> List(S)] /\ \A g \in Gate : Orderly(queues[g], level)

\* List::insert into the queue of one Gate ...
Enqueue(queues, g, x, p) == [queues EXCEPT ![g] = Insert(@, x, p)]

\* ... of an owner that is in no Gate's queue.
LEMMA EnqueueOne ==
  ASSUME NEW S, NEW level, NEW queues, InOrder(queues, S, level),
         NEW g \in Gate, NEW x \in S, level[x] \in Prio,
         x \notin Linked(queues[g])
  PROVE  /\ InOrder(Enqueue(queues, g, x, level[x]), S, level)
         /\ Linked(Enqueue(queues, g, x, level[x])[g]) = Linked(queues[g]) \cup {x}
         /\ \A h \in Gate \ {g} : Enqueue(queues, g, x, level[x])[h] = queues[h]
<1>1. /\ Insert(queues[g], x, level[x]) \in List(S)
      /\ Linked(Insert(queues[g], x, level[x])) = Linked(queues[g]) \cup {x}
      /\ Orderly(Insert(queues[g], x, level[x]), level)
  <2>1. queues[g] \in List(S) /\ Orderly(queues[g], level)
    BY DEF InOrder
  <2>. QED  BY <2>1, InsertOrderly
<1>. QED  BY <1>1 DEF Enqueue, InOrder

\* block_in_receive and block_in_reply, the latter with no queue to join.
LEMMA ReceiverBlocks ==
  ASSUME Queues, NEW c \in Context, state[c] = "runnable",
         UNCHANGED <<priority, senders>>, BlockReceiver(c),
         \/ UNCHANGED receivers
         \/ \E g \in Gate :
              receivers' = [receivers EXCEPT ![g] = Insert(@, c, priority[c])]
  PROVE  Queues'
<1>1. /\ state' \in [Context -> {"stopped", "runnable", "sending", "receiving"}]
      /\ priority' \in [Context -> Prio]
      /\ senders' \in [Gate -> List(Context \cup Interrupt)]
      /\ state' = [state EXCEPT ![c] = "receiving"]
  BY DEF Queues, BlockReceiver
<1>2. /\ runnable' \in List(Context)
      /\ Linked(runnable') = Linked(runnable) \ {c}
      /\ Orderly(runnable', priority)
  BY UnlinkOrderly DEF Queues, RunQueueAgrees, BlockReceiver
<1>3. \A g \in Gate : /\ c \notin Linked(receivers[g])
                      /\ c \notin Linked(senders[g])
                      /\ Linked(receivers[g]) \subseteq Context
  BY LevelFacts DEF Queues, ReceiversAgree, SendersAgree
<1>4. /\ receivers' \in [Gate -> List(Context)]
      /\ \A g \in Gate : Orderly(receivers'[g], priority)
      /\ \A g, h \in Gate : g # h => Linked(receivers'[g]) \cap Linked(receivers'[h]) = {}
      /\ \A g \in Gate : Linked(receivers'[g]) \subseteq Linked(receivers[g]) \cup {c}
  <2>1. CASE UNCHANGED receivers
    BY <2>1 DEF Queues, ReceiversAgree
  <2>2. ASSUME NEW g \in Gate,
               receivers' = [receivers EXCEPT ![g] = Insert(@, c, priority[c])]
        PROVE  /\ InOrder(receivers', Context, priority)
               /\ Linked(receivers'[g]) = Linked(receivers[g]) \cup {c}
               /\ \A h \in Gate \ {g} : receivers'[h] = receivers[h]
    <3>1. /\ InOrder(receivers, Context, priority)
          /\ priority[c] \in Prio
          /\ c \notin Linked(receivers[g])
      BY <1>3 DEF Queues, ReceiversAgree, InOrder
    <3>2. receivers' = Enqueue(receivers, g, c, priority[c])
      BY <2>2 DEF Enqueue
    <3>. QED  BY <3>1, <3>2, EnqueueOne
  <2>3. ASSUME NEW g \in Gate,
               receivers' = [receivers EXCEPT ![g] = Insert(@, c, priority[c])]
        PROVE  \A h, k \in Gate : h # k => Linked(receivers'[h]) \cap Linked(receivers'[k]) = {}
    <3>1. \A h, k \in Gate : h # k => Linked(receivers[h]) \cap Linked(receivers[k]) = {}
      BY DEF Queues, ReceiversAgree
    <3>2. \A h \in Gate : c \notin Linked(receivers[h])
      BY <1>3 DEF Queues, ReceiversAgree
    <3>3. /\ Linked(receivers'[g]) = Linked(receivers[g]) \cup {c}
          /\ \A h \in Gate \ {g} : receivers'[h] = receivers[h]
      BY <2>2, <2>3
    <3>. QED  BY <3>1, <3>2, <3>3
  <2>. QED  BY <2>1, <2>2, <2>3 DEF InOrder
<1>5. RunQueueAgrees'
  BY <1>1, <1>2 DEF Queues, RunQueueAgrees
<1>6. ReceiversAgree'
  <2>1. \A g \in Gate : \A x \in Linked(receivers'[g]) : state'[x] = "receiving"
    BY <1>1, <1>3, <1>4 DEF Queues, ReceiversAgree
  <2>. QED  BY <1>4, <2>1 DEF ReceiversAgree
<1>7. SendersAgree'
  <2>1. SenderLevels' = SenderLevels
    BY DEF SenderLevels, SenderPriority
  <2>2. \A x \in Context :
          state'[x] = "sending" <=> \E g \in Gate : x \in Linked(senders'[g])
    BY <1>1, <1>3 DEF Queues, SendersAgree
  <2>. QED  BY <2>1, <2>2 DEF Queues, SendersAgree
<1>. QED  BY <1>1, <1>2, <1>4, <1>5, <1>6, <1>7 DEF Queues

\* block_in_send of a Context.
LEMMA SenderBlocks ==
  ASSUME Queues, NEW c \in Context, NEW g \in Gate, state[c] = "runnable",
         UNCHANGED <<priority, receivers>>,
         runnable' = Unlink(runnable, c),
         state' = [state EXCEPT ![c] = "sending"],
         senders' = [senders EXCEPT ![g] = Insert(@, c, SenderPriority(c))]
  PROVE  Queues'
<1>1. /\ state' \in [Context -> {"stopped", "runnable", "sending", "receiving"}]
      /\ priority' \in [Context -> Prio]
      /\ receivers' \in [Gate -> List(Context)]
  BY DEF Queues
<1>2. /\ runnable' \in List(Context)
      /\ Linked(runnable') = Linked(runnable) \ {c}
      /\ Orderly(runnable', priority)
  BY UnlinkOrderly DEF Queues, RunQueueAgrees
<1>3. \A h \in Gate : /\ c \notin Linked(receivers[h])
                      /\ c \notin Linked(senders[h])
                      /\ Linked(receivers[h]) \subseteq Context
  BY LevelFacts DEF Queues, ReceiversAgree, SendersAgree
<1>4. /\ InOrder(senders', Sender, SenderLevels)
      /\ Linked(senders'[g]) = Linked(senders[g]) \cup {c}
      /\ \A h \in Gate \ {g} : senders'[h] = senders[h]
  <2>1. /\ g \in Gate
        /\ InOrder(senders, Sender, SenderLevels)
        /\ c \in Sender
        /\ SenderLevels[c] \in Prio
        /\ SenderLevels[c] = SenderPriority(c)
        /\ c \notin Linked(senders[g])
    BY <1>3, LevelFacts DEF Queues, SendersAgree, InOrder, Sender
  <2>2. senders' = Enqueue(senders, g, c, SenderLevels[c])
    BY <2>1 DEF Enqueue
  <2>. QED  BY ONLY <2>1, <2>2, EnqueueOne
<1>5. RunQueueAgrees'
  BY <1>1, <1>2 DEF Queues, RunQueueAgrees
<1>6. ReceiversAgree'
  BY <1>1, <1>3 DEF Queues, ReceiversAgree
<1>7. SendersAgree'
  <2>1. SenderLevels' = SenderLevels
    BY DEF SenderLevels, SenderPriority
  <2>2. \A x \in Context :
          state'[x] = "sending" <=> \E h \in Gate : x \in Linked(senders'[h])
    <3>1. \A x \in Context \ {c} : state'[x] = state[x]
      BY <1>1
    <3>2. state'[c] = "sending" /\ c \in Linked(senders'[g])
      BY <1>1, <1>4 DEF Queues
    <3>3. \A x \in Context \ {c}, h \in Gate :
            x \in Linked(senders'[h]) <=> x \in Linked(senders[h])
      BY <1>4
    <3>. QED  BY <3>1, <3>2, <3>3 DEF Queues, SendersAgree
  <2>3. \A h, k \in Gate : h # k => Linked(senders'[h]) \cap Linked(senders'[k]) = {}
    BY <1>3, <1>4 DEF Queues, SendersAgree
  <2>. QED  BY <1>4, <2>1, <2>2, <2>3 DEF SendersAgree, InOrder
<1>. QED  BY <1>1, <1>2, <1>4, <1>5, <1>6, <1>7 DEF Queues, InOrder, Sender

\* An Interrupt joins a Gate's senders, or leaves them.
LEMMA InterruptMoves ==
  ASSUME Queues, NEW i \in Interrupt,
         UNCHANGED <<state, priority, runnable, receivers>>,
         \/ senders' = UnlinkAll(senders, i)
         \/ /\ ~ WaitsToSend(i)
            /\ \E g \in Gate :
                 senders' = [senders EXCEPT ![g] = Insert(@, i, SenderPriority(i))]
  PROVE  Queues'
<1>0. i \notin Context /\ i \in Context \cup Interrupt
  BY KernelAssumption
<1>1. /\ senders \in [Gate -> List(Context \cup Interrupt)]
      /\ SenderLevels[i] \in Prio
      /\ SenderLevels[i] = SenderPriority(i)
      /\ \A h \in Gate : Orderly(senders[h], SenderLevels)
      /\ \A h, k \in Gate : h # k => Linked(senders[h]) \cap Linked(senders[k]) = {}
  BY LevelFacts DEF Queues, SendersAgree
<1>2. /\ senders' \in [Gate -> List(Context \cup Interrupt)]
      /\ \A h \in Gate : Orderly(senders'[h], SenderLevels)
      /\ \A h, k \in Gate : h # k => Linked(senders'[h]) \cap Linked(senders'[k]) = {}
      /\ \A h \in Gate : Linked(senders'[h]) \ {i} = Linked(senders[h]) \ {i}
  <2>1. CASE senders' = UnlinkAll(senders, i)
    <3>1. /\ UnlinkAll(senders, i) \in [Gate -> List(Context \cup Interrupt)]
          /\ \A h \in Gate : /\ Linked(UnlinkAll(senders, i)[h]) = Linked(senders[h]) \ {i}
                             /\ Orderly(UnlinkAll(senders, i)[h], SenderLevels)
      BY ONLY <1>1, UnlinkAllOrderly, Zenon
    <3>. QED  BY <1>1, <2>1, <3>1
  <2>2. CASE /\ ~ WaitsToSend(i)
             /\ \E g \in Gate :
                  senders' = [senders EXCEPT ![g] = Insert(@, i, SenderPriority(i))]
    <3>1. PICK g \in Gate : senders' = [senders EXCEPT ![g] = Insert(@, i, SenderPriority(i))]
      BY <2>2
    <3>2. \A h \in Gate : i \notin Linked(senders[h])
      BY <2>2 DEF WaitsToSend
    <3>3. /\ InOrder(senders', Sender, SenderLevels)
          /\ Linked(senders'[g]) = Linked(senders[g]) \cup {i}
          /\ \A h \in Gate \ {g} : senders'[h] = senders[h]
      <4>1. /\ senders' = Enqueue(senders, g, i, SenderLevels[i])
            /\ InOrder(senders, Sender, SenderLevels)
            /\ i \in Sender
            /\ SenderLevels[i] \in Prio
            /\ i \notin Linked(senders[g])
        BY <1>1, <3>1, <3>2 DEF Enqueue, InOrder, Sender
      <4>. QED  BY <4>1, EnqueueOne
    <3>4. \A h, k \in Gate : h # k => Linked(senders'[h]) \cap Linked(senders'[k]) = {}
      BY <1>1, <3>2, <3>3
    <3>5. \A h \in Gate : Linked(senders'[h]) \ {i} = Linked(senders[h]) \ {i}
      BY <3>3
    <3>. QED  BY <3>3, <3>4, <3>5 DEF InOrder, Sender
  <2>. QED  BY <2>1, <2>2
<1>3. SendersAgree'
  <2>1. SenderLevels' = SenderLevels
    BY DEF SenderLevels, SenderPriority
  <2>2. \A x \in Context :
          state'[x] = "sending" <=> \E h \in Gate : x \in Linked(senders'[h])
    BY <1>0, <1>2 DEF Queues, SendersAgree
  <2>. QED  BY <1>2, <2>1, <2>2 DEF SendersAgree
<1>. QED  BY <1>2, <1>3 DEF Queues, RunQueueAgrees, ReceiversAgree

\* A list whose owner x has moved to the level newLevel[x].
LEMMA RefileOrderly ==
  ASSUME NEW S, NEW l \in List(S), NEW x \in S, NEW level, NEW newLevel,
         newLevel[x] \in Prio, Orderly(l, level),
         \A y \in S : y # x => newLevel[y] = level[y]
  PROVE  /\ Refile(l, x, newLevel[x]) \in List(S)
         /\ Linked(Refile(l, x, newLevel[x])) = Linked(l)
         /\ Orderly(Refile(l, x, newLevel[x]), newLevel)
<1>1. Linked(l) \subseteq S
  BY LinkedSubset
<1>2. CASE x \in Linked(l)
  <2>. DEFINE u == Unlink(l, x)
  <2>1. u \in List(S) /\ Linked(u) = Linked(l) \ {x} /\ Orderly(u, newLevel)
    <3>1. \A y \in Linked(l) \ {x} : newLevel[y] = level[y]
      BY <1>1
    <3>. QED  BY <3>1, UnlinkOrderly
  <2>. HIDE DEF u
  <2>2. /\ Insert(u, x, newLevel[x]) \in List(S)
        /\ Linked(Insert(u, x, newLevel[x])) = Linked(u) \cup {x}
        /\ Orderly(Insert(u, x, newLevel[x]), newLevel)
    <3>1. x \notin Linked(u)
      BY <2>1
    <3>. QED  BY <2>1, <3>1, InsertOrderly
  <2>3. Refile(l, x, newLevel[x]) = Insert(u, x, newLevel[x])
    BY <1>2 DEF Refile, Reinsert, u
  <2>. QED  BY <1>2, <2>1, <2>2, <2>3
<1>3. CASE x \notin Linked(l)
  <2>1. Refile(l, x, newLevel[x]) = l
    BY <1>3 DEF Refile
  <2>2. \A y \in Linked(l) : newLevel[y] = level[y]
    BY <1>1, <1>3
  <2>. QED  BY <2>1, <2>2, OrderlyFrame
<1>. QED  BY <1>2, <1>3

\* set_priority.
LEMMA RefilePreservesQueues ==
  ASSUME Queues, NEW c \in Context, NEW p \in Prio, UNCHANGED state,
         priority'  = [priority EXCEPT ![c] = p],
         runnable'  = Refile(runnable, c, p),
         receivers' = [g \in Gate |-> Refile(receivers[g], c, p)],
         senders'   = [g \in Gate |-> Refile(senders[g], c, p)]
  PROVE  Queues'
<1>1. /\ priority' \in [Context -> Prio]
      /\ priority'[c] = p
      /\ \A y \in Context : y # c => priority'[y] = priority[y]
  BY DEF Queues
<1>2. /\ c \in Sender
      /\ SenderLevels'[c] = p
      /\ \A y \in Sender : y # c => SenderLevels'[y] = SenderLevels[y]
  BY <1>1 DEF SenderLevels, SenderPriority, Sender
<1>3. /\ runnable' \in List(Context)
      /\ Linked(runnable') = Linked(runnable)
      /\ Orderly(runnable', priority')
  <2>1. runnable \in List(Context) /\ Orderly(runnable, priority)
    BY DEF Queues, RunQueueAgrees
  <2>2. runnable' = Refile(runnable, c, priority'[c])
    BY <1>1
  <2>. QED  BY ONLY <1>1, <2>1, <2>2, c \in Context, p \in Prio, RefileOrderly
<1>4. ASSUME NEW g \in Gate
      PROVE  /\ receivers'[g] \in List(Context)
             /\ Linked(receivers'[g]) = Linked(receivers[g])
             /\ Orderly(receivers'[g], priority')
  <2>1. receivers[g] \in List(Context) /\ Orderly(receivers[g], priority)
    BY DEF Queues, ReceiversAgree
  <2>2. receivers'[g] = Refile(receivers[g], c, priority'[c])
    BY <1>1
  <2>. QED  BY ONLY <1>1, <2>1, <2>2, c \in Context, p \in Prio, RefileOrderly
<1>5. ASSUME NEW g \in Gate
      PROVE  /\ senders'[g] \in List(Sender)
             /\ Linked(senders'[g]) = Linked(senders[g])
             /\ Orderly(senders'[g], SenderLevels')
  <2>1. senders[g] \in List(Sender) /\ Orderly(senders[g], SenderLevels)
    BY DEF Queues, SendersAgree, Sender
  <2>2. senders'[g] = Refile(senders[g], c, SenderLevels'[c])
    BY <1>2
  <2>. QED  BY ONLY <1>2, <2>1, <2>2, p \in Prio, RefileOrderly
<1>6. /\ receivers' \in [Gate -> List(Context)]
      /\ senders' \in [Gate -> List(Sender)]
  BY <1>4, <1>5
<1>7. RunQueueAgrees'
  BY <1>3 DEF Queues, RunQueueAgrees
<1>8. ReceiversAgree'
  BY <1>4 DEF Queues, ReceiversAgree
<1>9. SendersAgree'
  BY <1>5 DEF Queues, SendersAgree
<1>. QED  BY <1>1, <1>3, <1>6, <1>7, <1>8, <1>9 DEF Queues, Sender

-----------------------------------------------------------------------------
(* The ways a Context wakes up, as the actions state them *)

\* A receiver is delivered to or interrupted: it leaves the queue of its Gate,
\* or none when it was awaiting a reply.
LEMMA WakeReceiver ==
  ASSUME Queues, NEW c \in Context, state[c] = "receiving",
         MakeRunnable(c), UNCHANGED <<priority, senders>>,
         \/ UNCHANGED receivers /\ AwaitingReply(c)
         \/ \E g \in Gate : /\ c \in Linked(receivers[g])
                            /\ receivers' = [receivers EXCEPT ![g] = Unlink(@, c)]
         \/ receivers' = UnlinkAll(receivers, c)
  PROVE  Queues'
<1>1. senders' = UnlinkAll(senders, c)
  <2>1. /\ senders \in [Gate -> List(Sender)]
        /\ \A g \in Gate : c \notin Linked(senders[g])
    BY DEF Queues, SendersAgree, Sender
  <2>2. senders = UnlinkAll(senders, c)
    BY ONLY <2>1, UnlinkNone
  <2>. QED  BY <2>2
<1>2. receivers \in [Gate -> List(Context)]
  BY DEF Queues
<1>3. receivers' = UnlinkAll(receivers, c)
  <2>1. CASE UNCHANGED receivers /\ AwaitingReply(c)
    <3>1. \A g \in Gate : c \notin Linked(receivers[g])
      BY <2>1 DEF AwaitingReply
    <3>2. receivers = UnlinkAll(receivers, c)
      BY ONLY <1>2, <3>1, UnlinkNone
    <3>. QED  BY <2>1, <3>2
  <2>2. ASSUME NEW g \in Gate, c \in Linked(receivers[g]),
               receivers' = [receivers EXCEPT ![g] = Unlink(@, c)]
        PROVE  receivers' = UnlinkAll(receivers, c)
    <3>1. \A h \in Gate \ {g} : c \notin Linked(receivers[h])
      BY <2>2 DEF Queues, ReceiversAgree
    <3>2. [receivers EXCEPT ![g] = Unlink(@, c)] = UnlinkAll(receivers, c)
      BY <1>2, <3>1, UnlinkOne
    <3>. QED  BY <2>2, <3>2
  <2>. QED  BY <2>1, <2>2
<1>. QED  BY <1>1, <1>3, WakePreservesQueues

\* A sender is received from or interrupted: it leaves the queue of its Gate.
LEMMA WakeSender ==
  ASSUME Queues, NEW c \in Context, state[c] = "sending",
         MakeRunnable(c), UNCHANGED <<priority, receivers>>,
         \/ \E g \in Gate : /\ c \in Linked(senders[g])
                            /\ senders' = [senders EXCEPT ![g] = Unlink(@, c)]
         \/ senders' = UnlinkAll(senders, c)
  PROVE  Queues'
<1>1. receivers' = UnlinkAll(receivers, c)
  <2>1. /\ receivers \in [Gate -> List(Context)]
        /\ \A g \in Gate : c \notin Linked(receivers[g])
    BY DEF Queues, ReceiversAgree
  <2>2. receivers = UnlinkAll(receivers, c)
    BY ONLY <2>1, UnlinkNone
  <2>. QED  BY <2>2
<1>2. senders' = UnlinkAll(senders, c)
  <2>1. ASSUME NEW g \in Gate, c \in Linked(senders[g]),
               senders' = [senders EXCEPT ![g] = Unlink(@, c)]
        PROVE  senders' = UnlinkAll(senders, c)
    <3>1. /\ senders \in [Gate -> List(Sender)]
          /\ \A h \in Gate \ {g} : c \notin Linked(senders[h])
      BY <2>1 DEF Queues, SendersAgree, Sender
    <3>2. [senders EXCEPT ![g] = Unlink(@, c)] = UnlinkAll(senders, c)
      BY <3>1, UnlinkOne
    <3>. QED  BY <2>1, <3>2
  <2>. QED  BY <2>1
<1>. QED  BY <1>1, <1>2, WakePreservesQueues

\* make_runnable starts a stopped Context, which is in no queue.
LEMMA WakeStopped ==
  ASSUME Queues, NEW c \in Context, state[c] = "stopped",
         MakeRunnable(c), UNCHANGED <<priority, receivers, senders>>
  PROVE  Queues'
<1>1. /\ receivers \in [Gate -> List(Context)]
      /\ \A g \in Gate : c \notin Linked(receivers[g])
  BY DEF Queues, ReceiversAgree
<1>2. /\ senders \in [Gate -> List(Sender)]
      /\ \A g \in Gate : c \notin Linked(senders[g])
  BY DEF Queues, SendersAgree, Sender
<1>3. receivers = UnlinkAll(receivers, c)
  BY ONLY <1>1, UnlinkNone
<1>4. senders = UnlinkAll(senders, c)
  BY ONLY <1>2, UnlinkNone
<1>. QED  BY <1>3, <1>4, WakePreservesQueues
=============================================================================
