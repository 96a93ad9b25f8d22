--------------------------- MODULE ConnectionProofs ---------------------------
(***************************************************************************)
(* What holds of one connection for any sizes of files and of buffers.     *)
(* The bytes on their way are framed: they continue the message the        *)
(* receiver is in, and go on with the messages sent after it.              *)
(***************************************************************************)
EXTENDS Connection, SequenceTheorems, FiniteSetTheorems, TLAPS

Block == Nat \X Nat
MessageSet == [name : Nat, data : Seq(Block)]
CellSet == [part : {"length", "body", "size", "data"}, content : Nat \cup Block]
ReadingSet == [part : {"length", "body", "size", "data"}, name : Nat, size : Nat,
               data : Seq(Block)]

Size(m) == 4 + Len(m.data)

-----------------------------------------------------------------------------
\* Sequences.

LEMMA ConcatIs ==
    ASSUME NEW S, NEW a \in Seq(S), NEW b \in Seq(S)
    PROVE  /\ a \o b \in Seq(S) /\ Len(a \o b) = Len(a) + Len(b)
           /\ Len(a) \in Nat /\ Len(b) \in Nat
           /\ \A i \in 1 .. Len(a) : (a \o b)[i] = a[i]
           /\ \A i \in 1 .. Len(b) : (a \o b)[Len(a) + i] = b[i]
  <1>1. /\ a \o b \in Seq(S) /\ Len(a \o b) = Len(a) + Len(b)
        /\ \A i \in 1 .. Len(a) + Len(b) :
              (a \o b)[i] = IF i <= Len(a) THEN a[i] ELSE b[i - Len(a)]
    BY ConcatProperties
  <1>2. Len(a) \in Nat /\ Len(b) \in Nat
    BY LenProperties
  <1>3. ASSUME NEW i \in 1 .. Len(a) PROVE (a \o b)[i] = a[i]
    BY <1>1, <1>2
  <1>4. ASSUME NEW i \in 1 .. Len(b) PROVE (a \o b)[Len(a) + i] = b[i]
    <2>1. /\ Len(a) + i \in 1 .. Len(a) + Len(b) /\ ~(Len(a) + i <= Len(a))
          /\ (Len(a) + i) - Len(a) = i
      BY <1>2
    <2> QED
      BY <1>1, <2>1
  <1> QED
    BY <1>1, <1>2, <1>3, <1>4

\* The first n elements, and those after them.
LEMMA PrefixIs ==
    ASSUME NEW S, NEW a \in Seq(S), NEW n \in 0 .. Len(a)
    PROVE  /\ SubSeq(a, 1, n) \in Seq(S) /\ Len(SubSeq(a, 1, n)) = n
           /\ \A i \in 1 .. n : SubSeq(a, 1, n)[i] = a[i]
  <1>1. Len(a) \in Nat /\ \A i \in 1 .. n : a[i] \in S
    BY LenProperties, ElementOfSeq
  <1> QED
    BY <1>1, SubSeqProperties

LEMMA SuffixIs ==
    ASSUME NEW S, NEW a \in Seq(S), NEW n \in 0 .. Len(a)
    PROVE  LET b == SubSeq(a, n + 1, Len(a)) IN
           /\ b \in Seq(S) /\ Len(b) = Len(a) - n
           /\ \A i \in 1 .. Len(a) - n : b[i] = a[n + i]
  <1>1. Len(a) \in Nat /\ \A i \in 1 .. Len(a) : a[i] \in S
    BY LenProperties, ElementOfSeq
  <1>2. CASE n = Len(a)
    BY <1>1, <1>2, SubSeqProperties
  <1>3. CASE n < Len(a)
    BY <1>1, <1>3, SubSeqProperties
  <1> QED
    BY <1>1, <1>2, <1>3

\* The first element moves to another sequence's end.
LEMMA MoveHead ==
    ASSUME NEW S, NEW q \in Seq(S), NEW p \in Seq(S), p # <<>>
    PROVE  Append(q, Head(p)) \o Tail(p) = q \o p
  <1> DEFINE h == Head(p)
             x == <<h>>
             t == Tail(p)
  <1>1. h \in S /\ t \in Seq(S) /\ x \in Seq(S)
    BY HeadTailProperties
  <1>2. p = x \o t
    <2>1. Len(p) \in Nat \ {0}
      BY EmptySeq
    <2>2. 1 \in 1 .. Len(p) /\ Len(p) \in 1 .. Len(p) /\ 1 + 1 = 2
      BY <2>1
    <2>3. SubSeq(p, 1, Len(p)) = <<p[1]>> \o SubSeq(p, 1 + 1, Len(p))
      BY <2>2, SubSeqRecursiveFirst
    <2>4. SubSeq(p, 1, Len(p)) = p /\ t = SubSeq(p, 2, Len(p)) /\ h = p[1]
      BY SubSeqFull, TailIsSubSeq
    <2> QED
      BY <2>2, <2>3, <2>4
  <1>3. Append(q, h) = q \o x
    BY <1>1, AppendIsConcat
  <1> HIDE DEF x, t, h
  <1>4. (q \o x) \o t = q \o (x \o t)
    BY <1>1, ConcatAssociative
  <1>5. Append(q, h) \o t = q \o p
    BY <1>2, <1>3, <1>4
  <1> QED
    BY <1>5 DEF h, t

\* The cells of a message.
LEMMA CellsAre ==
    ASSUME NEW m \in MessageSet
    PROVE  /\ Cells(m) \in Seq(CellSet) /\ Len(Cells(m)) = Size(m)
           /\ Size(m) \in Nat /\ Size(m) >= 4 /\ Len(m.data) \in Nat
           /\ Cells(m)[3].content = m.name /\ Cells(m)[4].content = Len(m.data)
           /\ \A i \in 1 .. Len(m.data) : Cells(m)[4 + i].content = m.data[i]
  <1> DEFINE a == <<Cell("length", 1), Cell("length", 2), Cell("body", m.name),
                    Cell("size", Len(m.data))>>
             b == Data(m)
  <1>1. /\ m.name \in Nat /\ Len(m.data) \in Nat /\ DOMAIN m.data = 1 .. Len(m.data)
        /\ \A i \in 1 .. Len(m.data) : m.data[i] \in Block
    BY LenProperties, ElementOfSeq DEF MessageSet
  <1>2. /\ \A p \in {"length", "body", "size", "data"}, c \in Nat \cup Block : Cell(p, c) \in CellSet
        /\ \A p, c : Cell(p, c).content = c
    BY DEF Cell, CellSet
  <1>3. /\ a \in Seq(CellSet) /\ Len(a) = 4
        /\ a[3].content = m.name /\ a[4].content = Len(m.data)
    BY <1>1, <1>2
  <1>4. /\ b \in Seq(CellSet) /\ Len(b) = Len(m.data)
        /\ \A i \in 1 .. Len(m.data) : b[i].content = m.data[i]
    <2>1. b = [i \in 1 .. Len(m.data) |-> Cell("data", m.data[i])]
      BY <1>1 DEF Data
    <2>2. \A i \in 1 .. Len(m.data) : Cell("data", m.data[i]) \in CellSet
      BY <1>1, <1>2
    <2> HIDE DEF b
    <2>3. b \in [1 .. Len(m.data) -> CellSet]
      BY <2>1, <2>2
    <2> QED
      BY <1>1, <1>2, <2>1, <2>3
  <1> HIDE DEF a, b
  <1>5. Cells(m) = a \o b
    BY DEF Cells, a, b
  <1>6. /\ a \o b \in Seq(CellSet) /\ Len(a \o b) = 4 + Len(m.data)
        /\ \A i \in 1 .. 4 : (a \o b)[i] = a[i]
        /\ \A i \in 1 .. Len(m.data) : (a \o b)[4 + i] = b[i]
    <2>1. /\ a \o b \in Seq(CellSet) /\ Len(a \o b) = Len(a) + Len(b)
          /\ \A i \in 1 .. Len(a) : (a \o b)[i] = a[i]
          /\ \A i \in 1 .. Len(b) : (a \o b)[Len(a) + i] = b[i]
      <3>1. a \in Seq(CellSet) /\ b \in Seq(CellSet)
        BY <1>3, <1>4
      <3> QED
        BY <3>1, ConcatIs
    <2>2. Len(a) = 4 /\ Len(b) = Len(m.data)
      BY <1>3, <1>4
    <2> QED
      BY <2>1, <2>2
  <1>7. (a \o b)[3].content = m.name /\ (a \o b)[4].content = Len(m.data)
    BY <1>3, <1>6
  <1>8. \A i \in 1 .. Len(m.data) : (a \o b)[4 + i].content = m.data[i]
    BY <1>4, <1>6
  <1>9. Size(m) = 4 + Len(m.data) /\ Size(m) \in Nat /\ Size(m) >= 4
    BY <1>1 DEF Size
  <1> QED
    BY <1>1, <1>5, <1>6, <1>7, <1>8, <1>9

-----------------------------------------------------------------------------
\* Frames.  A place in the stream is a message and an offset in its cells; offset
\* 0 is before its first cell.

After(snt, j, o, k, l) ==
    IF o # 0 /\ o = Size(snt[j]) THEN k = j + 1 /\ l = 1 ELSE k = j /\ l = o + 1
AtEnd(snt, j, o) ==
    \/ j = Len(snt) + 1 /\ o = 0
    \/ j = Len(snt) /\ j # 0 /\ o = Size(snt[j])

\* Every cell of q comes from the message and the offset that msg and off give,
\* each right after the one before; place 0 is where the receiver is.
Places(q, snt, msg, off) ==
    \A i \in 1 .. Len(q) :
        /\ msg[i] \in 1 .. Len(snt) /\ off[i] \in 1 .. Size(snt[msg[i]])
        /\ q[i] = Cells(snt[msg[i]])[off[i]]
        /\ After(snt, msg[i - 1], off[i - 1], msg[i], off[i])

\* The stream q goes on from place (j, o), and to the end of what was sent if it
\* is whole.
Framed(q, snt, j, o, whole) ==
    \E msg, off \in [0 .. Len(q) -> Nat] :
        /\ Places(q, snt, msg, off)
        /\ msg[0] = j /\ off[0] = o
        /\ whole => AtEnd(snt, msg[Len(q)], off[Len(q)])

\* The first cell is taken.
LEMMA FrameTake ==
    ASSUME NEW snt, NEW q \in Seq(CellSet), NEW j, NEW o, NEW w, Framed(q, snt, j, o, w),
           NEW b \in Seq(CellSet), Len(q) >= 1, Len(b) = Len(q) - 1,
           \A i \in 1 .. Len(b) : b[i] = q[i + 1]
    PROVE  \E k, l \in Nat :
              /\ After(snt, j, o, k, l)
              /\ k \in 1 .. Len(snt) /\ l \in 1 .. Size(snt[k])
              /\ q[1] = Cells(snt[k])[l]
              /\ Framed(b, snt, k, l, w)
  <1>1. Len(q) \in Nat \ {0} /\ Len(b) = Len(q) - 1 /\ Len(b) \in Nat
    BY LenProperties
  <1>2. PICK msg, off \in [0 .. Len(q) -> Nat] :
           /\ Places(q, snt, msg, off)
           /\ msg[0] = j /\ off[0] = o
           /\ w => AtEnd(snt, msg[Len(q)], off[Len(q)])
    BY DEF Framed
  <1>3. /\ msg[1] \in 1 .. Len(snt) /\ off[1] \in 1 .. Size(snt[msg[1]])
        /\ q[1] = Cells(snt[msg[1]])[off[1]]
        /\ After(snt, j, o, msg[1], off[1])
    <2>1. 1 \in 1 .. Len(q) /\ 1 - 1 = 0
      BY <1>1
    <2>2. After(snt, msg[1 - 1], off[1 - 1], msg[1], off[1])
      BY <1>2, <2>1 DEF Places
    <2> QED
      BY <1>2, <2>1, <2>2 DEF Places
  <1> DEFINE m2 == [i \in 0 .. Len(b) |-> msg[i + 1]]
             o2 == [i \in 0 .. Len(b) |-> off[i + 1]]
  <1>4. /\ m2 \in [0 .. Len(b) -> Nat] /\ o2 \in [0 .. Len(b) -> Nat]
        /\ \A i \in 0 .. Len(b) : m2[i] = msg[i + 1] /\ o2[i] = off[i + 1]
    BY <1>1
  <1> HIDE DEF m2, o2
  <1>5. Places(b, snt, m2, o2)
    <2> SUFFICES ASSUME NEW i \in 1 .. Len(b)
                 PROVE  /\ m2[i] \in 1 .. Len(snt) /\ o2[i] \in 1 .. Size(snt[m2[i]])
                        /\ b[i] = Cells(snt[m2[i]])[o2[i]]
                        /\ After(snt, m2[i - 1], o2[i - 1], m2[i], o2[i])
      BY DEF Places
    <2>1. /\ i + 1 \in 1 .. Len(q) /\ i \in 0 .. Len(b) /\ i - 1 \in 0 .. Len(b)
          /\ (i + 1) - 1 = i /\ (i - 1) + 1 = i
      BY <1>1
    <2>2. /\ m2[i] = msg[i + 1] /\ o2[i] = off[i + 1]
          /\ m2[i - 1] = msg[i] /\ o2[i - 1] = off[i]
      BY <1>4, <2>1
    <2>3. /\ msg[i + 1] \in 1 .. Len(snt) /\ off[i + 1] \in 1 .. Size(snt[msg[i + 1]])
          /\ q[i + 1] = Cells(snt[msg[i + 1]])[off[i + 1]]
          /\ After(snt, msg[(i + 1) - 1], off[(i + 1) - 1], msg[i + 1], off[i + 1])
      BY <1>2, <2>1 DEF Places
    <2>4. After(snt, msg[i], off[i], msg[i + 1], off[i + 1])
      BY <2>1, <2>3
    <2> QED
      BY <2>2, <2>3, <2>4
  <1>6. m2[0] = msg[1] /\ o2[0] = off[1] /\ m2[Len(b)] = msg[Len(q)] /\ o2[Len(b)] = off[Len(q)]
    <2>1. 0 \in 0 .. Len(b) /\ Len(b) \in 0 .. Len(b) /\ Len(b) + 1 = Len(q) /\ 0 + 1 = 1
      BY <1>1
    <2> QED
      BY <1>4, <2>1
  <1>7. Framed(b, snt, msg[1], off[1], w)
    BY <1>2, <1>4, <1>5, <1>6 DEF Framed
  <1>8. msg[1] \in Nat /\ off[1] \in Nat
    BY <1>1, <1>2
  <1> QED
    BY <1>3, <1>7, <1>8

\* The end of a message is the beginning of the next.
LEMMA FrameNext ==
    ASSUME NEW snt \in Seq(MessageSet), NEW q \in Seq(CellSet), NEW j \in 1 .. Len(snt), NEW w,
           Framed(q, snt, j, Size(snt[j]), w)
    PROVE  Framed(q, snt, j + 1, 0, w)
  <1>1. Len(q) \in Nat /\ Len(snt) \in Nat /\ Size(snt[j]) \in Nat /\ Size(snt[j]) >= 4
    BY LenProperties, ElementOfSeq, CellsAre
  <1>2. PICK msg, off \in [0 .. Len(q) -> Nat] :
           /\ Places(q, snt, msg, off)
           /\ msg[0] = j /\ off[0] = Size(snt[j])
           /\ w => AtEnd(snt, msg[Len(q)], off[Len(q)])
    BY DEF Framed
  <1> DEFINE m2 == [msg EXCEPT ![0] = j + 1]
             o2 == [off EXCEPT ![0] = 0]
  <1>3. /\ m2 \in [0 .. Len(q) -> Nat] /\ o2 \in [0 .. Len(q) -> Nat]
        /\ m2[0] = j + 1 /\ o2[0] = 0
        /\ \A i \in 1 .. Len(q) : m2[i] = msg[i] /\ o2[i] = off[i]
    BY <1>1
  <1> HIDE DEF m2, o2
  <1>4. ASSUME NEW i \in 1 .. Len(q)
        PROVE  After(snt, m2[i - 1], o2[i - 1], m2[i], o2[i])
    <2>1. After(snt, msg[i - 1], off[i - 1], msg[i], off[i])
      BY <1>2 DEF Places
    <2>2. CASE i = 1
      <3>1. i - 1 = 0
        BY <2>2
      <3>2. After(snt, j, Size(snt[j]), msg[i], off[i])
        BY <1>2, <2>1, <3>1
      <3>3. msg[i] = j + 1 /\ off[i] = 1
        BY <1>1, <3>2 DEF After
      <3> QED
        BY <1>3, <3>1, <3>3 DEF After
    <2>3. CASE i # 1
      <3>1. i - 1 \in 1 .. Len(q)
        BY <1>1, <2>3
      <3> QED
        BY <1>3, <2>1, <3>1
    <2> QED
      BY <2>2, <2>3
  <1>5. Places(q, snt, m2, o2)
    BY <1>2, <1>3, <1>4 DEF Places
  <1>6. ASSUME w PROVE AtEnd(snt, m2[Len(q)], o2[Len(q)])
    <2>1. AtEnd(snt, msg[Len(q)], off[Len(q)])
      BY <1>2, <1>6
    <2>2. CASE Len(q) = 0
      <3>1. AtEnd(snt, j, Size(snt[j]))
        BY <1>2, <2>1, <2>2
      <3>2. j = Len(snt)
        BY <1>1, <3>1 DEF AtEnd
      <3> QED
        BY <1>3, <2>2, <3>2 DEF AtEnd
    <2>3. CASE Len(q) # 0
      <3>1. Len(q) \in 1 .. Len(q)
        BY <1>1, <2>3
      <3> QED
        BY <1>3, <2>1, <3>1
    <2> QED
      BY <2>2, <2>3
  <1> QED
    BY <1>3, <1>5, <1>6 DEF Framed

\* A sender that ends may lose its last cells.
LEMMA FrameCut ==
    ASSUME NEW snt, NEW q \in Seq(CellSet), NEW j, NEW o, NEW w, Framed(q, snt, j, o, w),
           NEW b \in Seq(CellSet), Len(b) <= Len(q), \A i \in 1 .. Len(b) : b[i] = q[i]
    PROVE  Framed(b, snt, j, o, FALSE)
  <1>1. Len(q) \in Nat /\ Len(b) \in Nat
    BY LenProperties
  <1>2. PICK msg, off \in [0 .. Len(q) -> Nat] :
           Places(q, snt, msg, off) /\ msg[0] = j /\ off[0] = o
    BY DEF Framed
  <1> DEFINE m2 == [i \in 0 .. Len(b) |-> msg[i]]
             o2 == [i \in 0 .. Len(b) |-> off[i]]
  <1>3. /\ m2 \in [0 .. Len(b) -> Nat] /\ o2 \in [0 .. Len(b) -> Nat]
        /\ \A i \in 0 .. Len(b) : m2[i] = msg[i] /\ o2[i] = off[i]
    BY <1>1
  <1> HIDE DEF m2, o2
  <1>4. Places(b, snt, m2, o2)
    <2> SUFFICES ASSUME NEW i \in 1 .. Len(b)
                 PROVE  /\ m2[i] \in 1 .. Len(snt) /\ o2[i] \in 1 .. Size(snt[m2[i]])
                        /\ b[i] = Cells(snt[m2[i]])[o2[i]]
                        /\ After(snt, m2[i - 1], o2[i - 1], m2[i], o2[i])
      BY DEF Places
    <2>1. i \in 1 .. Len(q) /\ i \in 0 .. Len(b) /\ i - 1 \in 0 .. Len(b)
      BY <1>1
    <2>2. /\ m2[i] = msg[i] /\ o2[i] = off[i]
          /\ m2[i - 1] = msg[i - 1] /\ o2[i - 1] = off[i - 1]
      BY <1>3, <2>1
    <2> QED
      BY <1>2, <2>1, <2>2 DEF Places
  <1>5. m2[0] = j /\ o2[0] = o
    <2>1. 0 \in 0 .. Len(b)
      BY <1>1
    <2> QED
      BY <1>2, <1>3, <2>1
  <1> QED
    BY <1>3, <1>4, <1>5 DEF Framed

\* A message is sent after all that was sent before.
LEMMA FrameSend ==
    ASSUME NEW snt \in Seq(MessageSet), NEW q \in Seq(CellSet), NEW j, NEW o,
           j \in 1 .. Len(snt) \/ o = 0,
           NEW m \in MessageSet, Framed(q, snt, j, o, TRUE)
    PROVE  Framed(q \o Cells(m), Append(snt, m), j, o, TRUE)
  <1> DEFINE s2 == Append(snt, m)
             q2 == q \o Cells(m)
             n == Len(q)
             e == Len(snt) + 1
  <1>1. /\ n \in Nat /\ Len(snt) \in Nat /\ e = Len(snt) + 1 /\ e \in Nat
        /\ Size(m) \in Nat /\ Size(m) >= 4
        /\ Cells(m) \in Seq(CellSet) /\ Len(Cells(m)) = Size(m)
    BY LenProperties, CellsAre
  <1>2. /\ Len(s2) = e /\ s2[e] = m
        /\ \A k \in 1 .. Len(snt) : s2[k] = snt[k]
    BY AppendProperties
  <1>3. /\ Len(q2) = n + Size(m)
        /\ \A i \in 1 .. n : q2[i] = q[i]
        /\ \A i \in 1 .. Size(m) : q2[n + i] = Cells(m)[i]
    <2>1. /\ Len(q2) = Len(q) + Len(Cells(m))
          /\ \A i \in 1 .. Len(q) : q2[i] = q[i]
          /\ \A i \in 1 .. Len(Cells(m)) : q2[Len(q) + i] = Cells(m)[i]
      <3>1. Cells(m) \in Seq(CellSet)
        BY <1>1
      <3> QED
        BY <3>1, ConcatIs
    <2> QED
      BY <1>1, <2>1
  <1>4. PICK msg, off \in [0 .. n -> Nat] :
           /\ Places(q, snt, msg, off)
           /\ msg[0] = j /\ off[0] = o
           /\ AtEnd(snt, msg[n], off[n])
    BY DEF Framed
  <1> DEFINE m2 == [i \in 0 .. n + Size(m) |-> IF i <= n THEN msg[i] ELSE e]
             o2 == [i \in 0 .. n + Size(m) |-> IF i <= n THEN off[i] ELSE i - n]
  <1>5. /\ m2 \in [0 .. n + Size(m) -> Nat] /\ o2 \in [0 .. n + Size(m) -> Nat]
        /\ \A i \in 0 .. n : m2[i] = msg[i] /\ o2[i] = off[i]
        /\ \A i \in n + 1 .. n + Size(m) : m2[i] = e /\ o2[i] = i - n
    <2>1. \A i \in 0 .. n + Size(m) : IF i <= n THEN i \in 0 .. n ELSE i - n \in Nat
      BY <1>1
    <2>2. \A i \in 0 .. n : i \in 0 .. n + Size(m) /\ i <= n
      BY <1>1
    <2>3. \A i \in n + 1 .. n + Size(m) : i \in 0 .. n + Size(m) /\ ~(i <= n)
      BY <1>1
    <2> QED
      BY <1>1, <2>1, <2>2, <2>3
  <1> HIDE DEF s2, q2, n, e, m2, o2
  <1>6. ASSUME NEW i \in 1 .. n
        PROVE  /\ m2[i] \in 1 .. Len(s2) /\ o2[i] \in 1 .. Size(s2[m2[i]])
               /\ q2[i] = Cells(s2[m2[i]])[o2[i]]
               /\ After(s2, m2[i - 1], o2[i - 1], m2[i], o2[i])
    <2>1. /\ msg[i] \in 1 .. Len(snt) /\ off[i] \in 1 .. Size(snt[msg[i]])
          /\ q[i] = Cells(snt[msg[i]])[off[i]]
          /\ After(snt, msg[i - 1], off[i - 1], msg[i], off[i])
      BY <1>4 DEF Places, n
    <2>2. /\ m2[i] = msg[i] /\ o2[i] = off[i]
          /\ m2[i - 1] = msg[i - 1] /\ o2[i - 1] = off[i - 1]
      <3>1. i \in 0 .. n /\ i - 1 \in 0 .. n
        BY <1>1
      <3> QED
        BY <1>5, <3>1
    <2>3. s2[msg[i]] = snt[msg[i]] /\ msg[i] \in 1 .. Len(s2)
      BY <1>1, <1>2, <2>1
    <2>4. off[i - 1] = 0 \/ s2[msg[i - 1]] = snt[msg[i - 1]]
      <3>1. CASE i = 1
        <4>1. msg[i - 1] = j /\ off[i - 1] = o
          BY <1>4, <3>1
        <4> QED
          BY <1>2, <4>1
      <3>2. CASE i # 1
        <4>1. i - 1 \in 1 .. n
          BY <1>1, <3>2
        <4>2. msg[i - 1] \in 1 .. Len(snt)
          BY <1>4, <4>1 DEF Places, n
        <4> QED
          BY <1>2, <4>2
      <3> QED
        BY <3>1, <3>2
    <2>5. After(s2, msg[i - 1], off[i - 1], msg[i], off[i])
      BY <2>1, <2>4 DEF After
    <2> QED
      BY <1>3, <2>1, <2>2, <2>3, <2>5
  <1>7. ASSUME NEW i \in n + 1 .. n + Size(m)
        PROVE  /\ m2[i] \in 1 .. Len(s2) /\ o2[i] \in 1 .. Size(s2[m2[i]])
               /\ q2[i] = Cells(s2[m2[i]])[o2[i]]
               /\ After(s2, m2[i - 1], o2[i - 1], m2[i], o2[i])
    <2>1. i - n \in 1 .. Size(m) /\ n + (i - n) = i
      BY <1>1
    <2>2. m2[i] = e /\ o2[i] = i - n
      BY <1>5
    <2>3. e \in 1 .. Len(s2) /\ s2[e] = m
      BY <1>1, <1>2
    <2>4. q2[i] = Cells(m)[i - n]
      BY <1>3, <2>1
    <2>5. After(s2, m2[i - 1], o2[i - 1], e, i - n)
      <3>1. CASE i = n + 1
        <4>1. i - 1 = n /\ n \in 0 .. n /\ i - n = 1
          BY <1>1, <3>1
        <4>2. m2[i - 1] = msg[n] /\ o2[i - 1] = off[n]
          BY <1>5, <4>1
        <4>3. CASE msg[n] = e /\ off[n] = 0
          BY <4>1, <4>2, <4>3 DEF After
        <4>4. CASE msg[n] = Len(snt) /\ msg[n] # 0 /\ off[n] = Size(snt[msg[n]])
          <5>1. msg[n] \in 1 .. Len(snt)
            BY <1>1, <4>4
          <5>2. s2[msg[n]] = snt[msg[n]] /\ snt[msg[n]] \in MessageSet
            BY <1>2, <5>1, ElementOfSeq
          <5>3. off[n] # 0
            BY <4>4, <5>2, CellsAre
          <5> QED
            BY <1>1, <4>1, <4>2, <4>4, <5>2, <5>3 DEF After
        <4> QED
          BY <1>4, <4>3, <4>4 DEF AtEnd, e
      <3>2. CASE i # n + 1
        <4>1. i - 1 \in n + 1 .. n + Size(m)
          BY <1>1, <3>2
        <4>2. m2[i - 1] = e /\ o2[i - 1] = (i - 1) - n
          BY <1>5, <4>1
        <4>3. (i - 1) - n # Size(m) /\ i - n = ((i - 1) - n) + 1
          BY <1>1
        <4> QED
          BY <2>3, <4>2, <4>3 DEF After
      <3> QED
        BY <3>1, <3>2
    <2> QED
      BY <2>1, <2>2, <2>3, <2>4, <2>5
  <1>8. Places(q2, s2, m2, o2)
    <2>1. \A i \in 1 .. n + Size(m) : i \in 1 .. n \/ i \in n + 1 .. n + Size(m)
      BY <1>1
    <2> QED
      BY <1>3, <1>6, <1>7, <2>1 DEF Places
  <1>9. m2[0] = j /\ o2[0] = o
    <2>1. 0 \in 0 .. n
      BY <1>1
    <2> QED
      BY <1>4, <1>5, <2>1
  <1>10. AtEnd(s2, m2[Len(q2)], o2[Len(q2)])
    <2>1. /\ n + Size(m) \in n + 1 .. n + Size(m) /\ (n + Size(m)) - n = Size(m)
          /\ e # 0
      BY <1>1
    <2>2. m2[n + Size(m)] = e /\ o2[n + Size(m)] = Size(m)
      BY <1>5, <2>1
    <2> QED
      BY <1>2, <1>3, <2>1, <2>2 DEF AtEnd
  <1>11. Framed(q2, s2, j, o, TRUE)
    BY <1>3, <1>5, <1>8, <1>9, <1>10 DEF Framed
  <1> QED
    BY <1>11 DEF q2, s2

-----------------------------------------------------------------------------
\* The receiver inside a message.

Consumed(r) == CASE r.part = "length" -> 0
                 [] r.part = "body"   -> 2
                 [] r.part = "size"   -> 3
                 [] r.part = "data"   -> 4 + Len(r.data)

\* What the receiver has of message j is the beginning of it.
Partly(r, snt, j) ==
    /\ r.part # "length" => j \in 1 .. Len(snt)
    /\ r.part \in {"size", "data"} => r.name = snt[j].name
    /\ r.part = "data" =>
          /\ r.size = Len(snt[j].data)
          /\ \A i \in 1 .. Len(r.data) : r.data[i] = snt[j].data[i]

ReadingType(r) ==
    /\ r \in ReadingSet
    /\ r.part # "data" => r.data = <<>>
    /\ Len(r.data) <= r.size

Link(q, r, snt, rcv, whole) ==
    /\ Framed(q, snt, Len(rcv) + 1, Consumed(r), whole)
    /\ Partly(r, snt, Len(rcv) + 1)

\* The receiver has come n cells further.
Moves(b, r, r2, snt, rcv, whole, n) ==
    ReadingType(r2) /\ Link(b, r2, snt, rcv, whole) /\ Consumed(r2) = Consumed(r) + n

\* b is q without its first n cells.
Shorter(q, b, n) ==
    /\ q \in Seq(CellSet) /\ b \in Seq(CellSet)
    /\ n <= Len(q) /\ Len(b) = Len(q) - n
    /\ \A i \in 1 .. Len(b) : b[i] = q[i + n]

LEMMA ConsumedIs ==
    ASSUME NEW r \in ReadingSet
    PROVE  /\ r.part = "length" => Consumed(r) = 0
           /\ r.part = "body" => Consumed(r) = 2
           /\ r.part = "size" => Consumed(r) = 3
           /\ r.part = "data" => Consumed(r) = 4 + Len(r.data)
           /\ Len(r.data) \in Nat /\ Consumed(r) \in Nat
  <1>1. Len(r.data) \in Nat /\ r.part \in {"length", "body", "size", "data"}
    BY LenProperties DEF ReadingSet
  <1> QED
    BY <1>1 DEF Consumed

LEMMA LinkLength ==
    ASSUME NEW snt \in Seq(MessageSet), NEW rcv \in Seq(MessageSet), NEW q, NEW b, NEW w,
           NEW r, ReadingType(r), Link(q, r, snt, rcv, w), Shorter(q, b, 2),
           r.part = "length",
           NEW r2, r2 = [r EXCEPT !.part = "body"]
    PROVE  Moves(b, r, r2, snt, rcv, w, 2)
  <1> DEFINE j == Len(rcv) + 1
             c == SubSeq(q, 2, Len(q))
  <1>1. /\ q \in Seq(CellSet) /\ b \in Seq(CellSet) /\ Len(q) \in Nat /\ Len(b) \in Nat
        /\ Len(q) >= 2 /\ Len(b) = Len(q) - 2 /\ \A i \in 1 .. Len(b) : b[i] = q[i + 2]
        /\ j \in Nat /\ j # 0
    BY LenProperties DEF Shorter
  <1>2. r \in ReadingSet /\ r2 \in ReadingSet /\ r2.part = "body" /\ r2.data = r.data
        /\ r2.size = r.size
    BY DEF ReadingType, ReadingSet
  <1>3. Consumed(r) = 0 /\ Consumed(r2) = 2
    BY <1>2, ConsumedIs
  <1>4. /\ c \in Seq(CellSet) /\ Len(c) = Len(q) - 1
        /\ \A i \in 1 .. Len(q) - 1 : c[i] = q[1 + i]
    <2>1. 1 \in 0 .. Len(q) /\ 1 + 1 = 2
      BY <1>1
    <2> QED
      BY <1>1, <2>1, SuffixIs
  <1> HIDE DEF c, j
  <1>5. Framed(q, snt, j, 0, w)
    BY <1>3 DEF Link, j
  <1>6. PICK k, l \in Nat : /\ After(snt, j, 0, k, l)
                            /\ k \in 1 .. Len(snt) /\ l \in 1 .. Size(snt[k])
                            /\ Framed(c, snt, k, l, w)
    <2>1. Len(q) >= 1 /\ \A i \in 1 .. Len(c) : c[i] = q[i + 1]
      BY <1>1, <1>4
    <2> QED
      BY <1>1, <1>4, <1>5, <2>1, FrameTake
  <1>7. k = j /\ l = 1
    BY <1>6 DEF After
  <1>8. j \in 1 .. Len(snt) /\ Size(snt[j]) >= 4 /\ Framed(c, snt, j, 1, w)
    BY <1>6, <1>7, ElementOfSeq, CellsAre
  <1>9. PICK k2, l2 \in Nat : After(snt, j, 1, k2, l2) /\ Framed(b, snt, k2, l2, w)
    <2>1. Len(c) >= 1 /\ Len(b) = Len(c) - 1
      BY <1>1, <1>4
    <2>2. ASSUME NEW i \in 1 .. Len(b) PROVE b[i] = c[i + 1]
      <3>1. i + 1 \in 1 .. Len(q) - 1 /\ 1 + (i + 1) = i + 2
        BY <1>1
      <3>2. c[i + 1] = q[1 + (i + 1)]
        BY <1>4, <3>1
      <3> QED
        BY <1>1, <3>1, <3>2
    <2> QED
      BY <1>1, <1>4, <1>8, <2>1, <2>2, FrameTake
  <1>10. k2 = j /\ l2 = 2
    BY <1>8, <1>9 DEF After
  <1>11. Link(b, r2, snt, rcv, w)
    BY <1>2, <1>3, <1>8, <1>9, <1>10 DEF Link, Partly, j
  <1>12. ReadingType(r2)
    BY <1>2 DEF ReadingType
  <1> QED
    BY <1>3, <1>11, <1>12 DEF Moves

\* One cell more of a message: what it is, and the place after it.
LEMMA LinkCell ==
    ASSUME NEW snt \in Seq(MessageSet), NEW rcv \in Seq(MessageSet), NEW q, NEW b, NEW w,
           NEW r, ReadingType(r), Link(q, r, snt, rcv, w), Shorter(q, b, 1),
           r.part # "length",
           r.part = "data" => Len(r.data) # r.size
    PROVE  LET j == Len(rcv) + 1 IN
           /\ j \in 1 .. Len(snt) /\ snt[j] \in MessageSet
           /\ q[1] = Cells(snt[j])[Consumed(r) + 1]
           /\ Framed(b, snt, j, Consumed(r) + 1, w)
  <1> DEFINE j == Len(rcv) + 1
             o == Consumed(r)
  <1>1. /\ q \in Seq(CellSet) /\ b \in Seq(CellSet) /\ Len(q) \in Nat /\ Len(b) \in Nat
        /\ Len(q) >= 1 /\ Len(b) = Len(q) - 1 /\ \A i \in 1 .. Len(b) : b[i] = q[i + 1]
    BY LenProperties DEF Shorter
  <1>2. r \in ReadingSet /\ r.part \in {"body", "size", "data"}
    BY DEF ReadingType, ReadingSet
  <1>3. j \in 1 .. Len(snt) /\ Partly(r, snt, j) /\ Framed(q, snt, j, o, w)
    BY DEF Link, Partly
  <1>4. snt[j] \in MessageSet
    BY <1>3, ElementOfSeq
  <1> HIDE DEF j
  <1>5. o # Size(snt[j])
    <2>1. Size(snt[j]) = 4 + Len(snt[j].data) /\ Len(snt[j].data) \in Nat
      BY <1>4, CellsAre DEF Size
    <2>2. CASE r.part \in {"body", "size"}
      <3>1. o \in {2, 3}
        BY <1>2, <2>2, ConsumedIs
      <3> QED
        BY <2>1, <3>1
    <2>3. CASE r.part = "data"
      <3>1. o = 4 + Len(r.data) /\ Len(r.data) \in Nat
        BY <1>2, <2>3, ConsumedIs
      <3>2. Len(r.data) # Len(snt[j].data)
        BY <1>3, <2>3 DEF Partly
      <3> QED
        BY <2>1, <3>1, <3>2
    <2> QED
      BY <1>2, <2>2, <2>3
  <1> HIDE DEF o
  <1>6. PICK k, l \in Nat : /\ After(snt, j, o, k, l)
                            /\ q[1] = Cells(snt[k])[l]
                            /\ Framed(b, snt, k, l, w)
    BY <1>1, <1>3, FrameTake
  <1>7. k = j /\ l = o + 1
    BY <1>5, <1>6 DEF After
  <1> QED
    BY <1>3, <1>4, <1>6, <1>7 DEF j, o

LEMMA LinkBody ==
    ASSUME NEW snt \in Seq(MessageSet), NEW rcv \in Seq(MessageSet), NEW q, NEW b, NEW w,
           NEW r, ReadingType(r), Link(q, r, snt, rcv, w), Shorter(q, b, 1),
           r.part = "body",
           NEW r2, r2 = [r EXCEPT !.part = "size", !.name = q[1].content]
    PROVE  Moves(b, r, r2, snt, rcv, w, 1)
  <1> DEFINE j == Len(rcv) + 1
  <1>1. r \in ReadingSet
    BY DEF ReadingType
  <1>2. Consumed(r) = 2
    BY <1>1, ConsumedIs
  <1>3. /\ j \in 1 .. Len(snt) /\ snt[j] \in MessageSet
        /\ q[1] = Cells(snt[j])[2 + 1]
        /\ Framed(b, snt, j, 2 + 1, w)
    BY <1>2, LinkCell
  <1>4. q[1].content = snt[j].name /\ snt[j].name \in Nat
    BY <1>3, CellsAre DEF MessageSet
  <1>5. /\ r2 \in ReadingSet /\ r2.part = "size" /\ r2.name = snt[j].name
        /\ r2.data = r.data /\ r2.size = r.size
    BY <1>1, <1>4 DEF ReadingSet
  <1> HIDE DEF j
  <1>6. Consumed(r2) = 3
    BY <1>5, ConsumedIs
  <1>7. Link(b, r2, snt, rcv, w)
    BY <1>3, <1>5, <1>6 DEF Link, Partly, j
  <1>8. ReadingType(r2)
    BY <1>5 DEF ReadingType
  <1> QED
    BY <1>2, <1>6, <1>7, <1>8 DEF Moves

LEMMA LinkSize ==
    ASSUME NEW snt \in Seq(MessageSet), NEW rcv \in Seq(MessageSet), NEW q, NEW b, NEW w,
           NEW r, ReadingType(r), Link(q, r, snt, rcv, w), Shorter(q, b, 1),
           r.part = "size",
           NEW r2, r2 = [r EXCEPT !.part = "data", !.size = q[1].content]
    PROVE  Moves(b, r, r2, snt, rcv, w, 1)
  <1> DEFINE j == Len(rcv) + 1
  <1>1. r \in ReadingSet /\ r.data = <<>>
    BY DEF ReadingType
  <1>2. Consumed(r) = 3
    BY <1>1, ConsumedIs
  <1>3. /\ j \in 1 .. Len(snt) /\ snt[j] \in MessageSet
        /\ q[1] = Cells(snt[j])[3 + 1]
        /\ Framed(b, snt, j, 3 + 1, w)
    BY <1>2, LinkCell
  <1>4. q[1].content = Len(snt[j].data) /\ Len(snt[j].data) \in Nat
    BY <1>3, CellsAre
  <1>5. /\ r2 \in ReadingSet /\ r2.part = "data" /\ r2.name = r.name
        /\ r2.data = <<>> /\ r2.size = Len(snt[j].data)
    BY <1>1, <1>4 DEF ReadingSet
  <1>6. r.name = snt[j].name
    BY DEF Link, Partly
  <1> HIDE DEF j
  <1>7. Consumed(r2) = 4 /\ Len(r2.data) = 0
    <2>1. Len(r2.data) = 0
      BY <1>5
    <2>2. r2 \in ReadingSet /\ r2.part = "data"
      BY <1>5
    <2>3. Consumed(r2) = 4 + Len(r2.data)
      BY <2>2, ConsumedIs
    <2> QED
      BY <2>1, <2>3
  <1>8. Link(b, r2, snt, rcv, w)
    BY <1>3, <1>5, <1>6, <1>7 DEF Link, Partly, j
  <1>9. ReadingType(r2)
    BY <1>4, <1>5, <1>7 DEF ReadingType
  <1> QED
    BY <1>2, <1>7, <1>8, <1>9 DEF Moves

LEMMA LinkData ==
    ASSUME NEW snt \in Seq(MessageSet), NEW rcv \in Seq(MessageSet), NEW q, NEW b, NEW w,
           NEW r, ReadingType(r), Link(q, r, snt, rcv, w), Shorter(q, b, 1),
           r.part = "data", Len(r.data) # r.size,
           NEW r2, r2 = [r EXCEPT !.data = Append(@, q[1].content)]
    PROVE  Moves(b, r, r2, snt, rcv, w, 1)
  <1> DEFINE j == Len(rcv) + 1
             n == Len(r.data)
  <1>1. r \in ReadingSet /\ r.data \in Seq(Block) /\ r.size \in Nat /\ n <= r.size
    BY DEF ReadingType, ReadingSet
  <1>2. Consumed(r) = 4 + n /\ n \in Nat
    BY <1>1, ConsumedIs
  <1>3. /\ j \in 1 .. Len(snt) /\ snt[j] \in MessageSet
        /\ q[1] = Cells(snt[j])[(4 + n) + 1]
        /\ Framed(b, snt, j, (4 + n) + 1, w)
    BY <1>2, LinkCell
  <1>4. /\ r.size = Len(snt[j].data) /\ r.name = snt[j].name
        /\ \A i \in 1 .. n : r.data[i] = snt[j].data[i]
    BY DEF Link, Partly
  <1>5. n + 1 \in 1 .. Len(snt[j].data) /\ 4 + (n + 1) = (4 + n) + 1
    BY <1>1, <1>2, <1>4
  <1>6. q[1].content = snt[j].data[n + 1] /\ snt[j].data[n + 1] \in Block
    <2>1. Cells(snt[j])[4 + (n + 1)].content = snt[j].data[n + 1]
      BY <1>3, <1>5, CellsAre
    <2> QED
      BY <1>3, <1>5, <2>1, ElementOfSeq DEF MessageSet
  <1> DEFINE x == Append(r.data, q[1].content)
  <1>7. /\ x \in Seq(Block) /\ Len(x) = n + 1
        /\ \A i \in 1 .. n : x[i] = r.data[i]
        /\ x[n + 1] = q[1].content
    BY <1>1, <1>6, AppendProperties
  <1>8. \A i \in 1 .. n + 1 : x[i] = snt[j].data[i]
    <2>1. \A i \in 1 .. n + 1 : i \in 1 .. n \/ i = n + 1
      BY <1>2
    <2> HIDE DEF x
    <2> QED
      BY <1>4, <1>6, <1>7, <2>1
  <1>9. r2 = [r EXCEPT !.data = x]
    OBVIOUS
  <1> HIDE DEF x, j
  <1>10. /\ r2 \in ReadingSet /\ r2.part = "data" /\ r2.name = r.name
         /\ r2.data = x /\ r2.size = r.size
    BY <1>1, <1>7, <1>9 DEF ReadingSet
  <1>11. Consumed(r2) = (4 + n) + 1
    <2>1. r2 \in ReadingSet /\ r2.part = "data"
      BY <1>10
    <2>2. Consumed(r2) = 4 + Len(r2.data)
      BY <2>1, ConsumedIs
    <2>3. Len(r2.data) = n + 1
      BY <1>7, <1>10
    <2> QED
      BY <1>2, <2>2, <2>3
  <1>12. Link(b, r2, snt, rcv, w)
    <2>1. Partly(r2, snt, j)
      BY <1>3, <1>4, <1>7, <1>8, <1>10 DEF Partly
    <2> QED
      BY <1>3, <1>11, <2>1 DEF Link, j
  <1>13. ReadingType(r2)
    <2>1. n + 1 <= r.size
      BY <1>1, <1>2
    <2> QED
      BY <1>7, <1>10, <2>1 DEF ReadingType
  <1> QED
    BY <1>2, <1>11, <1>12, <1>13 DEF Moves

-----------------------------------------------------------------------------
\* The invariant of the stream, each way.

Agents == {"employer", "employee"}

StreamTypes ==
    /\ wire \in [Directions -> Seq(CellSet)] /\ out \in [Directions -> Seq(CellSet)]
    /\ reading \in [Directions -> ReadingSet]
    /\ sent \in [Directions -> Seq(MessageSet)] /\ received \in [Directions -> Seq(MessageSet)]
    /\ open \in [Agents -> BOOLEAN]

Prefix(rcv, snt) == Len(rcv) <= Len(snt) /\ \A i \in 1 .. Len(rcv) : rcv[i] = snt[i]

DirOK(d) ==
    /\ ReadingType(reading[d])
    /\ Len(wire[d]) <= Cap(d)
    /\ Prefix(received[d], sent[d])
    /\ open[To(d)] =>
          Link(wire[d] \o out[d], reading[d], sent[d], received[d], open[From(d)])

StreamInv == StreamTypes /\ \A d \in Directions : DirOK(d)

LEMMA Ends ==
    ASSUME NEW d \in Directions
    PROVE  /\ From(d) \in Agents /\ To(d) \in Agents /\ From(d) # To(d)
           /\ \A s \in Agents : s = From(d) \/ s = To(d)
           /\ \A b \in Directions : b = d \/ (From(b) = To(d) /\ To(b) = From(d))
           /\ Cap(d) \in Nat
  BY BoundsAssumption DEF Directions, From, To, Cap, Agents

LEMMA SameDir ==
    ASSUME NEW d \in Directions, DirOK(d),
           wire'[d] = wire[d], out'[d] = out[d], reading'[d] = reading[d],
           sent'[d] = sent[d], received'[d] = received[d], open' = open
    PROVE  DirOK(d)'
  BY DEF DirOK

LEMMA SameStream ==
    ASSUME StreamInv, UNCHANGED <<stream, reading, open, sent, received>>
    PROVE  StreamInv'
  BY DEF StreamInv, StreamTypes, DirOK, stream

LEMMA SendStream ==
    ASSUME StreamInv, NEW d \in Directions, NEW m \in MessageSet, StartSending(d, m),
           out[d] = <<>>, open[From(d)]
    PROVE  StreamInv'
  <1>1. /\ out' = [out EXCEPT ![d] = Cells(m)] /\ sent' = [sent EXCEPT ![d] = Append(@, m)]
        /\ UNCHANGED <<wire, reading, open, received>>
    BY DEF StartSending
  <1> DEFINE q == wire[d]
             a == sent[d]
             v == received[d]
             r == reading[d]
  <1>2. /\ q \in Seq(CellSet) /\ a \in Seq(MessageSet) /\ v \in Seq(MessageSet)
        /\ r \in ReadingSet /\ DirOK(d)
    BY DEF StreamInv, StreamTypes
  <1>3. /\ Cells(m) \in Seq(CellSet) /\ Append(a, m) \in Seq(MessageSet)
        /\ Len(Append(a, m)) = Len(a) + 1 /\ Len(a) \in Nat /\ Len(v) \in Nat
        /\ \A i \in 1 .. Len(a) : Append(a, m)[i] = a[i]
    BY <1>2, CellsAre, AppendProperties, LenProperties
  <1>4. StreamTypes'
    BY <1>1, <1>3 DEF StreamInv, StreamTypes
  <1>5. /\ out'[d] = Cells(m) /\ sent'[d] = Append(a, m)
        /\ wire'[d] = q /\ reading'[d] = r /\ received'[d] = v
        /\ open'[From(d)] = open[From(d)] /\ open'[To(d)] = open[To(d)]
    BY <1>1, <1>2 DEF StreamInv, StreamTypes
  <1>6. Prefix(v, Append(a, m))
    <2>1. Prefix(v, a)
      BY <1>2 DEF DirOK
    <2> QED
      BY <1>3, <2>1 DEF Prefix
  <1>7. ASSUME open[To(d)]
        PROVE  Link(q \o Cells(m), r, Append(a, m), v, TRUE)
    <2>1. q \o out[d] = q
      BY <1>2, ConcatEmptySeq
    <2>2. Framed(q, a, Len(v) + 1, Consumed(r), TRUE) /\ Partly(r, a, Len(v) + 1)
      BY <1>2, <1>7, <2>1 DEF DirOK, Link
    <2>3. Len(v) + 1 \in 1 .. Len(a) \/ Consumed(r) = 0
      BY <1>2, <2>2, ConsumedIs DEF Partly, ReadingSet
    <2>4. Framed(q \o Cells(m), Append(a, m), Len(v) + 1, Consumed(r), TRUE)
      BY <1>2, <2>2, <2>3, FrameSend
    <2>5. Partly(r, Append(a, m), Len(v) + 1)
      <3>1. CASE r.part = "length"
        BY <3>1 DEF Partly
      <3>2. CASE r.part # "length"
        <4>1. Len(v) + 1 \in 1 .. Len(a) /\ Len(v) + 1 \in 1 .. Len(a) + 1
          BY <1>3, <2>2, <3>2 DEF Partly
        <4>2. Append(a, m)[Len(v) + 1] = a[Len(v) + 1]
          BY <1>3, <4>1
        <4> QED
          BY <1>3, <2>2, <4>1, <4>2 DEF Partly
      <3> QED
        BY <3>1, <3>2
    <2> QED
      BY <2>4, <2>5 DEF Link
  <1>8. DirOK(d)'
    BY <1>2, <1>5, <1>6, <1>7 DEF DirOK
  <1>9. ASSUME NEW b \in Directions, b # d PROVE DirOK(b)'
    <2>1. DirOK(b)
      BY DEF StreamInv
    <2>2. /\ wire'[b] = wire[b] /\ out'[b] = out[b] /\ reading'[b] = reading[b]
          /\ sent'[b] = sent[b] /\ received'[b] = received[b] /\ open' = open
      BY <1>1, <1>9 DEF StreamInv, StreamTypes
    <2> QED
      BY <2>1, <2>2, SameDir
  <1> QED
    BY <1>4, <1>8, <1>9 DEF StreamInv

LEMMA WriteStream ==
    ASSUME StreamInv, NEW d \in Directions, Write(d)
    PROVE  StreamInv'
  <1>1. /\ wire' = [wire EXCEPT ![d] = Append(@, Head(out[d]))]
        /\ out' = [out EXCEPT ![d] = Tail(@)]
        /\ out[d] # <<>> /\ Len(wire[d]) < Cap(d)
        /\ UNCHANGED <<reading, open, sent, received>>
    BY DEF Write
  <1> DEFINE q == wire[d]
             p == out[d]
  <1>2. q \in Seq(CellSet) /\ p \in Seq(CellSet) /\ DirOK(d)
    BY DEF StreamInv, StreamTypes
  <1>3. /\ Head(p) \in CellSet /\ Tail(p) \in Seq(CellSet)
        /\ Append(q, Head(p)) \in Seq(CellSet) /\ Len(Append(q, Head(p))) = Len(q) + 1
        /\ Len(q) \in Nat
    <2>1. Head(p) \in CellSet /\ Tail(p) \in Seq(CellSet)
      BY <1>1, <1>2, HeadTailProperties
    <2> QED
      BY <1>2, <2>1, AppendProperties, LenProperties
  <1>4. Append(q, Head(p)) \o Tail(p) = q \o p
    BY <1>1, <1>2, MoveHead
  <1>5. StreamTypes'
    BY <1>1, <1>3 DEF StreamInv, StreamTypes
  <1>6. /\ wire'[d] = Append(q, Head(p)) /\ out'[d] = Tail(p)
    BY <1>1, <1>2 DEF StreamInv, StreamTypes
  <1>7. Len(wire'[d]) <= Cap(d)
    BY <1>1, <1>3, <1>6, Ends
  <1>8. wire'[d] \o out'[d] = wire[d] \o out[d]
    BY <1>4, <1>6
  <1>9. DirOK(d)'
    BY <1>1, <1>2, <1>7, <1>8 DEF DirOK
  <1>10. ASSUME NEW b \in Directions, b # d PROVE DirOK(b)'
    <2>1. DirOK(b)
      BY DEF StreamInv
    <2>2. wire'[b] = wire[b] /\ out'[b] = out[b]
      BY <1>1, <1>10 DEF StreamInv, StreamTypes
    <2> QED
      BY <1>1, <2>1, <2>2, SameDir
  <1> QED
    BY <1>5, <1>9, <1>10 DEF StreamInv

\* The cells taken are the first of the stream.
LEMMA ShorterStream ==
    ASSUME NEW p \in Seq(CellSet), NEW q \in Seq(CellSet), NEW n \in Nat, n <= Len(p),
           NEW b \in Seq(CellSet)
    PROVE  (Len(b) = Len(p) - n /\ \A i \in 1 .. Len(p) - n : b[i] = p[n + i])
              => Shorter(p \o q, b \o q, n)
  <1> DEFINE pq == p \o q
             bq == b \o q
  <1>1. Len(p) \in Nat /\ Len(q) \in Nat /\ Len(b) \in Nat
    BY LenProperties
  <1>2. /\ pq \in Seq(CellSet) /\ Len(pq) = Len(p) + Len(q)
        /\ \A i \in 1 .. Len(p) : pq[i] = p[i]
        /\ \A i \in 1 .. Len(q) : pq[Len(p) + i] = q[i]
    BY ConcatIs
  <1>3. /\ bq \in Seq(CellSet) /\ Len(bq) = Len(b) + Len(q)
        /\ \A i \in 1 .. Len(b) : bq[i] = b[i]
        /\ \A i \in 1 .. Len(q) : bq[Len(b) + i] = q[i]
    BY ConcatIs
  <1> HIDE DEF pq, bq
  <1>4. SUFFICES ASSUME Len(b) = Len(p) - n, \A i \in 1 .. Len(p) - n : b[i] = p[n + i]
                 PROVE  Shorter(pq, bq, n)
    BY DEF pq, bq
  <1>5. ASSUME NEW i \in 1 .. Len(bq) PROVE bq[i] = pq[i + n]
    <2>1. CASE i <= Len(b)
      <3>1. i \in 1 .. Len(b) /\ i \in 1 .. Len(p) - n /\ i + n \in 1 .. Len(p) /\ n + i = i + n
        BY <1>1, <1>4, <2>1
      <3> QED
        BY <1>4, <1>2, <1>3, <3>1
    <2>2. CASE ~(i <= Len(b))
      <3>1. /\ i - Len(b) \in 1 .. Len(q) /\ Len(b) + (i - Len(b)) = i
            /\ Len(p) + (i - Len(b)) = i + n
        BY <1>1, <1>4, <1>3, <2>2
      <3>2. bq[Len(b) + (i - Len(b))] = q[i - Len(b)]
        BY <1>3, <3>1
      <3>3. pq[Len(p) + (i - Len(b))] = q[i - Len(b)]
        BY <1>2, <3>1
      <3> QED
        BY <3>1, <3>2, <3>3
    <2> QED
      BY <2>1, <2>2
  <1>6. n <= Len(pq) /\ Len(bq) = Len(pq) - n
    BY <1>1, <1>4, <1>2, <1>3
  <1> QED
    BY <1>2, <1>3, <1>5, <1>6 DEF Shorter

LEMMA TakenCells ==
    ASSUME NEW p \in Seq(CellSet), NEW q \in Seq(CellSet), NEW n \in Nat, n <= Len(p),
           NEW b, b = SubSeq(p, n + 1, Len(p))
    PROVE  /\ b \in Seq(CellSet) /\ Len(b) = Len(p) - n
           /\ Shorter(p \o q, b \o q, n)
  <1>1. n \in 0 .. Len(p) /\ Len(p) \in Nat
    BY LenProperties
  <1>2. b \in Seq(CellSet) /\ Len(b) = Len(p) - n /\ \A i \in 1 .. Len(p) - n : b[i] = p[n + i]
    <2> DEFINE c == SubSeq(p, n + 1, Len(p))
    <2>1. c \in Seq(CellSet) /\ Len(c) = Len(p) - n /\ \A i \in 1 .. Len(p) - n : c[i] = p[n + i]
      BY <1>1, SuffixIs
    <2>2. b = c
      OBVIOUS
    <2> HIDE DEF c
    <2> QED
      BY <2>1, <2>2
  <1>3. Shorter(p \o q, b \o q, n)
    BY <1>2, ShorterStream
  <1> QED
    BY <1>2, <1>3

LEMMA FirstCell ==
    ASSUME NEW p \in Seq(CellSet), NEW q \in Seq(CellSet), p # <<>>
    PROVE  (p \o q)[1] = Head(p)
  <1>1. Len(p) \in Nat \ {0}
    BY EmptySeq
  <1>2. \A i \in 1 .. Len(p) : (p \o q)[i] = p[i]
    BY ConcatIs
  <1>3. (p \o q)[1] = p[1]
    BY <1>1, <1>2
  <1> QED
    BY <1>3

LEMMA TakeStream ==
    ASSUME StreamInv, NEW d \in Directions, NEW n \in Nat, n <= Len(wire[d]),
           NEW r2, Take(d, n, r2), ReadingType(r2),
           NEW b, b = SubSeq(wire[d], n + 1, Len(wire[d])),
           open[To(d)] => Link(b \o out[d], r2, sent[d], received[d], open[From(d)])
    PROVE  StreamInv'
  <1> DEFINE c == SubSeq(wire[d], n + 1, Len(wire[d]))
  <1>1. /\ wire' = [wire EXCEPT ![d] = c]
        /\ reading' = [reading EXCEPT ![d] = r2]
        /\ UNCHANGED <<out, open, sent, received>>
        /\ b = c
    BY DEF Take
  <1> HIDE DEF c
  <1>2. wire[d] \in Seq(CellSet) /\ out[d] \in Seq(CellSet) /\ DirOK(d) /\ r2 \in ReadingSet
    BY DEF StreamInv, StreamTypes, ReadingType
  <1>3. b \in Seq(CellSet) /\ Len(b) = Len(wire[d]) - n /\ Len(wire[d]) \in Nat
    BY <1>2, TakenCells, LenProperties
  <1>4. StreamTypes'
    BY <1>1, <1>2, <1>3 DEF StreamInv, StreamTypes
  <1>5. wire'[d] = b /\ reading'[d] = r2
    BY <1>1, <1>2 DEF StreamInv, StreamTypes
  <1>6. Len(wire'[d]) <= Cap(d)
    BY <1>2, <1>3, <1>5, Ends DEF DirOK
  <1>7. DirOK(d)'
    BY <1>1, <1>2, <1>5, <1>6 DEF DirOK
  <1>8. ASSUME NEW e \in Directions, e # d PROVE DirOK(e)'
    <2>1. DirOK(e)
      BY DEF StreamInv
    <2>2. wire'[e] = wire[e] /\ reading'[e] = reading[e]
      BY <1>1, <1>8 DEF StreamInv, StreamTypes
    <2> QED
      BY <1>1, <2>1, <2>2, SameDir
  <1> QED
    BY <1>4, <1>7, <1>8 DEF StreamInv

\* One read: n cells go, and the receiver has come as many further.
Reads(d, n) ==
    /\ n \in Nat /\ n <= Len(wire[d])
    /\ \E r2 \in ReadingSet :
          /\ Take(d, n, r2) /\ Consumed(r2) = Consumed(reading[d]) + n

LEMMA ReadLengthStream ==
    ASSUME StreamInv, NEW d \in Directions, open[To(d)], ReadLength(d)
    PROVE  StreamInv' /\ Reads(d, 2)
  <1> DEFINE b == SubSeq(wire[d], 2 + 1, Len(wire[d]))
             r2 == [reading[d] EXCEPT !.part = "body"]
             q == wire[d] \o out[d]
             c == b \o out[d]
             r == reading[d]
  <1>1. /\ wire[d] \in Seq(CellSet) /\ out[d] \in Seq(CellSet) /\ Len(wire[d]) \in Nat
        /\ r.part = "length" /\ 2 <= Len(wire[d])
        /\ Link(q, r, sent[d], received[d], open[From(d)])
        /\ sent[d] \in Seq(MessageSet) /\ received[d] \in Seq(MessageSet)
        /\ ReadingType(r)
    BY LenProperties DEF StreamInv, StreamTypes, DirOK, ReadLength, WholeHeader
  <1>2. Take(d, 2, r2)
    BY <1>1 DEF ReadLength, Smaller
  <1>3. b = SubSeq(wire[d], 2 + 1, Len(wire[d])) /\ r2 = [r EXCEPT !.part = "body"]
    OBVIOUS
  <1> HIDE DEF b, r2
  <1>4. Shorter(q, c, 2)
    BY <1>1, <1>3, TakenCells
  <1> HIDE DEF q, c, r
  <1>5. Moves(c, r, r2, sent[d], received[d], open[From(d)], 2)
    BY <1>1, <1>3, <1>4, LinkLength
  <1>6. ReadingType(r2) /\ Link(c, r2, sent[d], received[d], open[From(d)])
    BY <1>5 DEF Moves
  <1>7. r2 \in ReadingSet
    BY <1>6 DEF ReadingType
  <1>8. StreamInv'
    BY <1>1, <1>2, <1>3, <1>6, TakeStream DEF c
  <1> QED
    BY <1>1, <1>2, <1>5, <1>7, <1>8 DEF Reads, r, Moves

\* The reads of one cell.
LEMMA ReadCellStream ==
    ASSUME StreamInv, NEW d \in Directions, open[To(d)],
           ReadBody(d) \/ ReadSize(d) \/ ReadData(d)
    PROVE  StreamInv' /\ Reads(d, 1)
  <1> DEFINE b == SubSeq(wire[d], 1 + 1, Len(wire[d]))
             q == wire[d] \o out[d]
             c == b \o out[d]
             r == reading[d]
  <1>1. /\ wire[d] \in Seq(CellSet) /\ out[d] \in Seq(CellSet) /\ Len(wire[d]) \in Nat
        /\ 1 <= Len(wire[d])
        /\ Link(q, r, sent[d], received[d], open[From(d)])
        /\ sent[d] \in Seq(MessageSet) /\ received[d] \in Seq(MessageSet)
        /\ ReadingType(r)
    <2>1. wire[d] # <<>> /\ wire[d] \in Seq(CellSet)
      BY DEF ReadBody, ReadSize, ReadData, Ready, StreamInv, StreamTypes
    <2>2. Len(wire[d]) \in Nat \ {0}
      BY <2>1, EmptySeq
    <2> QED
      BY <2>2 DEF StreamInv, StreamTypes, DirOK
  <1>2. b = SubSeq(wire[d], 1 + 1, Len(wire[d]))
    OBVIOUS
  <1> HIDE DEF b
  <1>3. Shorter(q, c, 1) /\ q[1] = Head(wire[d])
    <2>1. Shorter(q, c, 1)
      BY <1>1, <1>2, TakenCells
    <2>2. q[1] = Head(wire[d])
      <3>1. wire[d] # <<>>
        BY <1>1, EmptySeq
      <3> QED
        BY <1>1, <3>1, FirstCell
    <2> QED
      BY <2>1, <2>2
  <1> HIDE DEF q, c, r
  <1>4. ASSUME NEW r2, Take(d, 1, r2), Moves(c, r, r2, sent[d], received[d], open[From(d)], 1)
        PROVE  StreamInv' /\ Reads(d, 1)
    <2>1. /\ ReadingType(r2) /\ Link(c, r2, sent[d], received[d], open[From(d)])
          /\ Consumed(r2) = Consumed(r) + 1
      BY <1>4 DEF Moves
    <2>2. StreamInv'
      BY <1>1, <1>2, <1>4, <2>1, TakeStream DEF c
    <2>3. r2 \in ReadingSet
      BY <2>1 DEF ReadingType
    <2> QED
      BY <1>1, <1>4, <2>1, <2>2, <2>3 DEF Reads, r
  <1>5. CASE ReadBody(d)
    <2> DEFINE r2 == [r EXCEPT !.part = "size", !.name = q[1].content]
    <2>1. Take(d, 1, r2) /\ r.part = "body"
      BY <1>3, <1>5 DEF ReadBody, r
    <2>2. r2 = [r EXCEPT !.part = "size", !.name = q[1].content]
      OBVIOUS
    <2> HIDE DEF r2
    <2>3. Moves(c, r, r2, sent[d], received[d], open[From(d)], 1)
      BY <1>1, <1>3, <2>1, <2>2, LinkBody
    <2> QED
      BY <1>4, <2>1, <2>3
  <1>6. CASE ReadSize(d)
    <2> DEFINE r2 == [r EXCEPT !.part = "data", !.size = q[1].content]
    <2>1. Take(d, 1, r2) /\ r.part = "size"
      BY <1>3, <1>6 DEF ReadSize, r
    <2>2. r2 = [r EXCEPT !.part = "data", !.size = q[1].content]
      OBVIOUS
    <2> HIDE DEF r2
    <2>3. Moves(c, r, r2, sent[d], received[d], open[From(d)], 1)
      BY <1>1, <1>3, <2>1, <2>2, LinkSize
    <2> QED
      BY <1>4, <2>1, <2>3
  <1>7. CASE ReadData(d)
    <2> DEFINE r2 == [r EXCEPT !.data = Append(@, q[1].content)]
    <2>1. Take(d, 1, r2) /\ r.part = "data" /\ Len(r.data) # r.size
      BY <1>3, <1>7 DEF ReadData, Complete, r
    <2>2. r2 = [r EXCEPT !.data = Append(@, q[1].content)]
      OBVIOUS
    <2> HIDE DEF r2
    <2>3. Moves(c, r, r2, sent[d], received[d], open[From(d)], 1)
      BY <1>1, <1>3, <2>1, <2>2, LinkData
    <2> QED
      BY <1>4, <2>1, <2>3
  <1> QED
    BY <1>5, <1>6, <1>7

LEMMA NotReadingType == ReadingType(NotReading) /\ Consumed(NotReading) = 0
  <1>1. <<>> \in Seq(Block) /\ Len(<<>>) = 0
    BY EmptySeq
  <1> QED
    BY <1>1 DEF NotReading, ReadingType, ReadingSet, Config, Consumed

\* What is handed to the agent is the next message that was sent.
Delivers(d) ==
    /\ Len(received[d]) < Len(sent[d])
    /\ received' = [received EXCEPT ![d] = Append(@, sent[d][Len(received[d]) + 1])]
    /\ sent' = sent

LEMMA FinishStream ==
    ASSUME StreamInv, NEW d \in Directions, open[To(d)], Finish(d)
    PROVE  /\ StreamInv' /\ Delivers(d)
           /\ Consumed(reading[d]) = Size(sent[d][Len(received[d]) + 1])
  <1> DEFINE q == wire[d] \o out[d]
             a == sent[d]
             v == received[d]
             r == reading[d]
             j == Len(v) + 1
             m == a[j]
             w == open[From(d)]
  <1>1. /\ q \in Seq(CellSet) /\ a \in Seq(MessageSet) /\ v \in Seq(MessageSet)
        /\ r \in ReadingSet /\ DirOK(d) /\ Link(q, r, a, v, w)
    <2>1. wire[d] \in Seq(CellSet) /\ out[d] \in Seq(CellSet)
      BY DEF StreamInv, StreamTypes
    <2>2. q \in Seq(CellSet)
      BY <2>1, ConcatIs
    <2> QED
      BY <2>2 DEF StreamInv, StreamTypes, DirOK
  <1>2. r.part = "data" /\ Len(r.data) = r.size /\ r.data \in Seq(Block)
    BY <1>1 DEF Finish, Complete, ReadingSet
  <1>3. /\ Framed(q, a, j, Consumed(r), w)
        /\ j \in 1 .. Len(a) /\ r.name = m.name /\ r.size = Len(m.data)
        /\ \A i \in 1 .. Len(r.data) : r.data[i] = m.data[i]
    BY <1>1, <1>2 DEF Link, Partly
  <1>4. m \in MessageSet
    BY <1>1, <1>3, ElementOfSeq
  <1> HIDE DEF m
  <1>5. r.data = m.data
    <2>1. m.data \in Seq(Block)
      BY <1>4 DEF MessageSet
    <2>2. \A i \in 1 .. Len(r.data) : r.data[i] = m.data[i]
      BY <1>3
    <2> DEFINE x == r.data
               y == m.data
    <2>3. /\ x \in Seq(Block) /\ y \in Seq(Block) /\ Len(x) = Len(y)
          /\ \A i \in 1 .. Len(x) : x[i] = y[i]
      BY <1>2, <1>3, <2>1, <2>2
    <2> HIDE DEF x, y
    <2>4. x = y
      BY <2>3, SeqEqual
    <2> QED
      BY <2>4 DEF x, y
  <1>6. [name |-> r.name, data |-> r.data] = m
    BY <1>3, <1>4, <1>5 DEF MessageSet
  <1>7. received' = [received EXCEPT ![d] = Append(v, m)]
    BY <1>6 DEF Finish
  <1>8. /\ wire' = wire /\ out' = out /\ open' = open /\ sent' = sent
        /\ reading' = [reading EXCEPT ![d] = NotReading]
    BY DEF Finish, stream
  <1>9. /\ Append(v, m) \in Seq(MessageSet) /\ Len(Append(v, m)) = j /\ Append(v, m)[j] = m
        /\ \A i \in 1 .. Len(v) : Append(v, m)[i] = v[i]
        /\ Len(v) \in Nat /\ Len(a) \in Nat
    BY <1>1, <1>4, AppendProperties, LenProperties
  <1>10. NotReading \in ReadingSet
    BY NotReadingType DEF ReadingType
  <1>11. StreamTypes'
    BY <1>7, <1>8, <1>9, <1>10 DEF StreamInv, StreamTypes
  <1>12. received'[d] = Append(v, m) /\ reading'[d] = NotReading
    BY <1>7, <1>8 DEF StreamInv, StreamTypes
  <1>13. Prefix(Append(v, m), a)
    <2>1. Prefix(v, a)
      BY <1>1 DEF DirOK
    <2>2. \A i \in 1 .. j : i \in 1 .. Len(v) \/ i = j
      BY <1>9
    <2>3. m = a[j]
      BY DEF m
    <2>4. j <= Len(a)
      BY <1>3
    <2> HIDE DEF j
    <2> QED
      BY <1>9, <2>1, <2>2, <2>3, <2>4 DEF Prefix
  <1>14. Consumed(r) = Size(a[j])
    <2>1. Consumed(r) = 4 + Len(r.data)
      BY <1>1, <1>2, ConsumedIs
    <2> QED
      BY <1>5, <2>1 DEF Size, m
  <1>15. Framed(q, a, j + 1, 0, w)
    <2>1. Framed(q, a, j, Size(a[j]), w)
      BY <1>3, <1>14
    <2> HIDE DEF q, a, j, w
    <2> QED
      BY <1>1, <1>3, <2>1, FrameNext
  <1>16. Link(q, NotReading, a, Append(v, m), w)
    <2>1. Framed(q, a, Len(Append(v, m)) + 1, Consumed(NotReading), w)
      BY <1>9, <1>15, NotReadingType
    <2>2. Partly(NotReading, a, Len(Append(v, m)) + 1)
      BY DEF Partly, NotReading
    <2> QED
      BY <2>1, <2>2 DEF Link
  <1>17. DirOK(d)'
    BY <1>1, <1>8, <1>12, <1>13, <1>16, NotReadingType DEF DirOK
  <1>18. ASSUME NEW b \in Directions, b # d PROVE DirOK(b)'
    <2>1. DirOK(b)
      BY DEF StreamInv
    <2>2. received'[b] = received[b] /\ reading'[b] = reading[b]
      BY <1>7, <1>8, <1>18 DEF StreamInv, StreamTypes
    <2> QED
      BY <1>8, <2>1, <2>2, SameDir
  <1>19. StreamInv'
    BY <1>11, <1>17, <1>18 DEF StreamInv
  <1>20. Delivers(d)
    <2>1. Len(v) < Len(a)
      BY <1>3, <1>9
    <2> QED
      BY <1>7, <1>8, <2>1 DEF Delivers, m
  <1> QED
    BY <1>19, <1>20, <1>14

LEMMA CutStream ==
    ASSUME NEW p \in Seq(CellSet), NEW u \in Seq(CellSet), NEW c \in Seq(CellSet),
           Len(c) <= Len(p), \A i \in 1 .. Len(c) : c[i] = p[i],
           NEW snt, NEW j, NEW o, NEW w, Framed(p \o u, snt, j, o, w)
    PROVE  Framed(c, snt, j, o, FALSE)
  <1> DEFINE q == p \o u
  <1>1. /\ q \in Seq(CellSet) /\ Len(q) = Len(p) + Len(u)
        /\ Len(p) \in Nat /\ Len(u) \in Nat /\ Len(c) \in Nat
        /\ \A i \in 1 .. Len(p) : q[i] = p[i]
    BY ConcatIs, LenProperties
  <1>2. Framed(q, snt, j, o, w)
    OBVIOUS
  <1> HIDE DEF q
  <1>3. Len(c) <= Len(q) /\ \A i \in 1 .. Len(c) : c[i] = q[i]
    BY <1>1
  <1> QED
    BY <1>1, <1>2, <1>3, FrameCut

LEMMA CloseStream ==
    ASSUME StreamInv, NEW s \in Agents, Close(s)
    PROVE  StreamInv'
  <1>1. PICK d \in Directions : \E k \in 0 .. Len(wire[d]) :
           From(d) = s /\ wire' = [wire EXCEPT ![d] = SubSeq(@, 1, k)]
    BY DEF Close
  <1>2. PICK k \in 0 .. Len(wire[d]) :
           From(d) = s /\ wire' = [wire EXCEPT ![d] = SubSeq(@, 1, k)]
    BY <1>1
  <1> DEFINE c == SubSeq(wire[d], 1, k)
  <1>3. /\ wire' = [wire EXCEPT ![d] = c]
        /\ open' = [open EXCEPT ![s] = FALSE]
        /\ out' = [e \in Directions |-> IF From(e) = s THEN <<>> ELSE out[e]]
        /\ reading' = [e \in Directions |-> IF To(e) = s THEN NotReading ELSE reading[e]]
        /\ sent' = sent /\ received' = received
    BY <1>2 DEF Close
  <1>4. wire[d] \in Seq(CellSet) /\ out[d] \in Seq(CellSet) /\ Len(wire[d]) \in Nat
    BY LenProperties DEF StreamInv, StreamTypes
  <1>5. /\ c \in Seq(CellSet) /\ Len(c) = k
        /\ \A i \in 1 .. k : c[i] = wire[d][i]
    BY <1>4, PrefixIs
  <1> HIDE DEF c
  <1>6. NotReading \in ReadingSet /\ <<>> \in Seq(CellSet)
    BY NotReadingType, EmptySeq DEF ReadingType
  <1>7. StreamTypes'
    BY <1>3, <1>5, <1>6 DEF StreamInv, StreamTypes
  <1>8. /\ wire'[d] = c /\ out'[d] = <<>> /\ reading'[d] = reading[d]
        /\ open'[From(d)] = FALSE /\ open'[To(d)] = open[To(d)]
    BY <1>2, <1>3, Ends DEF StreamInv, StreamTypes
  <1>9. DirOK(d)
    BY DEF StreamInv
  <1>10. ASSUME open[To(d)] PROVE Link(c \o <<>>, reading[d], sent[d], received[d], FALSE)
    <2> DEFINE j == Len(received[d]) + 1
               o == Consumed(reading[d])
    <2>1. Framed(wire[d] \o out[d], sent[d], j, o, open[From(d)]) /\ Partly(reading[d], sent[d], j)
      BY <1>9, <1>10 DEF DirOK, Link
    <2>2. Len(c) <= Len(wire[d]) /\ \A i \in 1 .. Len(c) : c[i] = wire[d][i]
      BY <1>4, <1>5
    <2> HIDE DEF j, o
    <2>3. Framed(c, sent[d], j, o, FALSE)
      BY <1>4, <1>5, <2>1, <2>2, CutStream
    <2>4. c \o <<>> = c
      BY <1>5, ConcatEmptySeq
    <2> QED
      BY <2>1, <2>3, <2>4 DEF Link, j, o
  <1>11. DirOK(d)'
    <2>1. Len(c) <= Cap(d)
      BY <1>4, <1>5, <1>9, Ends DEF DirOK
    <2> QED
      BY <1>3, <1>8, <1>9, <1>10, <2>1 DEF DirOK
  <1>12. ASSUME NEW b \in Directions, b # d PROVE DirOK(b)'
    <2>1. DirOK(b) /\ To(b) = s
      BY <1>2, <1>12, Ends DEF StreamInv
    <2>2. wire'[b] = wire[b] /\ reading'[b] = NotReading /\ open'[To(b)] = FALSE
      BY <1>3, <1>12, <2>1 DEF StreamInv, StreamTypes
    <2> QED
      BY <1>3, <2>1, <2>2, NotReadingType DEF DirOK
  <1> QED
    BY <1>7, <1>11, <1>12 DEF StreamInv

LEMMA InitStream == Init => StreamInv
  <1> SUFFICES ASSUME Init PROVE StreamInv
    OBVIOUS
  <1>1. /\ \A S : <<>> \in Seq(S)
        /\ Len(<<>>) = 0 /\ NotReading \in ReadingSet
    BY NotReadingType, EmptySeq DEF ReadingType
  <1>2. StreamTypes
    BY <1>1 DEF Init, StreamTypes, Agents
  <1>3. ASSUME NEW d \in Directions PROVE DirOK(d)
    <2>1. /\ wire[d] = <<>> /\ out[d] = <<>> /\ sent[d] = <<>> /\ received[d] = <<>>
          /\ reading[d] = NotReading /\ open[From(d)] = TRUE
      BY Ends DEF Init, Agents
    <2>2. Framed(<<>>, <<>>, 1, 0, TRUE)
      <3> DEFINE msg == [i \in 0 .. 0 |-> 1]
                 off == [i \in 0 .. 0 |-> 0]
      <3>1. /\ msg \in [0 .. Len(<<>>) -> Nat] /\ off \in [0 .. Len(<<>>) -> Nat]
            /\ msg[0] = 1 /\ off[0] = 0
        BY <1>1
      <3> HIDE DEF msg, off
      <3>2. Places(<<>>, <<>>, msg, off) /\ AtEnd(<<>>, msg[Len(<<>>)], off[Len(<<>>)])
        BY <1>1, <3>1 DEF Places, AtEnd
      <3> QED
        BY <3>1, <3>2 DEF Framed
    <2>3. Partly(NotReading, <<>>, 1)
      BY DEF Partly, NotReading
    <2>4. <<>> \o <<>> = <<>>
      <3>1. <<>> \in Seq(CellSet)
        BY <1>1
      <3> QED
        BY <3>1, ConcatEmptySeq
    <2>5. Link(wire[d] \o out[d], reading[d], sent[d], received[d], open[From(d)])
      <3>1. Framed(<<>>, <<>>, Len(<<>>) + 1, Consumed(NotReading), TRUE)
        <4>1. Len(<<>>) + 1 = 1 /\ Consumed(NotReading) = 0
          BY <1>1, NotReadingType
        <4> QED
          BY <2>2, <4>1
      <3>2. Partly(NotReading, <<>>, Len(<<>>) + 1)
        BY <1>1, <2>3
      <3>3. Link(<<>>, NotReading, <<>>, <<>>, TRUE)
        BY <3>1, <3>2 DEF Link
      <3> QED
        BY <2>1, <2>4, <3>3
    <2>6. Prefix(<<>>, <<>>) /\ Len(wire[d]) <= Cap(d)
      BY <1>1, <2>1, Ends DEF Prefix
    <2> QED
      BY <2>1, <2>5, <2>6, NotReadingType DEF DirOK
  <1> QED
    BY <1>2, <1>3 DEF StreamInv

-----------------------------------------------------------------------------
\* The loops and the tables.

LoopSteps == {"select", "read", "send", "result", "sending", "refused", "gone"}

LoopInv ==
    /\ at \in [Agents -> LoopSteps]
    /\ at["employer"] \in {"select", "read", "send", "gone"}
    /\ at["employee"] \in {"select", "read", "result", "sending", "refused", "gone"}
    /\ \A s \in Agents : (at[s] = "gone") <=> ~open[s]
    /\ \A d \in Directions : at[To(d)] # "read" => reading[d] = NotReading
    /\ at["employer"] # "send" => out["down"] = <<>>
    /\ at["employee"] # "sending" => out["up"] = <<>>

TableTypes ==
    /\ configured \in BOOLEAN /\ active_tasks \in 0 .. MaxActive
    /\ timeouts \in 0 .. MaxTimeouts /\ next \in 1 .. MaxChunks + 1
    /\ results \subseteq 1 .. MaxChunks

ConnectionInv == StreamInv /\ LoopInv /\ TableTypes

LEMMA Ways ==
    /\ Directions = {"down", "up"} /\ Agents = {"employer", "employee"}
    /\ From("down") = "employer" /\ To("down") = "employee"
    /\ From("up") = "employee" /\ To("up") = "employer"
  BY DEF Directions, Agents, From, To

LEMMA MessageIs ==
    ASSUME NEW n \in Nat, NEW blocks \in Nat
    PROVE  /\ Message(n, blocks) \in MessageSet
           /\ Message(n, blocks).name = n /\ Len(Message(n, blocks).data) = blocks
  <1> DEFINE x == [i \in 1 .. blocks |-> <<n, i>>]
  <1>1. x \in [1 .. blocks -> Block]
    BY DEF Block
  <1>2. x \in Seq(Block) /\ Len(x) = blocks
    <2> HIDE DEF x
    <2>1. x \in Seq(Block)
      BY <1>1
    <2>2. DOMAIN x = 1 .. blocks
      BY <1>1
    <2> QED
      BY <2>1, <2>2, LenProperties
  <1> HIDE DEF x
  <1>3. Message(n, blocks) = [name |-> n, data |-> x]
    BY DEF Message, x
  <1> QED
    BY <1>2, <1>3 DEF MessageSet

LEMMA TableStep ==
    ASSUME TableTypes, Next
    PROVE  TableTypes'
  <1> USE BoundsAssumption DEF TableTypes, tables
  <1>1. CASE UNCHANGED tables
    BY <1>1
  <1>2. CASE receive_result_from_employee
    BY <1>2 DEF receive_result_from_employee
  <1>3. CASE send_initial_config
    BY <1>3 DEF send_initial_config
  <1>4. CASE send_file_to_employee
    BY <1>4 DEF send_file_to_employee, Idle
  <1>5. CASE TimesOut
    BY <1>5 DEF TimesOut
  <1>6. ASSUME NEW n \in 1 .. MaxChunks, Result(n) PROVE TableTypes'
    BY <1>6 DEF Result
  <1>7. ASSUME NEW n \in 1 .. MaxChunks, send_result_to_employer(n) PROVE TableTypes'
    BY <1>7 DEF send_result_to_employer
  <1>8. ASSUME NEW d \in Directions,
               Write(d) \/ ReadLength(d) \/ ReadBody(d) \/ ReadSize(d) \/ ReadData(d) \/ GivesUp(d)
        PROVE  UNCHANGED tables
    BY <1>8 DEF Write, ReadLength, ReadBody, ReadSize, ReadData, GivesUp, Take, Close
  <1>9. ASSUME \/ EmployerSelects \/ EmployerLoops \/ recv_json_peek
               \/ receive_task_from_employer \/ EmployeeLoops \/ Leave("employer")
               \/ Leave("employee")
        PROVE  UNCHANGED tables
    BY <1>9 DEF EmployerSelects, EmployerLoops, recv_json_peek, receive_task_from_employer,
                EmployeeLoops, Leave, Close
  <1> QED
    BY <1>1, <1>2, <1>3, <1>4, <1>5, <1>6, <1>7, <1>8, <1>9 DEF Next

\* A step that moves one loop.
LEMMA GoLoop ==
    ASSUME LoopInv, StreamTypes, NEW s \in Agents, open[s], NEW place \in LoopSteps \ {"gone"},
           Go(s, place), UNCHANGED <<out, open>>,
           s = "employer" => /\ place \in {"select", "read", "send"}
                             /\ at[s] = "send" => out["down"] = <<>>
                             /\ reading' = reading \/ reading' = [reading EXCEPT !["up"] = NotReading]
                             /\ at[s] = "read" => reading'["up"] = NotReading,
           s = "employee" => /\ place \in {"select", "read", "result", "sending", "refused"}
                             /\ at[s] = "sending" => out["up"] = <<>>
                             /\ reading' = reading \/ reading' = [reading EXCEPT !["down"] = NotReading]
                             /\ at[s] = "read" => reading'["down"] = NotReading
    PROVE  LoopInv'
  <1>1. at' = [at EXCEPT ![s] = place]
    BY DEF Go
  <1>2. CASE s = "employer"
    BY <1>1, <1>2, Ways DEF LoopInv, StreamTypes
  <1>3. CASE s = "employee"
    BY <1>1, <1>3, Ways DEF LoopInv, StreamTypes
  <1> QED
    BY <1>2, <1>3, Ways

LEMMA CloseLoop ==
    ASSUME LoopInv, StreamTypes, NEW s \in Agents, Close(s)
    PROVE  LoopInv'
  <1>1. /\ open' = [open EXCEPT ![s] = FALSE] /\ at' = [at EXCEPT ![s] = "gone"]
        /\ out' = [d \in Directions |-> IF From(d) = s THEN <<>> ELSE out[d]]
        /\ reading' = [d \in Directions |-> IF To(d) = s THEN NotReading ELSE reading[d]]
    BY DEF Close, Go
  <1>2. CASE s = "employer"
    BY <1>1, <1>2, Ways DEF LoopInv, StreamTypes, LoopSteps
  <1>3. CASE s = "employee"
    BY <1>1, <1>3, Ways DEF LoopInv, StreamTypes, LoopSteps
  <1> QED
    BY <1>2, <1>3, Ways

\* A read or a write in the middle of a message.
LEMMA CellLoop ==
    ASSUME LoopInv, StreamTypes, NEW d \in Directions, UNCHANGED <<at, open>>,
           \/ /\ out[d] # <<>> /\ out' = [out EXCEPT ![d] = Tail(@)] /\ reading' = reading
           \/ /\ at[To(d)] = "read" /\ out' = out
              /\ \E r : reading' = [reading EXCEPT ![d] = r]
    PROVE  LoopInv'
  <1>1. CASE out[d] # <<>> /\ out' = [out EXCEPT ![d] = Tail(@)] /\ reading' = reading
    BY <1>1, Ways DEF LoopInv, StreamTypes
  <1>2. CASE at[To(d)] = "read" /\ out' = out /\ \E r : reading' = [reading EXCEPT ![d] = r]
    BY <1>2, Ways DEF LoopInv, StreamTypes
  <1> QED
    BY <1>1, <1>2

\* Each step, as the streams and the loops see it.
LEMMA StepStream ==
    ASSUME ConnectionInv, Next
    PROVE  StreamInv' /\ LoopInv'
  <1> DEFINE Goal == StreamInv' /\ LoopInv'
  <1>1. StreamInv /\ LoopInv /\ StreamTypes /\ TableTypes
    BY DEF ConnectionInv, StreamInv
  <1>2. \A d \in Directions : at[To(d)] = "read" => open[To(d)]
    BY <1>1, Ends DEF LoopInv
  <1>3. ASSUME NEW d \in Directions, Write(d) PROVE Goal
    <2>1. LoopInv'
      BY <1>1, <1>3, CellLoop DEF Write
    <2> QED
      BY <1>1, <1>3, <2>1, WriteStream
  <1>4. ASSUME NEW d \in Directions, ReadLength(d) \/ ReadBody(d) \/ ReadSize(d) \/ ReadData(d)
        PROVE  Goal
    <2>1. open[To(d)]
      BY <1>2, <1>4 DEF ReadLength, ReadBody, ReadSize, ReadData, Ready
    <2>2. StreamInv'
      BY <1>1, <1>4, <2>1, ReadLengthStream, ReadCellStream
    <2>3. /\ at[To(d)] = "read" /\ out' = out /\ UNCHANGED <<at, open>>
          /\ \E r : reading' = [reading EXCEPT ![d] = r]
      BY <1>4 DEF ReadLength, ReadBody, ReadSize, ReadData, Ready, Take
    <2>4. LoopInv'
      BY <1>1, <2>3, CellLoop
    <2> QED
      BY <2>2, <2>4
  <1>5. ASSUME NEW s \in Agents, Close(s) PROVE Goal
    BY <1>1, <1>5, CloseStream, CloseLoop
  <1>6. ASSUME NEW d \in Directions, GivesUp(d) PROVE Goal
    BY <1>5, <1>6, Ends DEF GivesUp
  <1>7. CASE Leave("employer") \/ Leave("employee")
    BY <1>5, <1>7, Ways DEF Leave
  <1>8. CASE EmployerSelects \/ EmployerLoops
    <2>1. /\ UNCHANGED <<stream, reading, open, sent, received>> /\ open["employer"]
          /\ at["employer"] # "read"
          /\ at["employer"] = "send" => out["down"] = <<>>
      BY <1>8 DEF EmployerSelects, EmployerLoops, Sending
    <2>2. StreamInv'
      BY <1>1, <2>1, SameStream
    <2>3. PICK place \in {"select", "read", "send"} : Go("employer", place)
      BY <1>8 DEF EmployerSelects, EmployerLoops
    <2>4. LoopInv'
      BY <1>1, <2>1, <2>3, GoLoop, Ways DEF LoopSteps, stream
    <2> QED
      BY <2>2, <2>4
  <1>9. CASE recv_json_peek \/ EmployeeLoops
    <2>1. /\ UNCHANGED <<stream, reading, open, sent, received>> /\ open["employee"]
          /\ at["employee"] # "read"
          /\ at["employee"] = "sending" => out["up"] = <<>>
      BY <1>9 DEF recv_json_peek, EmployeeLoops
    <2>2. StreamInv'
      BY <1>1, <2>1, SameStream
    <2>3. PICK place \in {"select", "read", "result"} : Go("employee", place)
      BY <1>9 DEF recv_json_peek, EmployeeLoops
    <2>4. LoopInv'
      BY <1>1, <2>1, <2>3, GoLoop, Ways DEF LoopSteps, stream
    <2> QED
      BY <2>2, <2>4
  <1>10. CASE receive_result_from_employee
    <2>1. /\ Finish("up") /\ open["employer"] /\ Go("employer", "send")
      BY <1>10 DEF receive_result_from_employee
    <2>2. StreamInv'
      BY <1>1, <2>1, Ways, FinishStream
    <2>3. /\ UNCHANGED <<out, open>> /\ reading' = [reading EXCEPT !["up"] = NotReading]
          /\ at["employer"] = "read"
      BY <2>1, Ways DEF Finish, stream
    <2>4. reading'["up"] = NotReading
      BY <1>1, <2>3, Ways DEF StreamTypes
    <2>5. LoopInv'
      BY <1>1, <2>1, <2>3, <2>4, GoLoop, Ways DEF LoopSteps
    <2> QED
      BY <2>2, <2>5
  <1>11. CASE receive_task_from_employer
    <2>1. Finish("down") /\ open["employee"]
      BY <1>11 DEF receive_task_from_employer
    <2>2. PICK place \in {"refused", "result"} : Go("employee", place)
      BY <1>11 DEF receive_task_from_employer
    <2>3. StreamInv'
      BY <1>1, <2>1, Ways, FinishStream
    <2>4. /\ UNCHANGED <<out, open>> /\ reading' = [reading EXCEPT !["down"] = NotReading]
          /\ at["employee"] = "read"
      BY <2>1, Ways DEF Finish, stream
    <2>5. reading'["down"] = NotReading
      BY <1>1, <2>4, Ways DEF StreamTypes
    <2>6. LoopInv'
      BY <1>1, <2>1, <2>2, <2>4, <2>5, GoLoop, Ways DEF LoopSteps
    <2> QED
      BY <2>3, <2>6
  <1>12. CASE send_initial_config \/ send_file_to_employee
    <2>1. Sending /\ at' = at
      BY <1>12 DEF send_initial_config, send_file_to_employee
    <2>2. PICK n \in Nat, blocks \in Sizes : StartSending("down", Message(n, blocks))
      BY <1>1, <1>12 DEF send_initial_config, send_file_to_employee, TableTypes, Config
    <2>3. Message(n, blocks) \in MessageSet
      BY MessageIs, BoundsAssumption
    <2>4. StreamInv'
      BY <1>1, <2>1, <2>2, <2>3, Ways, SendStream DEF Sending
    <2>5. LoopInv'
      BY <1>1, <2>1, <2>2, Ways DEF LoopInv, StreamTypes, Sending, StartSending
    <2> QED
      BY <2>4, <2>5
  <1>13. ASSUME NEW n \in 1 .. MaxChunks, send_result_to_employer(n) PROVE Goal
    <2>1. /\ StartSending("up", Message(n, ResultBlocks)) /\ open["employee"]
          /\ at["employee"] = "result" /\ Go("employee", "sending")
      BY <1>13 DEF send_result_to_employer
    <2>2. Message(n, ResultBlocks) \in MessageSet
      BY MessageIs, BoundsAssumption
    <2>3. out["up"] = <<>>
      BY <1>1, <2>1 DEF LoopInv
    <2>4. StreamInv'
      BY <1>1, <2>1, <2>2, <2>3, Ways, SendStream
    <2>5. LoopInv'
      BY <1>1, <2>1, Ways DEF LoopInv, StreamTypes, StartSending, Go, LoopSteps
    <2> QED
      BY <2>4, <2>5
  <1>14. ASSUME TimesOut \/ \E n \in 1 .. MaxChunks : Result(n) PROVE Goal
    <2>1. UNCHANGED <<stream, reading, open, sent, received>> /\ at' = at
      BY <1>14 DEF TimesOut, Result
    <2>2. StreamInv'
      BY <1>1, <2>1, SameStream
    <2>3. LoopInv'
      BY <1>1, <2>1 DEF LoopInv, stream
    <2> QED
      BY <2>2, <2>3
  <1> QED
    BY <1>3, <1>4, <1>6, <1>7, <1>8, <1>9, <1>10, <1>11, <1>12, <1>13, <1>14 DEF Next

LEMMA InitConnection == Init => ConnectionInv
  <1> SUFFICES ASSUME Init PROVE ConnectionInv
    OBVIOUS
  <1>1. LoopInv
    <2>1. \A s \in Agents : at[s] = "select" /\ open[s] = TRUE
      BY DEF Init, Agents
    <2>2. at \in [Agents -> LoopSteps]
      BY DEF Init, Agents, LoopSteps
    <2>3. \A d \in Directions : out[d] = <<>> /\ reading[d] = NotReading
      BY DEF Init
    <2> QED
      BY <2>1, <2>2, <2>3, Ways DEF LoopInv
  <1>2. TableTypes
    <2>1. MaxActive \in Nat /\ MaxTimeouts \in Nat /\ MaxChunks \in Nat
      BY BoundsAssumption
    <2>2. /\ configured = FALSE /\ active_tasks = 0 /\ timeouts = 0 /\ next = 1
          /\ results = {}
      BY DEF Init
    <2>3. 0 \in 0 .. MaxActive /\ 0 \in 0 .. MaxTimeouts /\ 1 \in 1 .. MaxChunks + 1
      BY <2>1
    <2>4. configured \in BOOLEAN /\ results \subseteq 1 .. MaxChunks
      BY <2>2
    <2> QED
      BY <2>2, <2>3, <2>4 DEF TableTypes
  <1> QED
    BY <1>1, <1>2, InitStream DEF ConnectionInv

LEMMA StepConnection == ConnectionInv /\ [Next]_vars => ConnectionInv'
  <1> SUFFICES ASSUME ConnectionInv, [Next]_vars PROVE ConnectionInv'
    OBVIOUS
  <1>1. CASE Next
    BY <1>1, StepStream, TableStep DEF ConnectionInv
  <1>2. CASE UNCHANGED vars
    <2>1. StreamInv'
      BY <1>2, SameStream DEF ConnectionInv, vars
    <2>2. LoopInv' /\ TableTypes'
      BY <1>2 DEF ConnectionInv, LoopInv, TableTypes, vars, stream, tables
    <2> QED
      BY <2>1, <2>2 DEF ConnectionInv
  <1> QED
    BY <1>1, <1>2

LEMMA ConnectionAlways == Spec => []ConnectionInv
  BY InitConnection, StepConnection, PTL DEF Spec

\* Type correctness (recv_all and the loops of both agents): the buffers hold what
\* they can, a receiver never takes more of a file than its size, and the tables
\* keep their bounds.
THEOREM TypeCorrect == Spec => []TypeOK
  <1>1. ConnectionInv => TypeOK
    <2> SUFFICES ASSUME ConnectionInv PROVE TypeOK
      OBVIOUS
    <2>1. ASSUME NEW d \in Directions
          PROVE  /\ Len(wire[d]) <= Cap(d)
                 /\ reading[d].part \in {"length", "body", "size", "data"}
                 /\ Len(reading[d].data) <= reading[d].size
      BY DEF ConnectionInv, StreamInv, StreamTypes, DirOK, ReadingType, ReadingSet
    <2>2. open \in [{"employer", "employee"} -> BOOLEAN]
      BY DEF ConnectionInv, StreamInv, StreamTypes, Agents
    <2> QED
      BY <2>1, <2>2 DEF TypeOK, ConnectionInv, LoopInv, TableTypes
  <1> QED
    BY <1>1, ConnectionAlways, PTL

-----------------------------------------------------------------------------
\* The channel that is implemented.

MessageChoice == {Message(n, blocks) : n \in 0 .. MaxChunks, blocks \in Sizes \cup {ResultBlocks}}

LEMMA ChannelStep ==
    ASSUME ConnectionInv, Next
    PROVE  [Abstract!ChannelNext]_(Abstract!channelVars)
  <1> DEFINE Goal == [Abstract!ChannelNext]_(Abstract!channelVars)
  <1>1. StreamInv /\ LoopInv /\ TableTypes
    BY DEF ConnectionInv
  <1>2. ASSUME UNCHANGED <<sent, received, open>> PROVE Goal
    BY <1>2 DEF Abstract!channelVars
  <1>3. ASSUME NEW d \in Directions, NEW n \in 0 .. MaxChunks,
               NEW blocks \in Sizes \cup {ResultBlocks},
               StartSending(d, Message(n, blocks)), open[From(d)]
        PROVE  Goal
    <2>1. Abstract!Send(d, Message(n, blocks))
      BY <1>3 DEF StartSending, Abstract!Send
    <2>2. Message(n, blocks) \in MessageChoice
      BY DEF MessageChoice
    <2> QED
      BY <2>1, <2>2 DEF Abstract!ChannelNext, MessageChoice
  <1>4. ASSUME NEW d \in Directions, Finish(d) PROVE Goal
    <2>1. open[To(d)]
      BY <1>1, <1>4, Ends DEF LoopInv, Finish
    <2>2. Delivers(d) /\ open' = open
      BY <1>1, <1>4, <2>1, FinishStream DEF Finish
    <2>3. Abstract!Deliver(d)
      BY <2>1, <2>2 DEF Delivers, Abstract!Deliver
    <2> QED
      BY <2>3 DEF Abstract!ChannelNext
  <1>5. ASSUME NEW s \in Agents, open[s], Close(s) PROVE Goal
    <2>1. PICK d \in Directions : From(d) = s
      BY Ways
    <2>2. Abstract!Close(d)
      BY <1>5, <2>1 DEF Close, Abstract!Close
    <2> QED
      BY <2>2 DEF Abstract!ChannelNext
  <1>6. ASSUME NEW d \in Directions,
               Write(d) \/ ReadLength(d) \/ ReadBody(d) \/ ReadSize(d) \/ ReadData(d)
        PROVE  Goal
    BY <1>2, <1>6 DEF Write, ReadLength, ReadBody, ReadSize, ReadData, Take
  <1>7. ASSUME NEW d \in Directions, GivesUp(d) PROVE Goal
    BY <1>5, <1>7, Ends DEF GivesUp
  <1>8. CASE Leave("employer") \/ Leave("employee")
    BY <1>5, <1>8, Ways DEF Leave
  <1>9. CASE EmployerSelects \/ EmployerLoops \/ recv_json_peek \/ EmployeeLoops \/ TimesOut
    BY <1>2, <1>9 DEF EmployerSelects, EmployerLoops, recv_json_peek, EmployeeLoops, TimesOut
  <1>10. CASE receive_result_from_employee \/ receive_task_from_employer
    BY <1>4, <1>10, Ways DEF receive_result_from_employee, receive_task_from_employer
  <1>11. CASE send_initial_config \/ send_file_to_employee
    <2>1. PICK n \in 0 .. MaxChunks, blocks \in Sizes : StartSending("down", Message(n, blocks))
      BY <1>1, <1>11, BoundsAssumption
         DEF send_initial_config, send_file_to_employee, TableTypes, Config
    <2>2. open["employer"]
      BY <1>11 DEF send_initial_config, send_file_to_employee, Sending
    <2> QED
      BY <1>3, <2>1, <2>2, Ways
  <1>12. ASSUME NEW n \in 1 .. MaxChunks, send_result_to_employer(n) PROVE Goal
    <2>1. StartSending("up", Message(n, ResultBlocks)) /\ open["employee"]
      BY <1>12 DEF send_result_to_employer
    <2>2. n \in 0 .. MaxChunks
      BY BoundsAssumption
    <2> QED
      BY <1>3, <2>1, <2>2, Ways
  <1>13. ASSUME NEW n \in 1 .. MaxChunks, Result(n) PROVE Goal
    BY <1>2, <1>13 DEF Result
  <1> QED
    BY <1>6, <1>7, <1>8, <1>9, <1>10, <1>11, <1>12, <1>13 DEF Next

\* Framing (send_json, recv_json, and the loops over the blocks of a file): however the
\* cells arrive, an agent is handed the messages that were sent, whole, in order, each
\* once, until a side closes.
THEOREM MessagesArriveWhole == Spec => ImplementsChannel
  <1>1. Init => Abstract!ChannelInit
    <2> SUFFICES ASSUME Init PROVE Abstract!ChannelInit
      OBVIOUS
    <2>1. \A s \in Agents : open[s]
      BY DEF Init, Agents
    <2> QED
      BY <2>1, Ends DEF Init, Abstract!ChannelInit
  <1>2. ConnectionInv /\ [Next]_vars => [Abstract!ChannelNext]_(Abstract!channelVars)
    <2>1. UNCHANGED vars => UNCHANGED Abstract!channelVars
      BY DEF vars, Abstract!channelVars
    <2> QED
      BY <2>1, ChannelStep
  <1> QED
    BY <1>1, <1>2, ConnectionAlways, PTL DEF Spec, ImplementsChannel, Abstract!ChannelSpec

-----------------------------------------------------------------------------
\* What is under way to the employer, in cells and in results.

Handed == Len(received["down"]) - 1
UpCells == Len(wire["up"]) + Len(out["up"]) + Consumed(reading["up"])

\* Chunks are numbered in the order they are sent, after the configuration.
ChunkInv ==
    /\ \A k \in 1 .. Len(sent["down"]) : sent["down"][k].name = k - 1
    /\ Len(sent["down"]) = IF configured THEN next ELSE 0
    /\ ~configured => next = 1

\* Each result that was sent is another chunk's, and the chunk was handed over.
ResultInv ==
    /\ results \subseteq 1 .. Handed
    /\ \A i \in 1 .. Len(sent["up"]) :
          /\ sent["up"][i].name \in 1 .. Handed /\ sent["up"][i].name \notin results
          /\ Len(sent["up"][i].data) = ResultBlocks
    /\ \A i, k \in 1 .. Len(sent["up"]) : sent["up"][i].name = sent["up"][k].name => i = k

PaceInv == (next - 1) - Len(received["up"]) <= active_tasks + timeouts

CellInv ==
    open["employer"] /\ open["employee"]
        => UpCells = ResultCells * (Len(sent["up"]) - Len(received["up"]))

CountInv == ChunkInv /\ ResultInv /\ PaceInv /\ CellInv

LEMMA Lengths ==
    ASSUME StreamInv, NEW d \in Directions
    PROVE  /\ Len(wire[d]) \in Nat /\ Len(out[d]) \in Nat /\ Consumed(reading[d]) \in Nat
           /\ Len(sent[d]) \in Nat /\ Len(received[d]) \in Nat
           /\ Len(received[d]) <= Len(sent[d])
  <1>1. /\ wire[d] \in Seq(CellSet) /\ out[d] \in Seq(CellSet) /\ reading[d] \in ReadingSet
        /\ sent[d] \in Seq(MessageSet) /\ received[d] \in Seq(MessageSet)
        /\ Len(received[d]) <= Len(sent[d])
    BY DEF StreamInv, StreamTypes, DirOK, Prefix
  <1> QED
    BY <1>1, LenProperties, ConsumedIs

LEMMA SentIs ==
    ASSUME StreamInv, NEW d \in Directions, NEW m \in MessageSet, StartSending(d, m)
    PROVE  /\ Len(sent'[d]) = Len(sent[d]) + 1 /\ sent'[d][Len(sent[d]) + 1] = m
           /\ \A i \in 1 .. Len(sent[d]) : sent'[d][i] = sent[d][i]
           /\ Len(sent[d]) \in Nat
           /\ \A b \in Directions : b # d => sent'[b] = sent[b] /\ out'[b] = out[b]
           /\ Len(out'[d]) = Size(m)
           /\ UNCHANGED <<wire, reading, open, received>>
  <1> DEFINE a == sent[d]
  <1>1. a \in Seq(MessageSet)
    BY DEF StreamInv, StreamTypes
  <1>2. sent'[d] = Append(a, m) /\ out'[d] = Cells(m)
    BY DEF StartSending, StreamInv, StreamTypes
  <1>3. /\ Len(Append(a, m)) = Len(a) + 1 /\ Append(a, m)[Len(a) + 1] = m
        /\ \A i \in 1 .. Len(a) : Append(a, m)[i] = a[i]
        /\ Len(a) \in Nat
    BY <1>1, AppendProperties, LenProperties
  <1>4. /\ \A b \in Directions : b # d => sent'[b] = sent[b] /\ out'[b] = out[b]
        /\ UNCHANGED <<wire, reading, open, received>>
    BY DEF StartSending, StreamInv, StreamTypes
  <1> QED
    BY <1>2, <1>3, <1>4, CellsAre

LEMMA DeliveredIs ==
    ASSUME StreamInv, NEW d \in Directions, Delivers(d)
    PROVE  /\ Len(received'[d]) = Len(received[d]) + 1 /\ Len(received[d]) \in Nat
           /\ \A b \in Directions : b # d => received'[b] = received[b]
           /\ sent' = sent
  <1> DEFINE m == sent[d][Len(received[d]) + 1]
             v == received[d]
  <1>1. v \in Seq(MessageSet) /\ Len(v) \in Nat
    BY LenProperties DEF StreamInv, StreamTypes
  <1>2. m \in MessageSet
    <2>1. Len(v) + 1 \in 1 .. Len(sent[d]) /\ sent[d] \in Seq(MessageSet)
      <3>1. Len(sent[d]) \in Nat /\ Len(v) < Len(sent[d])
        BY Lengths DEF Delivers
      <3> QED
        BY <1>1, <3>1 DEF StreamInv, StreamTypes
    <2> QED
      BY <2>1, ElementOfSeq
  <1>3. received' = [received EXCEPT ![d] = Append(v, m)] /\ sent' = sent
    BY DEF Delivers
  <1> HIDE DEF m
  <1>4. received'[d] = Append(v, m)
    BY <1>3 DEF StreamInv, StreamTypes
  <1>5. Len(Append(v, m)) = Len(v) + 1
    BY <1>1, <1>2, AppendProperties
  <1>6. \A b \in Directions : b # d => received'[b] = received[b]
    BY <1>3 DEF StreamInv, StreamTypes
  <1> QED
    BY <1>1, <1>3, <1>4, <1>5, <1>6

\* Steps in the middle of a message, and steps that move a loop only.
Quiet == UNCHANGED <<sent, received, tables>>
UpKept == open'["employer"] /\ open'["employee"]
              => open["employer"] /\ open["employee"] /\ UpCells' = UpCells

LEMMA UpCellsMove ==
    ASSUME NEW n \in Nat,
           Len(wire["up"]) \in Nat, Len(out["up"]) \in Nat, Consumed(reading["up"]) \in Nat,
           \/ /\ Len(wire'["up"]) = Len(wire["up"]) + n /\ Len(out'["up"]) = Len(out["up"]) - n
              /\ reading'["up"] = reading["up"]
           \/ /\ Len(wire'["up"]) = Len(wire["up"]) - n /\ out'["up"] = out["up"]
              /\ Consumed(reading'["up"]) = Consumed(reading["up"]) + n
    PROVE  UpCells' = UpCells
  <1> DEFINE w == Len(wire["up"])
             o == Len(out["up"])
             c == Consumed(reading["up"])
             w2 == Len(wire'["up"])
             o2 == Len(out'["up"])
             c2 == Consumed(reading'["up"])
  <1>1. \/ w2 = w + n /\ o2 = o - n /\ c2 = c
        \/ w2 = w - n /\ o2 = o /\ c2 = c + n
    OBVIOUS
  <1>2. w \in Nat /\ o \in Nat /\ c \in Nat
    OBVIOUS
  <1>3. UpCells = w + o + c /\ UpCells' = w2 + o2 + c2
    BY DEF UpCells
  <1> HIDE DEF w, o, c, w2, o2, c2
  <1> QED
    BY <1>1, <1>2, <1>3

LEMMA QuietCount ==
    ASSUME CountInv, Quiet, UpKept
    PROVE  CountInv'
  BY DEF CountInv, ChunkInv, ResultInv, PaceInv, CellInv, Handed, Quiet, UpKept, tables

LEMMA QuietStep ==
    ASSUME ConnectionInv,
           \/ \E d \in Directions : \/ Write(d) \/ ReadLength(d) \/ ReadBody(d) \/ ReadSize(d)
                                    \/ ReadData(d) \/ GivesUp(d)
           \/ EmployerSelects \/ EmployerLoops \/ recv_json_peek \/ EmployeeLoops
           \/ Leave("employer") \/ Leave("employee")
    PROVE  Quiet /\ UpKept
  <1>1. StreamInv /\ LoopInv /\ StreamTypes
    BY DEF ConnectionInv, StreamInv
  <1>2. ASSUME NEW d \in Directions, Write(d) PROVE Quiet /\ UpKept
    <2>1. Quiet /\ reading' = reading /\ open' = open
      BY <1>2 DEF Write, Quiet
    <2>2. CASE d = "down"
      <3>1. wire'["up"] = wire["up"] /\ out'["up"] = out["up"]
        BY <1>1, <1>2, <2>2, Ways DEF Write, StreamTypes
      <3> QED
        BY <2>1, <3>1 DEF UpKept, UpCells
    <2>3. CASE d = "up"
      <3> DEFINE q == wire["up"]
                 p == out["up"]
      <3>1. /\ q \in Seq(CellSet) /\ p \in Seq(CellSet) /\ p # <<>>
            /\ wire'["up"] = Append(q, Head(p)) /\ out'["up"] = Tail(p)
        BY <1>1, <1>2, <2>3, Ways DEF Write, StreamTypes
      <3> HIDE DEF p, q
      <3>2. Head(p) \in CellSet /\ Len(Tail(p)) = Len(p) - 1
        BY <3>1, HeadTailProperties
      <3>3. Len(Append(q, Head(p))) = Len(q) + 1
        BY <3>1, <3>2, AppendProperties
      <3>4. Len(q) \in Nat /\ Len(p) \in Nat /\ Consumed(reading["up"]) \in Nat
        BY <1>1, Ways, Lengths DEF p, q
      <3>5. Len(wire'["up"]) = Len(q) + 1 /\ Len(out'["up"]) = Len(p) - 1
        BY <3>1, <3>2, <3>3
      <3>6. UpCells' = UpCells
        BY <2>1, <3>4, <3>5, UpCellsMove DEF p, q
      <3> QED
        BY <2>1, <3>6 DEF UpKept
    <2> QED
      BY <2>2, <2>3, Ways
  <1>3. ASSUME NEW d \in Directions, NEW n, Reads(d, n) PROVE Quiet /\ UpKept
    <2>1. PICK r2 \in ReadingSet : Take(d, n, r2) /\ Consumed(r2) = Consumed(reading[d]) + n
      BY <1>3 DEF Reads
    <2>2. Quiet /\ out' = out /\ open' = open
      BY <2>1 DEF Take, Quiet
    <2>3. CASE d = "down"
      <3>1. wire'["up"] = wire["up"] /\ reading'["up"] = reading["up"]
        BY <1>1, <2>1, <2>3, Ways DEF Take, StreamTypes
      <3> QED
        BY <2>2, <3>1 DEF UpKept, UpCells
    <2>4. CASE d = "up"
      <3> DEFINE q == wire["up"]
                 b == SubSeq(q, n + 1, Len(q))
      <3>1. /\ q \in Seq(CellSet) /\ n \in Nat /\ n <= Len(q)
            /\ wire'["up"] = b /\ reading'["up"] = r2
        BY <1>1, <1>3, <2>1, <2>4, Ways DEF Take, StreamTypes, Reads
      <3>2. Len(b) = Len(q) - n
        BY <3>1, TakenCells, EmptySeq
      <3> HIDE DEF b
      <3>3. Len(q) \in Nat /\ Len(out["up"]) \in Nat /\ Consumed(reading["up"]) \in Nat
        BY <1>1, Ways, Lengths
      <3>4. /\ Len(wire'["up"]) = Len(q) - n
            /\ Consumed(reading'["up"]) = Consumed(reading["up"]) + n
        BY <2>1, <2>4, <3>1, <3>2
      <3>5. UpCells' = UpCells
        BY <2>2, <3>1, <3>3, <3>4, UpCellsMove
      <3> QED
        BY <2>2, <3>5 DEF UpKept
    <2> QED
      BY <2>3, <2>4, Ways
  <1>4. ASSUME NEW d \in Directions, ReadLength(d) \/ ReadBody(d) \/ ReadSize(d) \/ ReadData(d)
        PROVE  Quiet /\ UpKept
    <2>1. open[To(d)]
      BY <1>1, <1>4, Ends DEF ReadLength, ReadBody, ReadSize, ReadData, Ready, LoopInv
    <2>2. Reads(d, 1) \/ Reads(d, 2)
      BY <1>1, <1>4, <2>1, ReadLengthStream, ReadCellStream
    <2> QED
      BY <1>3, <2>2
  <1>5. ASSUME NEW s \in Agents, Close(s) PROVE Quiet /\ UpKept
    <2>1. open'[s] = FALSE
      BY <1>1, <1>5 DEF Close, StreamTypes
    <2> QED
      BY <1>5, <2>1, Ways DEF Close, Quiet, UpKept
  <1>6. ASSUME NEW d \in Directions, GivesUp(d) PROVE Quiet /\ UpKept
    BY <1>5, <1>6, Ends DEF GivesUp
  <1>7. CASE Leave("employer") \/ Leave("employee")
    BY <1>5, <1>7, Ways DEF Leave
  <1>8. CASE EmployerSelects \/ EmployerLoops \/ recv_json_peek \/ EmployeeLoops
    BY <1>8 DEF EmployerSelects, EmployerLoops, recv_json_peek, EmployeeLoops, Quiet, UpKept,
                UpCells, stream
  <1> QED
    BY <1>2, <1>4, <1>6, <1>7, <1>8

LEMMA Product ==
    ASSUME NEW r \in Nat, NEW x \in Int
    PROVE  r * (x + 1) = r * x + r /\ r * (x - 1) = r * x - r
  OBVIOUS

LEMMA MoreThan ==
    ASSUME NEW r \in Nat, NEW x \in Int, NEW y \in Int, r * x > r * y
    PROVE  x > y
  <1>1. ASSUME x <= y PROVE FALSE
    <2>1. y - x \in Nat
      BY <1>1
    <2>2. r * (y - x) >= 0
      BY <2>1
    <2>3. r * (y - x) = r * y - r * x
      OBVIOUS
    <2>4. r * y \in Int /\ r * x \in Int
      OBVIOUS
    <2> QED
      BY <2>2, <2>3, <2>4
  <1> QED
    BY <1>1

\* The employer's count of what it waits for: a chunk more, one timed out, a result.
LEMMA PaceCount ==
    ASSUME NEW n \in Nat, NEW r \in Nat, NEW a \in Nat, NEW t \in Nat, (n - 1) - r <= a + t,
           NEW n2, NEW r2, NEW a2, NEW t2,
           \/ n2 = n + 1 /\ a2 = a + 1 /\ r2 = r /\ t2 = t
           \/ n2 = n /\ a2 = a - 1 /\ r2 = r /\ t2 = t + 1
           \/ n2 = n /\ a2 \in {a, IF a > 0 THEN a - 1 ELSE 0} /\ r2 = r + 1 /\ t2 = t
    PROVE  (n2 - 1) - r2 <= a2 + t2
  OBVIOUS

LEMMA PaceStep ==
    ASSUME PaceInv, TableTypes, Len(received["up"]) \in Nat,
           \/ /\ next' = next + 1 /\ active_tasks' = active_tasks + 1
              /\ received' = received /\ timeouts' = timeouts
           \/ /\ next' = next /\ active_tasks' = active_tasks - 1
              /\ received' = received /\ timeouts' = timeouts + 1
           \/ /\ next' = next
              /\ active_tasks' \in {active_tasks, IF active_tasks > 0 THEN active_tasks - 1 ELSE 0}
              /\ Len(received'["up"]) = Len(received["up"]) + 1 /\ timeouts' = timeouts
    PROVE  PaceInv'
  <1> DEFINE r == Len(received["up"])
             r2 == Len(received'["up"])
  <1>1. /\ next \in Nat /\ timeouts \in Nat /\ active_tasks \in Nat /\ r \in Nat
        /\ (next - 1) - r <= active_tasks + timeouts
    <2>1. MaxActive \in Nat /\ MaxTimeouts \in Nat /\ MaxChunks \in Nat
      BY BoundsAssumption
    <2>2. next \in Nat /\ timeouts \in Nat /\ active_tasks \in Nat
      BY <2>1 DEF TableTypes
    <2> QED
      BY <2>2 DEF PaceInv
  <1>2. \/ next' = next + 1 /\ active_tasks' = active_tasks + 1 /\ r2 = r /\ timeouts' = timeouts
        \/ next' = next /\ active_tasks' = active_tasks - 1 /\ r2 = r /\ timeouts' = timeouts + 1
        \/ /\ next' = next
           /\ active_tasks' \in {active_tasks, IF active_tasks > 0 THEN active_tasks - 1 ELSE 0}
           /\ r2 = r + 1 /\ timeouts' = timeouts
    OBVIOUS
  <1> HIDE DEF r, r2
  <1>3. (next' - 1) - r2 <= active_tasks' + timeouts'
    BY <1>1, <1>2, PaceCount
  <1> QED
    BY <1>3 DEF PaceInv, r2

LEMMA ConfigCount ==
    ASSUME ConnectionInv, CountInv, send_initial_config
    PROVE  CountInv'
  <1>1. PICK blocks \in Sizes : StartSending("down", Message(Config, blocks))
    BY DEF send_initial_config
  <1> DEFINE m == Message(Config, blocks)
             a == sent["down"]
  <1>2. m \in MessageSet /\ m.name = 0
    BY MessageIs, BoundsAssumption DEF Config
  <1> HIDE DEF m
  <1>3. /\ Len(sent'["down"]) = Len(a) + 1 /\ sent'["down"][Len(a) + 1] = m
        /\ sent'["up"] = sent["up"] /\ out'["up"] = out["up"]
        /\ UNCHANGED <<wire, reading, open, received>>
    BY <1>1, <1>2, Ways, SentIs DEF ConnectionInv, m
  <1>4. Len(a) = 0 /\ next = 1 /\ configured' = TRUE
    BY DEF CountInv, ChunkInv, send_initial_config
  <1>5. UNCHANGED <<active_tasks, timeouts, next, results>>
    BY DEF send_initial_config
  <1>6. ChunkInv'
    <2>1. Len(sent'["down"]) = 1 /\ sent'["down"][1].name = 0
      BY <1>2, <1>3, <1>4
    <2>2. \A k \in 1 .. 1 : sent'["down"][k].name = k - 1
      BY <2>1
    <2> QED
      BY <1>4, <1>5, <2>1, <2>2 DEF ChunkInv
  <1>7. ResultInv' /\ PaceInv' /\ CellInv'
    BY <1>3, <1>5 DEF CountInv, ResultInv, PaceInv, CellInv, Handed, UpCells
  <1> QED
    BY <1>6, <1>7 DEF CountInv

LEMMA ChunkCount ==
    ASSUME ConnectionInv, CountInv, send_file_to_employee
    PROVE  CountInv'
  <1>1. PICK blocks \in Sizes : StartSending("down", Message(next, blocks))
    BY DEF send_file_to_employee
  <1> DEFINE m == Message(next, blocks)
             a == sent["down"]
  <1>2. /\ next \in Nat /\ timeouts \in Nat /\ active_tasks \in Nat
        /\ Len(received["up"]) \in Nat
    BY BoundsAssumption, Ways, Lengths DEF ConnectionInv, TableTypes
  <1>3. m \in MessageSet /\ m.name = next
    BY <1>2, MessageIs, BoundsAssumption
  <1> HIDE DEF m
  <1>4. /\ Len(sent'["down"]) = Len(a) + 1 /\ sent'["down"][Len(a) + 1] = m
        /\ \A i \in 1 .. Len(a) : sent'["down"][i] = a[i]
        /\ sent'["up"] = sent["up"] /\ out'["up"] = out["up"]
        /\ UNCHANGED <<wire, reading, open, received>>
    BY <1>1, <1>3, Ways, SentIs DEF ConnectionInv, m
  <1>5. /\ configured /\ Len(a) = next
        /\ \A k \in 1 .. Len(a) : a[k].name = k - 1
    BY DEF CountInv, ChunkInv, send_file_to_employee
  <1>6. /\ next' = next + 1 /\ active_tasks' = active_tasks + 1
        /\ UNCHANGED <<configured, timeouts, results>>
    BY DEF send_file_to_employee
  <1>7. ChunkInv'
    <2>1. \A k \in 1 .. next + 1 : k \in 1 .. next \/ k = next + 1
      BY <1>2
    <2>2. (next + 1) - 1 = next
      BY <1>2
    <2>3. \A k \in 1 .. next + 1 : sent'["down"][k].name = k - 1
      BY <1>3, <1>4, <1>5, <2>1, <2>2
    <2>4. Len(sent'["down"]) = next + 1
      BY <1>4, <1>5
    <2> QED
      BY <1>5, <1>6, <2>3, <2>4 DEF ChunkInv
  <1>8. ResultInv' /\ CellInv'
    BY <1>4, <1>6 DEF CountInv, ResultInv, CellInv, Handed, UpCells
  <1>9. PaceInv'
    BY <1>2, <1>4, <1>6, PaceStep DEF CountInv, ConnectionInv
  <1> QED
    BY <1>7, <1>8, <1>9 DEF CountInv

LEMMA TimesOutCount ==
    ASSUME ConnectionInv, CountInv, TimesOut
    PROVE  CountInv'
  <1>1. /\ next \in Nat /\ timeouts \in Nat /\ active_tasks \in Nat
        /\ Len(received["up"]) \in Nat
    BY BoundsAssumption, Ways, Lengths DEF ConnectionInv, TableTypes
  <1>2. /\ timeouts' = timeouts + 1 /\ active_tasks' = active_tasks - 1
        /\ UNCHANGED <<stream, reading, open, configured, next, results, sent, received>>
    BY DEF TimesOut
  <1>3. PaceInv'
    BY <1>1, <1>2, PaceStep DEF CountInv, ConnectionInv
  <1>4. ChunkInv' /\ ResultInv' /\ CellInv'
    BY <1>2 DEF CountInv, ChunkInv, ResultInv, CellInv, Handed, UpCells, stream
  <1> QED
    BY <1>3, <1>4 DEF CountInv

LEMMA TaskCount ==
    ASSUME ConnectionInv, CountInv, receive_task_from_employer
    PROVE  CountInv'
  <1>1. Finish("down") /\ open["employee"] /\ UNCHANGED tables
    BY DEF receive_task_from_employer
  <1>2. Delivers("down")
    BY <1>1, Ways, FinishStream DEF ConnectionInv
  <1>3. /\ Len(received'["down"]) = Len(received["down"]) + 1 /\ Len(received["down"]) \in Nat
        /\ received'["up"] = received["up"] /\ sent' = sent
    BY <1>2, Ways, DeliveredIs DEF ConnectionInv
  <1>4. UNCHANGED <<stream, open>> /\ reading'["up"] = reading["up"]
    BY <1>1, Ways DEF Finish, ConnectionInv, StreamInv, StreamTypes
  <1>5. ChunkInv' /\ PaceInv' /\ CellInv'
    BY <1>1, <1>3, <1>4 DEF CountInv, ChunkInv, PaceInv, CellInv, UpCells, tables, stream
  <1>6. ResultInv'
    <2>1. 1 .. Handed \subseteq 1 .. Handed'
      BY <1>3 DEF Handed
    <2> QED
      BY <1>1, <1>3, <2>1 DEF CountInv, ResultInv, tables
  <1> QED
    BY <1>5, <1>6 DEF CountInv

LEMMA WorkedCount ==
    ASSUME ConnectionInv, CountInv, NEW n \in 1 .. MaxChunks, Result(n)
    PROVE  CountInv'
  <1>1. /\ UNCHANGED <<stream, reading, open, configured, active_tasks, timeouts, next,
                       sent, received>>
        /\ results' = results \cup {n}
        /\ \A i \in DOMAIN sent["up"] : sent["up"][i].name # n
    BY DEF Result
  <1>2. PICK i \in DOMAIN received["down"] : received["down"][i].name = n
    BY DEF Result
  <1>3. /\ Len(received["down"]) \in Nat /\ Len(sent["down"]) \in Nat
        /\ DOMAIN received["down"] = 1 .. Len(received["down"])
        /\ DOMAIN sent["up"] = 1 .. Len(sent["up"])
        /\ Prefix(received["down"], sent["down"])
    BY Ways, LenProperties DEF ConnectionInv, StreamInv, StreamTypes, DirOK
  <1>4. n \in 1 .. Handed
    <2>1. i \in 1 .. Len(received["down"]) /\ i \in 1 .. Len(sent["down"])
      BY <1>3 DEF Prefix
    <2>2. received["down"][i] = sent["down"][i] /\ sent["down"][i].name = i - 1
      BY <1>3, <2>1 DEF Prefix, CountInv, ChunkInv
    <2>3. n = i - 1
      BY <1>2, <2>2
    <2> QED
      BY <1>3, <2>1, <2>3 DEF Handed
  <1>5. ResultInv'
    BY <1>1, <1>3, <1>4 DEF CountInv, ResultInv, Handed
  <1>6. ChunkInv' /\ PaceInv' /\ CellInv'
    BY <1>1 DEF CountInv, ChunkInv, PaceInv, CellInv, UpCells, stream
  <1> QED
    BY <1>5, <1>6 DEF CountInv

LEMMA CellStep ==
    ASSUME UpCells \in Int, ResultCells \in Nat,
           Len(sent["up"]) \in Nat, Len(received["up"]) \in Nat,
           UpCells = ResultCells * (Len(sent["up"]) - Len(received["up"])),
           \/ /\ UpCells' = UpCells + ResultCells
              /\ Len(sent'["up"]) = Len(sent["up"]) + 1 /\ received'["up"] = received["up"]
           \/ /\ UpCells' = UpCells - ResultCells
              /\ sent'["up"] = sent["up"] /\ Len(received'["up"]) = Len(received["up"]) + 1
    PROVE  UpCells' = ResultCells * (Len(sent'["up"]) - Len(received'["up"]))
  <1> DEFINE k == ResultCells
             x == Len(sent["up"])
             y == Len(received["up"])
             c == UpCells
             x2 == Len(sent'["up"])
             y2 == Len(received'["up"])
             c2 == UpCells'
  <1>1. \/ c2 = c + k /\ x2 = x + 1 /\ y2 = y
        \/ c2 = c - k /\ x2 = x /\ y2 = y + 1
    OBVIOUS
  <1>2. k \in Nat /\ c \in Int /\ x \in Int /\ y \in Int /\ c = k * (x - y)
    OBVIOUS
  <1> HIDE DEF k, c, x, y, x2, y2, c2
  <1>3. c2 = k * (x2 - y2)
    <2>1. x - y \in Int
      BY <1>2
    <2>2. k * ((x - y) + 1) = k * (x - y) + k /\ k * ((x - y) - 1) = k * (x - y) - k
      BY <1>2, <2>1, Product
    <2>3. CASE c2 = c + k /\ x2 = x + 1 /\ y2 = y
      <3>1. x2 - y2 = (x - y) + 1
        BY <1>2, <2>3
      <3> QED
        BY <1>2, <2>2, <2>3, <3>1
    <2>4. CASE c2 = c - k /\ x2 = x /\ y2 = y + 1
      <3>1. x2 - y2 = (x - y) - 1
        BY <1>2, <2>4
      <3> QED
        BY <1>2, <2>2, <2>4, <3>1
    <2> QED
      BY <1>1, <2>3, <2>4
  <1> QED
    BY <1>3 DEF x2, y2, c2, k

LEMMA SentCount ==
    ASSUME ConnectionInv, CountInv, NEW n \in 1 .. MaxChunks, send_result_to_employer(n)
    PROVE  CountInv'
  <1> DEFINE m == Message(n, ResultBlocks)
             a == sent["up"]
  <1>1. /\ StartSending("up", m) /\ at["employee"] = "result" /\ n \in results
        /\ results' = results \ {n}
        /\ UNCHANGED <<configured, active_tasks, timeouts, next>>
    BY DEF send_result_to_employer
  <1>2. m \in MessageSet /\ m.name = n /\ Len(m.data) = ResultBlocks
    BY MessageIs, BoundsAssumption
  <1>3. Size(m) = ResultCells /\ ResultCells \in Nat
    BY <1>2, BoundsAssumption DEF Size, ResultCells
  <1> HIDE DEF m
  <1>4. /\ Len(sent'["up"]) = Len(a) + 1 /\ sent'["up"][Len(a) + 1] = m
        /\ \A i \in 1 .. Len(a) : sent'["up"][i] = a[i]
        /\ sent'["down"] = sent["down"]
        /\ Len(out'["up"]) = ResultCells
        /\ UNCHANGED <<wire, reading, open, received>>
    BY <1>1, <1>2, <1>3, Ways, SentIs DEF ConnectionInv
  <1>5. /\ Len(a) \in Nat /\ Len(received["up"]) \in Nat /\ Len(wire["up"]) \in Nat
        /\ Consumed(reading["up"]) \in Nat
    BY Ways, Lengths DEF ConnectionInv
  <1>6. ChunkInv' /\ PaceInv'
    BY <1>1, <1>4 DEF CountInv, ChunkInv, PaceInv
  <1>7. ResultInv'
    <2>1. \A i \in 1 .. Len(a) + 1 : i \in 1 .. Len(a) \/ i = Len(a) + 1
      BY <1>5
    <2>2. n \in 1 .. Handed /\ \A i \in 1 .. Len(a) : a[i].name # n
      BY <1>1 DEF CountInv, ResultInv
    <2>3. Handed' = Handed
      BY <1>4 DEF Handed
    <2>4. results' \subseteq 1 .. Handed'
      BY <1>1, <2>3 DEF CountInv, ResultInv
    <2>5. \A i \in 1 .. Len(a) + 1 :
             /\ sent'["up"][i].name \in 1 .. Handed /\ sent'["up"][i].name \notin results'
             /\ Len(sent'["up"][i].data) = ResultBlocks
      BY <1>1, <1>2, <1>4, <2>1, <2>2 DEF CountInv, ResultInv
    <2>6. \A i, k \in 1 .. Len(a) + 1 : sent'["up"][i].name = sent'["up"][k].name => i = k
      BY <1>2, <1>4, <2>1, <2>2 DEF CountInv, ResultInv
    <2> QED
      BY <1>4, <2>3, <2>4, <2>5, <2>6 DEF ResultInv
  <1>8. CellInv'
    <2> SUFFICES ASSUME open["employer"], open["employee"]
                 PROVE  UpCells' = ResultCells * (Len(sent'["up"]) - Len(received'["up"]))
      BY <1>4 DEF CellInv
    <2>1. UpCells = ResultCells * (Len(a) - Len(received["up"]))
      BY DEF CountInv, CellInv
    <2>2. Len(out["up"]) = 0
      <3>1. out["up"] = <<>>
        BY <1>1 DEF ConnectionInv, LoopInv
      <3> QED
        BY <3>1
    <2>3. UpCells = Len(wire["up"]) + Consumed(reading["up"])
      BY <1>5, <2>2 DEF UpCells
    <2>4. UpCells' = Len(wire["up"]) + ResultCells + Consumed(reading["up"])
      BY <1>4 DEF UpCells
    <2>5. UpCells \in Int /\ UpCells' = UpCells + ResultCells
      BY <1>3, <1>5, <2>3, <2>4
    <2> QED
      BY <1>3, <1>4, <1>5, <2>1, <2>5, CellStep
  <1> QED
    BY <1>6, <1>7, <1>8 DEF CountInv

LEMMA ReceivedCount ==
    ASSUME ConnectionInv, CountInv, receive_result_from_employee
    PROVE  CountInv'
  <1>1. /\ Finish("up") /\ open["employer"]
        /\ active_tasks' \in {active_tasks, IF active_tasks > 0 THEN active_tasks - 1 ELSE 0}
        /\ UNCHANGED <<configured, timeouts, next, results>>
    BY DEF receive_result_from_employee
  <1>2. Delivers("up") /\ Consumed(reading["up"]) = Size(sent["up"][Len(received["up"]) + 1])
    BY <1>1, Ways, FinishStream DEF ConnectionInv
  <1>3. /\ Len(received'["up"]) = Len(received["up"]) + 1
        /\ received'["down"] = received["down"] /\ sent' = sent
    BY <1>2, Ways, DeliveredIs DEF ConnectionInv
  <1>4. /\ Len(sent["up"]) \in Nat /\ Len(received["up"]) \in Nat /\ Len(wire["up"]) \in Nat
        /\ Len(out["up"]) \in Nat /\ active_tasks \in Nat /\ timeouts \in Nat /\ next \in Nat
    BY BoundsAssumption, Ways, Lengths DEF ConnectionInv, TableTypes
  <1>5. ChunkInv' /\ ResultInv'
    BY <1>1, <1>3 DEF CountInv, ChunkInv, ResultInv, Handed
  <1>6. PaceInv'
    BY <1>1, <1>3, <1>4, PaceStep DEF CountInv, ConnectionInv
  <1>7. CellInv'
    <2>1. UNCHANGED <<wire, out, open>> /\ reading'["up"] = NotReading
      BY <1>1, Ways DEF Finish, ConnectionInv, StreamInv, StreamTypes, stream
    <2> SUFFICES ASSUME open["employer"], open["employee"]
                 PROVE  UpCells' = ResultCells * (Len(sent'["up"]) - Len(received'["up"]))
      BY <2>1 DEF CellInv
    <2>2. UpCells = ResultCells * (Len(sent["up"]) - Len(received["up"]))
      BY DEF CountInv, CellInv
    <2>3. Consumed(reading["up"]) = ResultCells /\ ResultCells \in Nat
      <3>1. Len(received["up"]) + 1 \in 1 .. Len(sent["up"])
        BY <1>2, <1>4 DEF Delivers
      <3>2. Len(sent["up"][Len(received["up"]) + 1].data) = ResultBlocks
        BY <3>1 DEF CountInv, ResultInv
      <3> QED
        BY <1>2, <3>2, BoundsAssumption DEF Size, ResultCells
    <2>4. UpCells = Len(wire["up"]) + Len(out["up"]) + ResultCells
      BY <2>3 DEF UpCells
    <2>5. UpCells' = Len(wire["up"]) + Len(out["up"]) + 0
      BY <2>1, NotReadingType DEF UpCells
    <2>6. UpCells \in Int /\ UpCells' = UpCells - ResultCells
      BY <1>4, <2>3, <2>4, <2>5
    <2> QED
      BY <1>3, <1>4, <2>2, <2>3, <2>6, CellStep
  <1> QED
    BY <1>5, <1>6, <1>7 DEF CountInv

LEMMA InitCount == Init => CountInv
  <1> SUFFICES ASSUME Init PROVE CountInv
    OBVIOUS
  <1>1. /\ \A d \in Directions : /\ Len(wire[d]) = 0 /\ Len(out[d]) = 0 /\ Len(sent[d]) = 0
                                /\ Len(received[d]) = 0 /\ reading[d] = NotReading
        /\ configured = FALSE /\ active_tasks = 0 /\ timeouts = 0 /\ next = 1 /\ results = {}
    BY EmptySeq DEF Init
  <1>2. ChunkInv
    BY <1>1, Ways DEF ChunkInv
  <1>3. ResultInv
    BY <1>1, Ways DEF ResultInv
  <1>4. PaceInv
    BY <1>1, Ways DEF PaceInv
  <1>5. CellInv
    <2>1. UpCells = 0
      <3>1. Len(wire["up"]) = 0 /\ Len(out["up"]) = 0 /\ Consumed(reading["up"]) = 0
        BY <1>1, Ways, NotReadingType
      <3> QED
        BY <3>1 DEF UpCells
    <2>2. ResultCells \in Nat
      BY BoundsAssumption DEF ResultCells
    <2>3. Len(sent["up"]) = 0 /\ Len(received["up"]) = 0
      BY <1>1, Ways
    <2>4. ResultCells * (0 - 0) = 0
      BY <2>2
    <2>5. UpCells = ResultCells * (Len(sent["up"]) - Len(received["up"]))
      BY <2>1, <2>3, <2>4
    <2> QED
      BY <2>5 DEF CellInv
  <1> QED
    BY <1>2, <1>3, <1>4, <1>5 DEF CountInv

LEMMA StepCount == ConnectionInv /\ CountInv /\ [Next]_vars => CountInv'
  <1> SUFFICES ASSUME ConnectionInv, CountInv, [Next]_vars PROVE CountInv'
    OBVIOUS
  <1>1. ASSUME NEW n \in 1 .. MaxChunks, Result(n) \/ send_result_to_employer(n) PROVE CountInv'
    BY <1>1, WorkedCount, SentCount
  <1>2. CASE \/ receive_result_from_employee \/ send_initial_config \/ send_file_to_employee
             \/ TimesOut \/ receive_task_from_employer
    BY <1>2, ReceivedCount, ConfigCount, ChunkCount, TimesOutCount, TaskCount
  <1>3. CASE \/ \E d \in Directions : \/ Write(d) \/ ReadLength(d) \/ ReadBody(d) \/ ReadSize(d)
                                      \/ ReadData(d) \/ GivesUp(d)
             \/ EmployerSelects \/ EmployerLoops \/ recv_json_peek \/ EmployeeLoops
             \/ Leave("employer") \/ Leave("employee")
    BY <1>3, QuietStep, QuietCount
  <1>4. CASE UNCHANGED vars
    BY <1>4, QuietCount DEF vars, stream, tables, Quiet, UpKept, UpCells
  <1> QED
    BY <1>1, <1>2, <1>3, <1>4 DEF Next

LEMMA CountAlways == Spec => []CountInv
  BY InitCount, InitConnection, StepConnection, StepCount, ConnectionAlways, PTL DEF Spec

\* Something on its way is of a message that was not received.
LEMMA FrameFirst ==
    ASSUME NEW snt \in Seq(MessageSet), NEW q \in Seq(CellSet), NEW j \in Nat, NEW o, NEW w,
           Framed(q, snt, j, o, w), q # <<>>
    PROVE  j <= Len(snt)
  <1> DEFINE b == Tail(q)
  <1>1. Len(q) \in Nat \ {0} /\ Len(snt) \in Nat
    BY EmptySeq, LenProperties
  <1>2. /\ b \in Seq(CellSet) /\ Len(b) = Len(q) - 1
        /\ \A i \in 1 .. Len(b) : b[i] = q[i + 1]
    BY HeadTailProperties
  <1> HIDE DEF b
  <1>3. Len(q) >= 1
    BY <1>1
  <1>4. PICK k, l \in Nat : After(snt, j, o, k, l) /\ k \in 1 .. Len(snt)
    BY <1>2, <1>3, FrameTake
  <1>5. k = j \/ k = j + 1
    BY <1>4 DEF After
  <1> QED
    BY <1>1, <1>4, <1>5

LEMMA UnderWay ==
    ASSUME StreamInv, NEW d \in Directions, open[To(d)], out[d] # <<>>
    PROVE  Len(received[d]) + 1 <= Len(sent[d])
  <1> DEFINE q == wire[d] \o out[d]
             j == Len(received[d]) + 1
             o == Consumed(reading[d])
             w == open[From(d)]
  <1>1. q \in Seq(CellSet) /\ q # <<>>
    <2>1. /\ wire[d] \in Seq(CellSet) /\ out[d] \in Seq(CellSet)
          /\ Len(wire[d]) \in Nat /\ Len(out[d]) \in Nat /\ Len(out[d]) # 0
      BY LenProperties, EmptySeq DEF StreamInv, StreamTypes
    <2>2. q \in Seq(CellSet) /\ Len(q) = Len(wire[d]) + Len(out[d])
      BY <2>1, ConcatProperties
    <2> HIDE DEF q
    <2> DEFINE x == Len(wire[d])
               y == Len(out[d])
    <2>3. x \in Nat /\ y \in Nat /\ y # 0 /\ Len(q) = x + y
      BY <2>1, <2>2
    <2> HIDE DEF x, y
    <2>4. Len(q) # 0
      BY <2>3
    <2> QED
      BY <2>2, <2>4, EmptySeq
  <1>2. Framed(q, sent[d], j, o, w) /\ sent[d] \in Seq(MessageSet) /\ j \in Nat
    BY Lengths DEF StreamInv, StreamTypes, DirOK, Link
  <1> HIDE DEF q, j, o, w
  <1>3. j <= Len(sent[d])
    BY <1>1, <1>2, FrameFirst
  <1> QED
    BY <1>3 DEF j

\* There are no more results than chunks that were handed over.
LEMMA ResultsFew ==
    ASSUME ResultInv, Len(sent["up"]) \in Nat, Len(received["down"]) \in Nat
    PROVE  Len(sent["up"]) <= Handed \/ Len(sent["up"]) = 0
  <1> DEFINE n == Len(sent["up"])
             h == Handed
             S == 1 .. n
             T == 1 .. h
             f == [i \in S |-> sent["up"][i].name]
  <1>1. n \in Int /\ h \in Int
    BY DEF Handed
  <1>2. f \in [S -> T] /\ \A i, k \in S : f[i] = f[k] => i = k
    BY DEF ResultInv
  <1> HIDE DEF n, h, f
  <1>3. /\ IsFiniteSet(S) /\ Cardinality(S) = IF 1 > n THEN 0 ELSE n - 1 + 1
        /\ IsFiniteSet(T) /\ Cardinality(T) = IF 1 > h THEN 0 ELSE h - 1 + 1
    <2>1. 1 \in Int
      OBVIOUS
    <2>2. IsFiniteSet(S) /\ Cardinality(S) = IF 1 > n THEN 0 ELSE n - 1 + 1
      BY <1>1, <2>1, FS_Interval
    <2>3. IsFiniteSet(T) /\ Cardinality(T) = IF 1 > h THEN 0 ELSE h - 1 + 1
      BY <1>1, <2>1, FS_Interval
    <2> QED
      BY <2>2, <2>3
  <1> HIDE DEF S, T
  <1>4. ~(Cardinality(T) < Cardinality(S))
    BY <1>2, <1>3, FS_PigeonHole
  <1>5. n <= h \/ n <= 0
    BY <1>1, <1>3, <1>4
  <1> QED
    BY <1>5 DEF n, h

\* The limit on active_tasks (send_file_to_employee) bounds the results under way, so
\* that both agents are in a write that waits for the other to read only when that many
\* results do not fit into the socket buffers.  For any sizes of messages and buffers.
THEOREM StuckOnlyByLargeResults == Spec => []BlockedByLargeResults
  <1>1. ConnectionInv /\ CountInv => BlockedByLargeResults
    <2> SUFFICES ASSUME ConnectionInv, CountInv, BothBlocked
                 PROVE  (MaxActive - 1 + timeouts) * ResultCells > UpCap
      BY DEF BlockedByLargeResults
    <2> DEFINE s == Len(sent["up"])
               v == Len(received["up"])
               h == Len(received["down"])
               e == Len(sent["down"])
    <2>1. /\ open["employer"] /\ open["employee"] /\ out["down"] # <<>> /\ out["up"] # <<>>
          /\ Len(wire["up"]) = UpCap
      BY Ways DEF Cap, BothBlocked
    <2>2. StreamInv
      BY DEF ConnectionInv
    <2>3. /\ s \in Nat /\ v \in Nat /\ h \in Nat /\ e \in Nat
          /\ Len(out["up"]) \in Nat /\ Consumed(reading["up"]) \in Nat
      BY <2>2, Ways, Lengths
    <2>4. h + 1 <= e
      BY <2>1, <2>2, Ways, UnderWay
    <2>5. /\ next \in Nat /\ active_tasks \in Nat /\ timeouts \in Nat
          /\ active_tasks <= MaxActive /\ timeouts <= MaxTimeouts
          /\ MaxActive \in Nat /\ MaxActive >= 1 /\ MaxTimeouts \in Nat
      BY BoundsAssumption DEF ConnectionInv, TableTypes
    <2>6. e <= next
      BY <2>5 DEF CountInv, ChunkInv
    <2>7. s <= h - 1 \/ s = 0
      BY <2>3, ResultsFew DEF CountInv, Handed
    <2>8. (next - 1) - v <= active_tasks + timeouts
      BY DEF CountInv, PaceInv
    <2>9. UpCap + Len(out["up"]) + Consumed(reading["up"]) = ResultCells * (s - v)
      BY <2>1 DEF CountInv, CellInv, UpCells
    <2>10. Len(out["up"]) # 0
      BY <2>1, <2>2, Ways, EmptySeq DEF StreamInv, StreamTypes
    <2> HIDE DEF s, v, h, e
    <2>11. s - v <= MaxActive - 1 + timeouts
      BY <2>3, <2>4, <2>5, <2>6, <2>7, <2>8
    <2> DEFINE x == s - v
               y == MaxActive - 1 + timeouts
    <2>12. x \in Int /\ y \in Int /\ x <= y /\ ResultCells \in Nat /\ UpCap \in Nat
      BY <2>3, <2>5, <2>11, BoundsAssumption DEF ResultCells
    <2>13. ResultCells * x > UpCap
      <3>1. UpCap + Len(out["up"]) + Consumed(reading["up"]) = ResultCells * x
        BY <2>9
      <3> HIDE DEF x
      <3> QED
        BY <2>3, <2>10, <2>12, <3>1
    <2> SUFFICES ASSUME ~(y * ResultCells > UpCap) PROVE FALSE
      OBVIOUS
    <2> HIDE DEF x, y
    <2>14. ResultCells * x > ResultCells * y
      BY <2>12, <2>13
    <2> QED
      BY <2>12, <2>14, MoreThan
  <1> QED
    BY <1>1, CountAlways, ConnectionAlways, PTL

-----------------------------------------------------------------------------
\* From end to end: what an agent was handed is, message by message, what the other
\* agent sent, however the cells arrived and whoever closed the connection.
NothingForeign == \A d \in Directions : Prefix(received[d], sent[d])
THEOREM ReceivedIsPrefix == Spec => []NothingForeign
  <1>1. ConnectionInv => NothingForeign
    BY DEF ConnectionInv, StreamInv, DirOK, NothingForeign
  <1> QED
    BY <1>1, ConnectionAlways, PTL

\* receive_result_from_employee (volcom_employer.c 412-495) is handed at most one result
\* for a chunk on a connection, and only for chunks the employee was handed whole before:
\* result n belongs to the message after the configuration and n - 1 chunks.
ResultsMatch ==
    /\ \A i \in 1 .. Len(received["up"]) :
          LET n == received["up"][i].name IN
          n + 1 \in 2 .. Len(received["down"]) /\ received["down"][n + 1].name = n
    /\ \A i, k \in 1 .. Len(received["up"]) :
          received["up"][i].name = received["up"][k].name => i = k
THEOREM ResultsMatchChunks == Spec => []ResultsMatch
  <1>1. ConnectionInv /\ CountInv => ResultsMatch
    <2> SUFFICES ASSUME ConnectionInv, CountInv
                 PROVE  ResultsMatch
      OBVIOUS
    <2>1. StreamInv /\ ResultInv /\ ChunkInv
      BY DEF ConnectionInv, CountInv
    <2>2. /\ Prefix(received["up"], sent["up"]) /\ Prefix(received["down"], sent["down"])
          /\ Len(received["up"]) \in Nat /\ Len(sent["up"]) \in Nat
          /\ Len(received["down"]) \in Nat /\ Len(sent["down"]) \in Nat
      BY <2>1, Ways, Lengths DEF StreamInv, DirOK
    <2>3. \A i \in 1 .. Len(received["up"]) : /\ i \in 1 .. Len(sent["up"])
                                              /\ received["up"][i] = sent["up"][i]
      BY <2>2 DEF Prefix
    <2>4. ASSUME NEW i \in 1 .. Len(received["up"])
          PROVE  LET n == received["up"][i].name IN
                 n + 1 \in 2 .. Len(received["down"]) /\ received["down"][n + 1].name = n
      <3> DEFINE n == received["up"][i].name
      <3>1. n \in 1 .. Handed
        BY <2>1, <2>3 DEF ResultInv
      <3> HIDE DEF n
      <3>2. n + 1 \in 2 .. Len(received["down"]) /\ n + 1 \in 1 .. Len(received["down"])
        BY <2>2, <3>1 DEF Handed
      <3>3. n + 1 \in 1 .. Len(sent["down"]) /\ received["down"][n + 1] = sent["down"][n + 1]
        BY <2>2, <3>2 DEF Prefix
      <3>4. sent["down"][n + 1].name = (n + 1) - 1
        BY <2>1, <3>3 DEF ChunkInv
      <3>5. (n + 1) - 1 = n
        BY <2>2, <3>1 DEF Handed
      <3> QED
        BY <3>2, <3>3, <3>4, <3>5 DEF n
    <2>5. \A i, k \in 1 .. Len(received["up"]) :
             received["up"][i].name = received["up"][k].name => i = k
      BY <2>1, <2>3 DEF ResultInv
    <2> QED
      BY <2>4, <2>5 DEF ResultsMatch
  <1> QED
    BY <1>1, CountAlways, ConnectionAlways, PTL
=============================================================================
