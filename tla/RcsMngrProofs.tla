---------------------------- MODULE RcsMngrProofs ----------------------------
(***************************************************************************)
(* What holds of the resource manager for any names, processes, capacities *)
(* and number of failures.                                                 *)
(***************************************************************************)
EXTENDS RcsMngr, SequenceTheorems, TLAPS

Cgroup == [name : Names \cup {Main}, is_created : BOOLEAN, pids : {"live", "freed", "null"},
           list : Seq(Pids), pid_capacity : Nat]

\* A cgroup whose array has room, or will have when it is doubled.
Sound(cgroup) == Len(cgroup.list) <= cgroup.pid_capacity
Grows(cgroup) == cgroup.pid_capacity >= 1 /\ Sound(cgroup)
Child(cgroup) == cgroup.name \in Names /\ Grows(cgroup)

RowsType ==
    /\ child_cgroups \in Seq(Cgroup)
    /\ \A i \in Rows : Child(child_cgroups[i])

TypeInv ==
    /\ pc \in {"ready", "delete_main", "crashed"}
    /\ is_initialized \in BOOLEAN /\ children \in {"live", "null"}
    /\ main_cgroup \in Cgroup /\ main_cgroup.name = Main /\ Sound(main_cgroup)
    /\ RowsType
    /\ child_capacity \in Nat /\ Len(child_cgroups) <= child_capacity
    /\ is_initialized => child_capacity >= 1 /\ Grows(main_cgroup)
    /\ dirs \subseteq Names \cup {Main}
    /\ member \in [Pids -> Names \cup {"outside", "ended"}]
    /\ faults \in 0 .. MaxFaults

-----------------------------------------------------------------------------
\* Sequences.

LEMMA AppendRows ==
    ASSUME NEW S, NEW q \in Seq(S), NEW e \in S
    PROVE  /\ Append(q, e) \in Seq(S)
           /\ Len(Append(q, e)) = Len(q) + 1 /\ Len(q) \in Nat
           /\ DOMAIN Append(q, e) = 1 .. Len(q) + 1 /\ DOMAIN q = 1 .. Len(q)
           /\ \A i \in 1 .. Len(q) : Append(q, e)[i] = q[i]
           /\ Append(q, e)[Len(q) + 1] = e
  BY AppendProperties, LenProperties

LEMMA RemoveAtRows ==
    ASSUME NEW S, NEW q \in Seq(S), NEW k \in DOMAIN q
    PROVE  /\ RemoveAt(q, k) \in Seq(S)
           /\ Len(q) \in Nat /\ k \in 1 .. Len(q)
           /\ Len(RemoveAt(q, k)) = Len(q) - 1
           /\ DOMAIN RemoveAt(q, k) = 1 .. Len(q) - 1 /\ DOMAIN q = 1 .. Len(q)
           /\ \A i \in 1 .. Len(q) - 1 :
                 RemoveAt(q, k)[i] = IF i < k THEN q[i] ELSE q[i + 1]
  <1>1. Len(q) \in Nat /\ DOMAIN q = 1 .. Len(q) /\ k \in 1 .. Len(q)
    BY LenProperties
  <1>2. \A n \in 1 .. Len(q) : q[n] \in S
    BY ElementOfSeq
  <1> DEFINE a == SubSeq(q, 1, k - 1)
             b == SubSeq(q, k + 1, Len(q))
  <1>3. a \in Seq(S) /\ Len(a) = k - 1 /\ \A n \in 1 .. k - 1 : a[n] = q[n]
    BY <1>1, <1>2, SubSeqProperties
  <1>4. /\ b \in Seq(S) /\ Len(b) = Len(q) - k
        /\ \A n \in 1 .. Len(q) - k : b[n] = q[k + n]
    <2>1. CASE k + 1 <= Len(q)
      BY <1>1, <1>2, <2>1, SubSeqProperties
    <2>2. CASE k = Len(q)
      BY <1>1, <1>2, <2>2, SubSeqProperties
    <2>3. k + 1 <= Len(q) \/ k = Len(q)
      BY <1>1
    <2> QED
      BY <2>1, <2>2, <2>3
  <1> HIDE DEF a, b
  <1>5. /\ a \o b \in Seq(S) /\ Len(a \o b) = Len(q) - 1
        /\ \A i \in 1 .. Len(q) - 1 : (a \o b)[i] = IF i < k THEN q[i] ELSE q[i + 1]
    <2>1. a \o b \in Seq(S) /\ Len(a \o b) = Len(a) + Len(b)
      BY <1>3, <1>4, ConcatProperties
    <2>2. \A i \in 1 .. Len(a) + Len(b) :
             (a \o b)[i] = IF i <= Len(a) THEN a[i] ELSE b[i - Len(a)]
      BY <1>3, <1>4, ConcatProperties
    <2>3. Len(a) + Len(b) = Len(q) - 1
      BY <1>1, <1>3, <1>4
    <2>4. ASSUME NEW i \in 1 .. Len(q) - 1
          PROVE  (a \o b)[i] = IF i < k THEN q[i] ELSE q[i + 1]
      <3>1. CASE i < k
        <4>1. i \in 1 .. k - 1 /\ i <= Len(a) /\ i \in 1 .. Len(a) + Len(b)
          BY <1>1, <1>3, <2>3, <3>1
        <4> QED
          BY <1>3, <2>2, <3>1, <4>1
      <3>2. CASE ~(i < k)
        <4>1. /\ i - (k - 1) \in 1 .. Len(q) - k /\ ~(i <= Len(a))
              /\ i \in 1 .. Len(a) + Len(b) /\ k + (i - (k - 1)) = i + 1
          BY <1>1, <1>3, <2>3, <3>2
        <4>2. (a \o b)[i] = b[i - (k - 1)]
          BY <1>3, <2>2, <4>1
        <4>3. b[i - (k - 1)] = q[k + (i - (k - 1))]
          BY <1>4, <4>1
        <4> QED
          BY <3>2, <4>1, <4>2, <4>3
      <3> QED
        BY <3>1, <3>2
    <2> QED
      BY <2>1, <2>3, <2>4
  <1>6. RemoveAt(q, k) = a \o b
    BY DEF RemoveAt, a, b
  <1>7. DOMAIN (a \o b) = 1 .. Len(q) - 1
    BY <1>5, LenProperties
  <1> QED
    BY <1>1, <1>5, <1>6, <1>7

\* A row of the table gets a new content.
LEMMA ReplaceRows ==
    ASSUME RowsType, NEW i \in Rows, NEW c \in Cgroup, Child(c),
           child_cgroups' = [child_cgroups EXCEPT ![i] = c]
    PROVE  /\ RowsType' /\ Len(child_cgroups') = Len(child_cgroups)
           /\ Rows' = Rows
           /\ \A k \in Rows : child_cgroups'[k] = IF k = i THEN c ELSE child_cgroups[k]
  <1>1. /\ child_cgroups' \in Seq(Cgroup) /\ Len(child_cgroups') = Len(child_cgroups)
        /\ \A k \in 1 .. Len(child_cgroups) :
              child_cgroups'[k] = IF k = i THEN c ELSE child_cgroups[k]
    BY ExceptSeq, LenProperties DEF RowsType, Rows
  <1>2. Rows = 1 .. Len(child_cgroups) /\ Rows' = 1 .. Len(child_cgroups')
    BY <1>1, LenProperties DEF RowsType, Rows
  <1> QED
    BY <1>1, <1>2 DEF RowsType

LEMMA SameRows ==
    ASSUME RowsType, child_cgroups' = child_cgroups
    PROVE  RowsType' /\ Rows' = Rows /\ Len(child_cgroups') = Len(child_cgroups)
  <1>1. Rows' = Rows
    BY DEF Rows
  <1> QED
    BY <1>1 DEF RowsType

LEMMA RowType ==
    ASSUME RowsType, NEW i \in Rows
    PROVE  child_cgroups[i] \in Cgroup /\ Child(child_cgroups[i])
  BY ElementOfSeq, LenProperties DEF RowsType, Rows

\* A row is added to the table.
LEMMA AppendedRows ==
    ASSUME RowsType, NEW c \in Cgroup, Child(c), child_cgroups' = Append(child_cgroups, c)
    PROVE  /\ RowsType' /\ Len(child_cgroups') = Len(child_cgroups) + 1
           /\ \A k \in Rows' : \/ k \in Rows /\ child_cgroups'[k] = child_cgroups[k]
                               \/ k \notin Rows /\ child_cgroups'[k] = c
           /\ Rows \subseteq Rows'
  <1> DEFINE q == child_cgroups
             r == Append(q, c)
             n == Len(q)
  <1>1. q \in Seq(Cgroup)
    BY DEF RowsType
  <1>2. /\ r \in Seq(Cgroup) /\ Len(r) = n + 1 /\ n \in Nat
        /\ DOMAIN r = 1 .. n + 1 /\ DOMAIN q = 1 .. n
        /\ \A i \in 1 .. n : r[i] = q[i]
        /\ r[n + 1] = c
    BY <1>1, AppendRows
  <1>3. \A i \in DOMAIN q : Child(q[i])
    BY DEF RowsType, Rows
  <1>4. child_cgroups' = r /\ Rows = DOMAIN q /\ Rows' = DOMAIN r
    BY DEF Rows
  <1> HIDE DEF r, n
  <1>5. \A k \in DOMAIN r : (k \in DOMAIN q /\ r[k] = q[k]) \/ (k \notin DOMAIN q /\ r[k] = c)
    BY <1>2
  <1>6. \A k \in DOMAIN r : Child(r[k])
    BY <1>3, <1>5
  <1>7. RowsType'
    BY <1>2, <1>4, <1>6 DEF RowsType
  <1> QED
    BY <1>2, <1>4, <1>5, <1>7 DEF n

\* A row leaves the table.
LEMMA RemoveRows ==
    ASSUME RowsType, NEW i \in Rows, RemoveRow(i)
    PROVE  /\ RowsType' /\ Len(child_cgroups') = Len(child_cgroups) - 1
           /\ Len(child_cgroups) \in Nat
           /\ \A k \in Rows' : \E l \in Rows \ {i} :
                 child_cgroups'[k] = child_cgroups[l] /\ (k < i => l = k) /\ (k >= i => l = k + 1)
  <1>1. i \in DOMAIN child_cgroups /\ child_cgroups' = RemoveAt(child_cgroups, i)
    BY DEF Rows, RemoveRow
  <1> DEFINE n == Len(child_cgroups)
  <1>2. /\ child_cgroups' \in Seq(Cgroup)
        /\ n \in Nat /\ i \in 1 .. n /\ Rows = 1 .. n
        /\ Len(child_cgroups') = n - 1 /\ Rows' = 1 .. n - 1
        /\ \A k \in 1 .. n - 1 :
              child_cgroups'[k] = IF k < i THEN child_cgroups[k] ELSE child_cgroups[k + 1]
    BY <1>1, RemoveAtRows DEF RowsType, Rows
  <1> HIDE DEF n
  <1>3. ASSUME NEW k \in Rows'
        PROVE  \E l \in Rows \ {i} :
                  child_cgroups'[k] = child_cgroups[l] /\ (k < i => l = k) /\ (k >= i => l = k + 1)
    <2>1. CASE k < i
      BY <1>2, <2>1
    <2>2. CASE k >= i
      <3>1. k + 1 \in Rows \ {i} /\ ~(k < i)
        BY <1>2, <2>2
      <3> QED
        BY <1>2, <2>2, <3>1
    <2> QED
      BY <1>2, <2>1, <2>2
  <1>4. \A k \in Rows' : Child(child_cgroups'[k])
    BY <1>3 DEF RowsType
  <1> QED
    BY <1>2, <1>3, <1>4 DEF RowsType, n

-----------------------------------------------------------------------------
\* Cgroups.

LEMMA NewType ==
    ASSUME NEW name \in Names \cup {Main}
    PROVE  /\ NewCgroup(name) \in Cgroup /\ NewCgroup(name).name = name
           /\ Grows(NewCgroup(name))
  <1>1. <<>> \in Seq(Pids) /\ Len(<<>>) = 0
    BY EmptySeq
  <1> QED
    BY <1>1, BoundsAssumption DEF NewCgroup, Cgroup, Grows, Sound

LEMMA RoomType ==
    ASSUME NEW c \in Cgroup, Grows(c)
    PROVE  /\ Room(c) \in Cgroup /\ Grows(Room(c))
           /\ Room(c).name = c.name /\ Room(c).list = c.list
           /\ Len(c.list) + 1 <= Room(c).pid_capacity
           /\ Room(c).pids = IF Full(c) /\ c.pids = "null" THEN "live" ELSE c.pids
  <1>1. /\ c.pid_capacity \in Nat /\ c.list \in Seq(Pids) /\ Len(c.list) \in Nat
        /\ c.pids \in {"live", "freed", "null"}
    BY LenProperties DEF Cgroup
  <1>2. CASE Full(c)
    <2> DEFINE r == [c EXCEPT !.pid_capacity = @ * 2,
                              !.pids = IF @ = "null" THEN "live" ELSE @]
    <2>1. Room(c) = r
      BY <1>2 DEF Room
    <2> DEFINE n == c.pid_capacity * 2
               a == IF c.pids = "null" THEN "live" ELSE c.pids
    <2>a. n \in Nat /\ a \in {"live", "freed", "null"}
      BY <1>1
    <2>b. r = [[c EXCEPT !.pid_capacity = n] EXCEPT !.pids = a]
      OBVIOUS
    <2>c. n = c.pid_capacity * 2 /\ a = IF c.pids = "null" THEN "live" ELSE c.pids
      OBVIOUS
    <2> HIDE DEF n, a, r
    <2>2. /\ r \in Cgroup /\ r.name = c.name /\ r.list = c.list
          /\ r.pid_capacity = n /\ r.pids = a
      BY <1>1, <2>a, <2>b DEF Cgroup
    <2>3. /\ Len(c.list) <= c.pid_capacity /\ c.pid_capacity >= 1
          /\ c.pid_capacity * 2 >= c.pid_capacity + 1
      BY <1>1 DEF Grows, Sound
    <2> QED
      BY <1>1, <1>2, <2>1, <2>2, <2>3, <2>c DEF Grows, Sound
  <1>3. CASE ~Full(c)
    BY <1>1, <1>3 DEF Room, Full, Cgroup, Grows, Sound
  <1> QED
    BY <1>2, <1>3

LEMMA RecordedType ==
    ASSUME NEW c \in Cgroup, Grows(c), NEW p \in Pids
    PROVE  /\ Recorded(c, p) \in Cgroup /\ Grows(Recorded(c, p))
           /\ Recorded(c, p).name = c.name /\ Recorded(c, p).pids = Room(c).pids
           /\ Recorded(c, p).list = Append(c.list, p)
  <1>1. Room(c).list \in Seq(Pids) /\ Room(c).list = c.list
    BY RoomType DEF Cgroup
  <1>2. Append(c.list, p) \in Seq(Pids) /\ Len(Append(c.list, p)) = Len(c.list) + 1
    BY <1>1, AppendProperties
  <1> QED
    BY <1>1, <1>2, RoomType DEF Recorded, Cgroup, Grows, Sound

\* The cgroup a search finds is the main one or a row.
LEMMA TargetType ==
    ASSUME TypeInv, is_initialized, NEW name \in Names \cup {Main}, NEW c \in Target(name)
    PROVE  /\ c \in Cgroup /\ Grows(c) /\ c.name = name
           /\ (name = Main /\ c = main_cgroup)
              \/ (name # Main /\ \E i \in Rows : FirstRow(name, i) /\ c = child_cgroups[i])
  <1>1. CASE name = Main
    BY <1>1 DEF Target, TypeInv
  <1>2. CASE name # Main
    <2>1. PICK i \in Rows : FirstRow(name, i) /\ c = child_cgroups[i]
      BY <1>2 DEF Target
    <2>2. child_cgroups[i] \in Cgroup
      BY ElementOfSeq, LenProperties DEF TypeInv, RowsType, Rows
    <2> QED
      BY <1>2, <2>1, <2>2 DEF TypeInv, RowsType, FirstRow, Child
  <1> QED
    BY <1>1, <1>2

LEMMA OneFirstRow ==
    ASSUME TypeInv, NEW name, NEW i \in Rows, NEW k \in Rows,
           FirstRow(name, i), FirstRow(name, k)
    PROVE  i = k
  <1>1. Rows = 1 .. Len(child_cgroups) /\ Len(child_cgroups) \in Nat
    BY LenProperties DEF TypeInv, RowsType, Rows
  <1> QED
    BY <1>1 DEF FirstRow

\* The cgroup found gets a new content.
LEMMA ReplaceType ==
    ASSUME TypeInv, is_initialized, NEW name \in Names \cup {Main},
           NEW c \in Cgroup, c.name = name, Grows(c), Replace(name, c)
    PROVE  /\ RowsType' /\ Len(child_cgroups') = Len(child_cgroups) /\ Rows' = Rows
           /\ main_cgroup' \in Cgroup /\ main_cgroup'.name = Main
           /\ Grows(main_cgroup')
           /\ \/ name = Main /\ main_cgroup' = c /\ child_cgroups' = child_cgroups
              \/ /\ name # Main /\ main_cgroup' = main_cgroup
                 /\ \E i \in Rows :
                       /\ FirstRow(name, i)
                       /\ \A k \in Rows :
                             child_cgroups'[k] = IF k = i THEN c ELSE child_cgroups[k]
  <1>0. /\ main_cgroup \in Cgroup /\ main_cgroup.name = Main /\ Grows(main_cgroup)
        /\ RowsType
    BY DEF TypeInv
  <1>1. CASE name = Main /\ main_cgroup' = c /\ UNCHANGED child_cgroups
    <2>1. Rows' = Rows /\ RowsType' /\ Len(child_cgroups') = Len(child_cgroups)
      BY <1>0, <1>1 DEF RowsType, Rows
    <2>2. Grows(main_cgroup')
      BY <1>1
    <2> QED
      BY <1>1, <2>1, <2>2
  <1>2. CASE /\ name # Main /\ UNCHANGED main_cgroup
             /\ \E i \in Rows : /\ FirstRow(name, i)
                                /\ child_cgroups' = [child_cgroups EXCEPT ![i] = c]
    <2>1. PICK i \in Rows : /\ FirstRow(name, i)
                            /\ child_cgroups' = [child_cgroups EXCEPT ![i] = c]
      BY <1>2
    <2>2. Child(c)
      BY <1>2 DEF Child
    <2>3. /\ RowsType' /\ Len(child_cgroups') = Len(child_cgroups) /\ Rows' = Rows
          /\ \A k \in Rows : child_cgroups'[k] = IF k = i THEN c ELSE child_cgroups[k]
      BY <1>0, <2>1, <2>2, ReplaceRows
    <2>4. Grows(main_cgroup')
      BY <1>0, <1>2
    <2> QED
      BY <1>0, <1>2, <2>1, <2>3, <2>4
  <1> QED
    BY <1>1, <1>2 DEF Replace

-----------------------------------------------------------------------------
\* One lemma per action: each keeps the types.

LEMMA BlameType ==
    ASSUME NEW what, NEW next \in {"ready", "delete_main", "crashed"}, Blame(what, next)
    PROVE  pc' \in {"ready", "delete_main", "crashed"}
  BY DEF Blame

LEMMA FaultType ==
    ASSUME TypeInv, Fault \/ UNCHANGED faults
    PROVE  faults' \in 0 .. MaxFaults
  BY BoundsAssumption DEF TypeInv, Fault

\* A table without rows.
LEMMA NoRowsType ==
    ASSUME child_cgroups = <<>>
    PROVE  RowsType /\ Rows = {} /\ Len(child_cgroups) = 0
  <1>1. <<>> \in Seq(Cgroup) /\ Len(<<>>) = 0 /\ DOMAIN <<>> = {}
    BY EmptySeq
  <1> QED
    BY <1>1 DEF RowsType, Rows

LEMMA ZeroedType ==
    ASSUME TypeInv, Zeroed
    PROVE  /\ is_initialized' = FALSE /\ main_cgroup' \in Cgroup
           /\ main_cgroup'.name = Main /\ main_cgroup'.pids = "null" /\ Sound(main_cgroup')
           /\ RowsType' /\ Rows' = {} /\ children' = "null"
           /\ child_capacity' \in Nat /\ Len(child_cgroups') <= child_capacity'
  <1>1. <<>> \in Seq(Pids) /\ Len(<<>>) = 0
    BY EmptySeq
  <1>2. ZeroMain \in Cgroup /\ ZeroMain.name = Main /\ ZeroMain.pids = "null"
        /\ Sound(ZeroMain)
    BY <1>1 DEF ZeroMain, Cgroup, Sound
  <1>3. RowsType' /\ Rows' = {} /\ Len(child_cgroups') = 0
    BY NoRowsType DEF Zeroed, RowsType, Rows
  <1> QED
    BY <1>2, <1>3 DEF Zeroed

LEMMA InitType == Init => TypeInv
  <1> SUFFICES ASSUME Init PROVE TypeInv
    OBVIOUS
  <1>1. <<>> \in Seq(Pids) /\ Len(<<>>) = 0
    BY EmptySeq
  <1>2. ZeroMain \in Cgroup /\ ZeroMain.name = Main /\ Sound(ZeroMain)
    BY <1>1 DEF ZeroMain, Cgroup, Sound
  <1>3. RowsType /\ Len(child_cgroups) = 0
    BY NoRowsType DEF Init
  <1>4. member \in [Pids -> Names \cup {"outside", "ended"}]
    BY DEF Init
  <1>5. faults \in 0 .. MaxFaults
    BY BoundsAssumption DEF Init
  <1>6. child_capacity \in Nat /\ Len(child_cgroups) <= child_capacity
    BY <1>3 DEF Init
  <1> QED
    BY <1>2, <1>3, <1>4, <1>5, <1>6 DEF Init, TypeInv

LEMMA InitCallType == TypeInv /\ volcom_rcsmngr_init => TypeInv'
  <1> SUFFICES ASSUME TypeInv, volcom_rcsmngr_init PROVE TypeInv'
    OBVIOUS
  <1>1. pc' \in {"ready", "delete_main", "crashed"} /\ faults' \in 0 .. MaxFaults
    BY BlameType, FaultType DEF volcom_rcsmngr_init
  <1>2. dirs' \subseteq Names \cup {Main}
        /\ member' \in [Pids -> Names \cup {"outside", "ended"}]
    BY DEF volcom_rcsmngr_init, kernel, TypeInv
  <1>3. CASE /\ is_initialized' = TRUE
             /\ main_cgroup' = [NewCgroup(Main) EXCEPT !.is_created = FALSE]
             /\ child_cgroups' = <<>> /\ children' = "live" /\ child_capacity' = InitChildren
    <2>1. NewCgroup(Main) \in Cgroup /\ NewCgroup(Main).name = Main /\ Grows(NewCgroup(Main))
      BY NewType
    <2>2. main_cgroup' \in Cgroup /\ main_cgroup'.name = Main /\ Grows(main_cgroup')
      BY <1>3, <2>1 DEF Cgroup, Grows, Sound
    <2>3. RowsType' /\ Len(child_cgroups') = 0
      BY <1>3, NoRowsType DEF RowsType, Rows
    <2> QED
      BY <1>1, <1>2, <1>3, <2>2, <2>3, BoundsAssumption DEF TypeInv, Grows
  <1>4. CASE Zeroed
    BY <1>1, <1>2, <1>4, ZeroedType DEF TypeInv
  <1> QED
    BY <1>3, <1>4 DEF volcom_rcsmngr_init

LEMMA CreateMainType == TypeInv /\ volcom_create_main_cgroup => TypeInv'
  <1> SUFFICES ASSUME TypeInv, volcom_create_main_cgroup PROVE TypeInv'
    OBVIOUS
  <1>1. faults' \in 0 .. MaxFaults
    BY FaultType DEF volcom_create_main_cgroup
  <1>2. dirs' \subseteq Names \cup {Main}
    BY DEF volcom_create_main_cgroup, TypeInv
  <1>3. /\ main_cgroup' \in Cgroup /\ main_cgroup'.name = Main
        /\ Sound(main_cgroup') /\ (Grows(main_cgroup) => Grows(main_cgroup'))
    BY DEF volcom_create_main_cgroup, TypeInv, Cgroup, Grows, Sound
  <1>4. RowsType'
    BY DEF volcom_create_main_cgroup, TypeInv, RowsType, Rows
  <1> QED
    BY <1>1, <1>2, <1>3, <1>4 DEF volcom_create_main_cgroup, TypeInv

\* The table has room for the row that is appended, or gets it.
LEMMA CreateChildType ==
    ASSUME TypeInv, NEW name \in Names, volcom_create_child_cgroup(name)
    PROVE  /\ TypeInv'
           /\ \/ child_cgroups' = child_cgroups
              \/ child_cgroups' = Append(child_cgroups, NewCgroup(name))
  <1>0. /\ is_initialized /\ UNCHANGED <<is_initialized, main_cgroup, member>>
        /\ child_capacity' = IF Len(child_cgroups) >= child_capacity
                             THEN child_capacity * 2 ELSE child_capacity
        /\ \/ child_cgroups' = child_cgroups
           \/ child_cgroups' = Append(child_cgroups, NewCgroup(name))
    BY DEF volcom_create_child_cgroup, TableFull, MakeChild
  <1>1. pc' \in {"ready", "delete_main", "crashed"}
    BY BlameType DEF volcom_create_child_cgroup
  <1>2. faults' \in 0 .. MaxFaults
    BY FaultType DEF volcom_create_child_cgroup, MakeChild
  <1>3. dirs' \subseteq Names \cup {Main}
    BY DEF volcom_create_child_cgroup, MakeChild, TypeInv
  <1>4. children' \in {"live", "null"}
    BY DEF volcom_create_child_cgroup, TypeInv
  <1>5. Len(child_cgroups) \in Nat /\ child_capacity \in Nat /\ child_capacity >= 1
        /\ Len(child_cgroups) <= child_capacity
    BY <1>0, LenProperties DEF TypeInv, RowsType
  <1>6. /\ child_capacity' \in Nat /\ child_capacity' >= 1
        /\ Len(child_cgroups) + 1 <= child_capacity'
    <2> DEFINE n == Len(child_cgroups)
               k == child_capacity
    <2> HIDE DEF n, k
    <2>1. k' = IF n >= k THEN k * 2 ELSE k
      BY <1>0 DEF n, k
    <2>2. n \in Nat /\ k \in Nat /\ k >= 1 /\ n <= k
      BY <1>5 DEF n, k
    <2>3. k' \in Nat /\ k' >= 1 /\ n + 1 <= k'
      BY <2>1, <2>2
    <2> QED
      BY <2>3 DEF n, k
  <1>7. CASE child_cgroups' = child_cgroups
    <2>1. RowsType' /\ Len(child_cgroups') <= child_capacity'
      BY <1>5, <1>6, <1>7, SameRows DEF TypeInv
    <2> QED
      BY <1>0, <1>1, <1>2, <1>3, <1>4, <1>6, <1>7, <2>1 DEF TypeInv
  <1>8. CASE child_cgroups' = Append(child_cgroups, NewCgroup(name))
    <2>1. NewCgroup(name) \in Cgroup /\ Child(NewCgroup(name))
      BY NewType DEF Child
    <2>2. RowsType' /\ Len(child_cgroups') = Len(child_cgroups) + 1
      BY <1>8, <2>1, AppendedRows DEF TypeInv
    <2> QED
      BY <1>0, <1>1, <1>2, <1>3, <1>4, <1>6, <1>8, <2>2 DEF TypeInv
  <1> QED
    BY <1>0, <1>7, <1>8

LEMMA WriteType ==
    ASSUME TypeInv, NEW p \in Pids, NEW d \in Names \cup {Main}, Write(p, d)
    PROVE  member' \in [Pids -> Names \cup {"outside", "ended"}]
  BY DEF Write, Joins, TypeInv

LEMMA AddPidType ==
    ASSUME TypeInv, NEW name \in Names \cup {Main}, NEW p \in Pids,
           volcom_add_pid_to_cgroup(name, p)
    PROVE  TypeInv'
  <1>1. PICK c \in Target(name) : AddPid(name, c, p)
    BY DEF volcom_add_pid_to_cgroup
  <1>2. is_initialized
    BY DEF volcom_add_pid_to_cgroup
  <1>3. c \in Cgroup /\ Grows(c) /\ c.name = name
    BY <1>2, TargetType
  <1>4. /\ pc' \in {"ready", "delete_main", "crashed"} /\ faults' \in 0 .. MaxFaults
        /\ UNCHANGED <<is_initialized, children, child_capacity, dirs>>
    BY <1>1, BlameType, FaultType DEF AddPid
  <1>5. member' \in [Pids -> Names \cup {"outside", "ended"}]
    BY <1>1, <1>3, WriteType DEF AddPid
  <1>6. \E r \in Cgroup : r.name = name /\ Grows(r) /\ Replace(name, r)
    <2>1. CASE Replace(name, Recorded(c, p))
      BY <1>3, <2>1, RecordedType
    <2>2. CASE Replace(name, [Room(c) EXCEPT !.pids = "null"])
      <3> DEFINE r == [Room(c) EXCEPT !.pids = "null"]
      <3>1. Room(c) \in Cgroup /\ Grows(Room(c)) /\ Room(c).name = name
        BY <1>3, RoomType
      <3>2. r \in Cgroup /\ Grows(r) /\ r.name = name
        BY <3>1 DEF Cgroup, Grows, Sound
      <3> QED
        BY <2>2, <3>2
    <2> QED
      BY <1>1, <2>1, <2>2 DEF AddPid
  <1>7. /\ RowsType' /\ Len(child_cgroups') = Len(child_cgroups)
        /\ main_cgroup' \in Cgroup /\ main_cgroup'.name = Main /\ Grows(main_cgroup')
    BY <1>2, <1>6, ReplaceType
  <1> QED
    BY <1>4, <1>5, <1>7 DEF TypeInv, Grows

\* The content of a cgroup whose list loses the pid at place k.
LEMMA ShrunkType ==
    ASSUME NEW c \in Cgroup, Grows(c), NEW k \in DOMAIN c.list
    PROVE  \E r \in Cgroup :
              /\ r = [c EXCEPT !.list = RemoveAt(@, k)]
              /\ Grows(r) /\ r.name = c.name /\ r.pids = c.pids
              /\ \A i \in DOMAIN r.list : \E l \in DOMAIN c.list : r.list[i] = c.list[l]
  <1> DEFINE q == c.list
             s == RemoveAt(q, k)
             r == [c EXCEPT !.list = s]
  <1>1. q \in Seq(Pids)
    BY DEF Cgroup
  <1>2. /\ s \in Seq(Pids) /\ Len(q) \in Nat /\ Len(s) = Len(q) - 1
        /\ DOMAIN s = 1 .. Len(q) - 1 /\ DOMAIN q = 1 .. Len(q)
        /\ \A i \in 1 .. Len(q) - 1 : s[i] = IF i < k THEN q[i] ELSE q[i + 1]
    BY <1>1, RemoveAtRows
  <1>3. r = [c EXCEPT !.list = RemoveAt(@, k)]
    OBVIOUS
  <1> HIDE DEF s
  <1>4. /\ r \in Cgroup /\ r.list = s /\ r.name = c.name /\ r.pids = c.pids
        /\ r.pid_capacity = c.pid_capacity /\ c.pid_capacity \in Nat
    BY <1>2 DEF Cgroup
  <1> HIDE DEF r
  <1>5. Grows(r)
    BY <1>2, <1>4 DEF Grows, Sound
  <1>6. ASSUME NEW i \in DOMAIN s PROVE \E l \in DOMAIN q : s[i] = q[l]
    <2>1. i \in DOMAIN q /\ i + 1 \in DOMAIN q
      BY <1>2
    <2> QED
      BY <1>2, <2>1
  <1> QED
    BY <1>4, <1>5, <1>6, <1>3

LEMMA RemovePidType ==
    ASSUME TypeInv, NEW name \in Names \cup {Main}, NEW p \in Pids,
           volcom_remove_pid_from_cgroup(name, p)
    PROVE  TypeInv'
  <1>1. PICK c \in Target(name) : RemovePid(name, c, p)
    BY DEF volcom_remove_pid_from_cgroup
  <1>2. is_initialized
    BY DEF volcom_remove_pid_from_cgroup
  <1>3. c \in Cgroup /\ Grows(c) /\ c.name = name
    BY <1>2, TargetType
  <1>4. pc' \in {"ready", "delete_main", "crashed"}
    BY <1>1, BlameType DEF RemovePid
  <1>5. \E r \in Cgroup : r.name = name /\ Grows(r) /\ Replace(name, r)
    <2>1. PICK k \in DOMAIN c.list : Replace(name, [c EXCEPT !.list = RemoveAt(@, k)])
      BY <1>1 DEF RemovePid
    <2> QED
      BY <1>3, <2>1, ShrunkType
  <1>6. /\ RowsType' /\ Len(child_cgroups') = Len(child_cgroups)
        /\ main_cgroup' \in Cgroup /\ main_cgroup'.name = Main /\ Grows(main_cgroup')
    BY <1>2, <1>5, ReplaceType
  <1> QED
    BY <1>1, <1>4, <1>6 DEF RemovePid, TypeInv, Grows, kernel

LEMMA DeleteChildType ==
    ASSUME TypeInv, NEW name, DeleteChild(name)
    PROVE  TypeInv'
  <1>1. PICK i \in Rows :
           /\ Blame(Scan \cup FreeOf(child_cgroups[i].pids), pc)
           /\ \/ dirs' = dirs \ {name} /\ RemoveRow(i)
              \/ /\ child_cgroups' = [child_cgroups EXCEPT ![i].pids =
                                         IF @ = "null" THEN @ ELSE "freed"]
                 /\ UNCHANGED dirs
           /\ UNCHANGED <<is_initialized, main_cgroup, children, child_capacity, member, faults>>
    BY DEF DeleteChild
  <1>2. pc' \in {"ready", "delete_main", "crashed"} /\ dirs' \subseteq Names \cup {Main}
    BY <1>1, BlameType DEF TypeInv
  <1>3. Len(child_cgroups) \in Nat /\ child_capacity \in Nat
        /\ Len(child_cgroups) <= child_capacity
    BY LenProperties DEF TypeInv, RowsType
  <1>4. RowsType' /\ Len(child_cgroups') <= child_capacity
    <2>1. CASE RemoveRow(i)
      BY <1>3, <2>1, RemoveRows DEF TypeInv
    <2>2. CASE child_cgroups' = [child_cgroups EXCEPT ![i].pids =
                                     IF @ = "null" THEN @ ELSE "freed"]
      <3>1. child_cgroups[i] \in Cgroup /\ Child(child_cgroups[i])
        BY ElementOfSeq, LenProperties DEF TypeInv, RowsType, Rows
      <3> DEFINE c == [child_cgroups[i] EXCEPT !.pids = IF @ = "null" THEN @ ELSE "freed"]
      <3>2. c \in Cgroup /\ Child(c)
        BY <3>1 DEF Cgroup, Child, Grows, Sound
      <3>3. child_cgroups' = [child_cgroups EXCEPT ![i] = c]
        BY <2>2
      <3> HIDE DEF c
      <3> QED
        BY <1>3, <3>2, <3>3, ReplaceRows DEF TypeInv
    <2> QED
      BY <1>1, <2>1, <2>2
  <1> QED
    BY <1>1, <1>2, <1>3, <1>4 DEF TypeInv

LEMMA StepType == TypeInv /\ [Next]_vars => TypeInv'
  <1> SUFFICES ASSUME TypeInv, [Next]_vars PROVE TypeInv'
    OBVIOUS
  <1>1. CASE volcom_rcsmngr_init \/ volcom_create_main_cgroup
    BY <1>1, InitCallType, CreateMainType
  <1>2. ASSUME NEW name \in Names, volcom_create_child_cgroup(name) PROVE TypeInv'
    BY <1>2, CreateChildType
  <1>3. ASSUME NEW name \in Names, volcom_delete_child_cgroup(name) PROVE TypeInv'
    BY <1>3, DeleteChildType DEF volcom_delete_child_cgroup
  <1>4. ASSUME NEW name \in Names \cup {Main}, volcom_get_cgroup_pids(name) PROVE TypeInv'
    <2>1. PICK c \in Target(name) : ReadPids(c)
      BY <1>4 DEF volcom_get_cgroup_pids
    <2>2. pc' \in {"ready", "delete_main", "crashed"}
      BY <2>1, BlameType DEF ReadPids
    <2>3. UNCHANGED <<manager, kernel, faults>>
      BY <2>1 DEF ReadPids
    <2>4. RowsType' /\ Len(child_cgroups') = Len(child_cgroups)
      BY <2>3, SameRows DEF manager, TypeInv
    <2> QED
      BY <2>2, <2>3, <2>4 DEF TypeInv, manager, kernel
  <1>5. ASSUME NEW name \in Names \cup {Main}, NEW p \in Pids,
               volcom_add_pid_to_cgroup(name, p) \/ volcom_remove_pid_from_cgroup(name, p)
        PROVE  TypeInv'
    BY <1>5, AddPidType, RemovePidType
  <1>6. CASE \/ volcom_delete_main_cgroup \/ Crash \/ UNCHANGED vars
             \/ \E p \in Pids : Exit(p)
    <2>1. /\ pc' \in {"ready", "delete_main", "crashed"}
          /\ UNCHANGED <<is_initialized, main_cgroup, child_cgroups, children, child_capacity,
                         dirs, faults>>
      BY <1>6 DEF volcom_delete_main_cgroup, Crash, Exit, vars, manager, kernel, TypeInv
    <2>2. member' \in [Pids -> Names \cup {"outside", "ended"}]
      BY <1>6 DEF volcom_delete_main_cgroup, Crash, Exit, vars, manager, kernel, TypeInv
    <2>3. RowsType' /\ Len(child_cgroups') = Len(child_cgroups)
      BY <2>1, SameRows DEF TypeInv
    <2> QED
      BY <2>1, <2>2, <2>3 DEF TypeInv
  <1>7. CASE DeleteNext
    BY <1>7, DeleteChildType DEF DeleteNext
  <1>8. CASE DeleteMain
    <2>1. RowsType' /\ Len(child_cgroups') = Len(child_cgroups)
      BY <1>8, SameRows DEF DeleteMain, TypeInv
    <2>2. /\ main_cgroup' \in Cgroup /\ main_cgroup'.name = Main
          /\ Sound(main_cgroup') /\ (Grows(main_cgroup) => Grows(main_cgroup'))
      BY <1>8 DEF DeleteMain, TypeInv, Cgroup, Grows, Sound
    <2>3. dirs' \subseteq Names \cup {Main} /\ pc' = "ready"
      BY <1>8 DEF DeleteMain, TypeInv
    <2> QED
      BY <1>8, <2>1, <2>2, <2>3 DEF DeleteMain, TypeInv
  <1>9. CASE volcom_rcsmngr_cleanup
    <2>1. pc' \in {"ready", "delete_main", "crashed"} /\ UNCHANGED <<kernel, faults>> /\ Zeroed
      BY <1>9, BlameType DEF volcom_rcsmngr_cleanup
    <2> QED
      BY <2>1, ZeroedType DEF TypeInv, kernel
  <1> QED
    BY <1>1, <1>2, <1>3, <1>4, <1>5, <1>6, <1>7, <1>8, <1>9 DEF Next

LEMMA TypeInvImplies == TypeInv => TypeOK
  <1> SUFFICES ASSUME TypeInv PROVE TypeOK
    OBVIOUS
  <1>1. CgroupType(main_cgroup)
    BY DEF TypeInv, Cgroup, CgroupType, Sound
  <1>2. ASSUME NEW i \in Rows PROVE CgroupType(child_cgroups[i])
    <2>1. child_cgroups[i] \in Cgroup /\ Child(child_cgroups[i])
      BY ElementOfSeq, LenProperties DEF TypeInv, RowsType, Rows
    <2> QED
      BY <2>1 DEF Cgroup, CgroupType, Child, Grows, Sound
  <1> QED
    BY <1>1, <1>2 DEF TypeInv, TypeOK

\* No row and no pid is ever written past the end of its array, whatever the
\* initial capacities (volcom_rcsmngr.c starts with 5 and 10), the names and the
\* number of refusals and failed allocations.
THEOREM TypeCorrect == Spec => []TypeOK
  <1>1. TypeInv /\ [Next]_vars => TypeInv'
    BY StepType
  <1>2. Spec => []TypeInv
    BY <1>1, InitType, PTL DEF Spec
  <1> QED
    BY <1>2, TypeInvImplies, PTL

-----------------------------------------------------------------------------
\* Deleting a child cgroup drops its row or keeps it with its list.
LEMMA DeleteChildRows ==
    ASSUME TypeInv, NEW name, DeleteChild(name)
    PROVE  /\ \A k \in Rows' : \E l \in Rows : child_cgroups'[k].list = child_cgroups[l].list
           /\ \A k \in Rows' : \E l \in Rows :
                 \/ child_cgroups'[k].pids = child_cgroups[l].pids
                 \/ child_cgroups'[k].pids = "freed" /\ "removal refused" \in slips'
  <1>1. PICK i \in Rows :
           \/ RemoveRow(i)
           \/ /\ child_cgroups' = [child_cgroups EXCEPT ![i].pids =
                                       IF @ = "null" THEN @ ELSE "freed"]
              /\ slips' = slips \cup {"removal refused"}
    BY DEF DeleteChild
  <1>2. CASE RemoveRow(i)
    BY <1>2, RemoveRows DEF TypeInv
  <1>3. CASE /\ child_cgroups' = [child_cgroups EXCEPT ![i].pids =
                                     IF @ = "null" THEN @ ELSE "freed"]
             /\ slips' = slips \cup {"removal refused"}
    <2>1. child_cgroups[i] \in Cgroup /\ Child(child_cgroups[i])
      BY RowType DEF TypeInv
    <2> DEFINE c == [child_cgroups[i] EXCEPT !.pids = IF @ = "null" THEN @ ELSE "freed"]
    <2>2. /\ c \in Cgroup /\ Child(c) /\ c.list = child_cgroups[i].list
          /\ c.pids = child_cgroups[i].pids \/ c.pids = "freed"
      BY <2>1 DEF Cgroup, Child, Grows, Sound
    <2>3. child_cgroups' = [child_cgroups EXCEPT ![i] = c]
      BY <1>3
    <2> HIDE DEF c
    <2>4. Rows' = Rows
          /\ \A k \in Rows : child_cgroups'[k] = IF k = i THEN c ELSE child_cgroups[k]
      BY <2>2, <2>3, ReplaceRows DEF TypeInv
    <2>5. \A k \in Rows' :
             /\ child_cgroups'[k].list = child_cgroups[k].list
             /\ child_cgroups'[k].pids = child_cgroups[k].pids \/ child_cgroups'[k].pids = "freed"
      BY <2>2, <2>4
    <2> QED
      BY <1>3, <2>4, <2>5
  <1> QED
    BY <1>1, <1>2, <1>3

\* The arrays.  HeapSound speaks of what went wrong; it is inductive together
\* with what the arrays are when nothing has gone wrong.

RowArrays == \A i \in Rows :
                /\ child_cgroups[i].pids = "freed" => "removal refused" \in slips
                /\ child_cgroups[i].pids = "null" => "out of memory" \in slips
HeapInv ==
    /\ HeapSound
    /\ ~is_initialized => child_cgroups = <<>> /\ main_cgroup.pids = "null" /\ children = "null"
    /\ main_cgroup.pids # "freed"
    /\ is_initialized /\ (main_cgroup.pids = "null" \/ children = "null")
          => "out of memory" \in slips
    /\ RowArrays

\* What a call may add to wrong, given the slips there are after it.
Allowed(what) ==
    /\ what \cap {"double free", "use after free"} # {} => "removal refused" \in slips'
    /\ "leak" \in what => slips' \cap {"initialized twice", "out of memory"} # {}
    /\ "null pointer" \in what => "out of memory" \in slips'

LEMMA BlameSound ==
    ASSUME HeapSound, slips \subseteq slips', NEW what, NEW next, Blame(what, next), Allowed(what)
    PROVE  HeapSound'
  BY DEF HeapSound, Blame, Allowed

LEMMA NoBlameSound ==
    ASSUME HeapSound, slips \subseteq slips', wrong' = wrong
    PROVE  HeapSound'
  BY DEF HeapSound

LEMMA AllowedCup ==
    ASSUME NEW a, NEW b, Allowed(a), Allowed(b)
    PROVE  Allowed(a \cup b)
  BY DEF Allowed

LEMMA ScanAllowed ==
    ASSUME TypeInv, HeapInv, slips \subseteq slips'
    PROVE  Allowed(Scan)
  BY DEF TypeInv, HeapInv, Scan, UseOf, Allowed

LEMMA FreeAllowed ==
    ASSUME NEW array, array = "freed" => "removal refused" \in slips'
    PROVE  Allowed(FreeOf(array))
  BY DEF FreeOf, Allowed

LEMMA UseAllowed ==
    ASSUME NEW array, array = "freed" => "removal refused" \in slips',
           array = "null" => "out of memory" \in slips'
    PROVE  Allowed(UseOf(array))
  BY DEF UseOf, Allowed

\* The cgroup a search finds has its array, but for the two slips.
LEMMA TargetArray ==
    ASSUME TypeInv, HeapInv, is_initialized, NEW name \in Names \cup {Main},
           NEW c \in Target(name)
    PROVE  /\ c.pids = "freed" => "removal refused" \in slips /\ name # Main
           /\ c.pids = "null" => "out of memory" \in slips
  <1>1. \/ name = Main /\ c = main_cgroup
        \/ name # Main /\ \E i \in Rows : c = child_cgroups[i]
    BY TargetType
  <1>2. main_cgroup.pids # "freed" /\ (main_cgroup.pids = "null" => "out of memory" \in slips)
    BY DEF HeapInv
  <1>3. ASSUME NEW i \in Rows, c = child_cgroups[i]
        PROVE  /\ c.pids = "freed" => "removal refused" \in slips
               /\ c.pids = "null" => "out of memory" \in slips
    BY <1>3 DEF HeapInv, RowArrays
  <1> QED
    BY <1>1, <1>2, <1>3

\* The cgroup found gets an array that is as good.
LEMMA ReplaceArrays ==
    ASSUME TypeInv, HeapInv, is_initialized, NEW name \in Names \cup {Main},
           NEW c \in Cgroup, c.name = name, Grows(c), Replace(name, c),
           UNCHANGED <<is_initialized, children>>, slips \subseteq slips', HeapSound',
           c.pids = "freed" => "removal refused" \in slips' /\ name # Main,
           c.pids = "null" => "out of memory" \in slips'
    PROVE  HeapInv'
  <1>0. /\ Rows' = Rows
        /\ main_cgroup.pids # "freed"
        /\ main_cgroup.pids = "null" \/ children = "null" => "out of memory" \in slips'
    BY ReplaceType DEF HeapInv
  <1>1. CASE name = Main /\ main_cgroup' = c /\ child_cgroups' = child_cgroups
    <2>1. RowArrays'
      BY <1>0, <1>1 DEF HeapInv, RowArrays
    <2> QED
      BY <1>0, <1>1, <2>1 DEF HeapInv
  <1>2. CASE /\ name # Main /\ main_cgroup' = main_cgroup
             /\ \E i \in Rows : \A k \in Rows :
                   child_cgroups'[k] = IF k = i THEN c ELSE child_cgroups[k]
    <2>1. PICK i \in Rows : \A k \in Rows :
                child_cgroups'[k] = IF k = i THEN c ELSE child_cgroups[k]
      BY <1>2
    <2>2. RowArrays'
      <3> SUFFICES ASSUME NEW k \in Rows
                   PROVE  /\ child_cgroups'[k].pids = "freed" => "removal refused" \in slips'
                          /\ child_cgroups'[k].pids = "null" => "out of memory" \in slips'
        BY <1>0 DEF RowArrays
      <3>1. CASE k = i
        BY <2>1, <3>1
      <3>2. CASE k # i
        BY <2>1, <3>2 DEF HeapInv, RowArrays
      <3> QED
        BY <3>1, <3>2
    <2> QED
      BY <1>0, <1>2, <2>2 DEF HeapInv
  <1>3. \/ name = Main /\ main_cgroup' = c /\ child_cgroups' = child_cgroups
        \/ /\ name # Main /\ main_cgroup' = main_cgroup
           /\ \E i \in Rows : \A k \in Rows :
                 child_cgroups'[k] = IF k = i THEN c ELSE child_cgroups[k]
    <2>1. CASE name # Main
      <3>1. PICK i \in Rows : /\ main_cgroup' = main_cgroup
                              /\ \A k \in Rows :
                                    child_cgroups'[k] = IF k = i THEN c ELSE child_cgroups[k]
        <4>1. /\ main_cgroup' = main_cgroup
              /\ \E i \in Rows :
                    /\ FirstRow(name, i)
                    /\ \A k \in Rows :
                          child_cgroups'[k] = IF k = i THEN c ELSE child_cgroups[k]
          BY <2>1, ReplaceType
        <4> QED
          BY <4>1
      <3> QED
        BY <2>1, <3>1
    <2>2. CASE name = Main
      BY <2>2, ReplaceType
    <2> QED
      BY <2>1, <2>2
  <1> QED
    BY <1>1, <1>2, <1>3

LEMMA InitCallHeap == TypeInv /\ HeapInv /\ volcom_rcsmngr_init => HeapInv'
  <1> SUFFICES ASSUME TypeInv, HeapInv, volcom_rcsmngr_init PROVE HeapInv'
    OBVIOUS
  <1> DEFINE arrays == {main_cgroup.pids, children} \cup {child_cgroups[i].pids : i \in Rows}
  <1>1. /\ Blame(LossOf(arrays), "ready") /\ slips \subseteq slips'
        /\ is_initialized => "initialized twice" \in slips'
    BY DEF volcom_rcsmngr_init
  <1>2. ~is_initialized => "live" \notin arrays
    <2> SUFFICES ASSUME ~is_initialized PROVE "live" \notin arrays
      OBVIOUS
    <2>1. child_cgroups = <<>> /\ main_cgroup.pids = "null" /\ children = "null"
      BY DEF HeapInv
    <2>2. Rows = {}
      BY <2>1, NoRowsType
    <2> QED
      BY <2>1, <2>2
  <1>3. Allowed(LossOf(arrays))
    BY <1>1, <1>2 DEF LossOf, Allowed
  <1>4. HeapSound'
    BY <1>1, <1>3, BlameSound DEF HeapInv
  <1>5. child_cgroups' = <<>> /\ RowArrays'
    <2>1. child_cgroups' = <<>>
      BY DEF volcom_rcsmngr_init, Zeroed
    <2>2. Rows' = {}
      BY <2>1, EmptySeq DEF Rows
    <2> QED
      BY <2>1, <2>2 DEF RowArrays
  <1>6. CASE Zeroed
    BY <1>4, <1>5, <1>6 DEF HeapInv, Zeroed, ZeroMain
  <1>7. CASE /\ is_initialized' = TRUE
             /\ main_cgroup' = [NewCgroup(Main) EXCEPT !.is_created = FALSE]
             /\ children' = "live"
    <2>1. main_cgroup'.pids = "live"
      BY <1>7 DEF NewCgroup
    <2> QED
      BY <1>4, <1>5, <1>7, <2>1 DEF HeapInv
  <1> QED
    BY <1>6, <1>7 DEF volcom_rcsmngr_init

\* A call that leaves the arrays and wrong alone.
LEMMA SameHeap ==
    ASSUME HeapInv, UNCHANGED <<is_initialized, child_cgroups, children, wrong>>,
           slips \subseteq slips', main_cgroup'.pids = main_cgroup.pids
    PROVE  HeapInv'
  <1>1. HeapSound'
    BY NoBlameSound DEF HeapInv
  <1>2. RowArrays'
    BY DEF HeapInv, RowArrays, Rows
  <1> QED
    BY <1>1, <1>2 DEF HeapInv

LEMMA CreateChildHeap ==
    ASSUME TypeInv, HeapInv, NEW name \in Names, volcom_create_child_cgroup(name)
    PROVE  HeapInv'
  <1>1. /\ is_initialized /\ UNCHANGED <<is_initialized, main_cgroup>> /\ slips \subseteq slips'
    BY DEF volcom_create_child_cgroup, MakeChild
  <1>2. HeapSound' /\ (children' = "null" => "out of memory" \in slips')
    <2>1. CASE /\ children' = IF TableFull /\ children = "null" THEN "live" ELSE children
               /\ Blame(UseOf(children'), "ready")
      <3>1. /\ children' = "null" => "out of memory" \in slips'
            /\ children' # "freed"
        BY <1>1, <2>1 DEF HeapInv, TypeInv
      <3>2. Allowed(UseOf(children'))
        BY <3>1, UseAllowed
      <3> QED
        BY <1>1, <2>1, <3>1, <3>2, BlameSound DEF HeapInv
    <2>2. CASE "out of memory" \in slips' /\ Blame(LossOf({children}), "ready")
      <3>1. Allowed(LossOf({children}))
        BY <2>2 DEF Allowed, LossOf
      <3> QED
        BY <1>1, <2>2, <3>1, BlameSound DEF HeapInv
    <2> QED
      BY <2>1, <2>2 DEF volcom_create_child_cgroup
  <1>3. RowArrays'
    <2>1. CASE child_cgroups' = child_cgroups
      BY <1>1, <2>1 DEF HeapInv, RowArrays, Rows
    <2>2. CASE child_cgroups' = Append(child_cgroups, NewCgroup(name))
      <3>1. /\ NewCgroup(name) \in Cgroup /\ Child(NewCgroup(name))
            /\ NewCgroup(name).pids = "live"
        BY NewType DEF Child, NewCgroup
      <3>2. \A k \in Rows' : \/ k \in Rows /\ child_cgroups'[k] = child_cgroups[k]
                            \/ child_cgroups'[k] = NewCgroup(name)
        BY <2>2, <3>1, AppendedRows DEF TypeInv
      <3> QED
        BY <1>1, <3>1, <3>2 DEF HeapInv, RowArrays
    <2> QED
      BY <2>1, <2>2, CreateChildType
  <1> QED
    BY <1>1, <1>2, <1>3 DEF HeapInv

LEMMA AddPidHeap ==
    ASSUME TypeInv, HeapInv, NEW name \in Names \cup {Main}, NEW p \in Pids,
           volcom_add_pid_to_cgroup(name, p)
    PROVE  HeapInv'
  <1>1. PICK c \in Target(name) : AddPid(name, c, p)
    BY DEF volcom_add_pid_to_cgroup
  <1>2. is_initialized /\ UNCHANGED <<is_initialized, children>> /\ slips \subseteq slips'
    BY <1>1 DEF volcom_add_pid_to_cgroup, AddPid
  <1>3. /\ c \in Cgroup /\ Grows(c) /\ c.name = name
        /\ c.pids = "freed" => "removal refused" \in slips /\ name # Main
        /\ c.pids = "null" => "out of memory" \in slips
    BY <1>2, TargetType, TargetArray
  <1>4. /\ Room(c) \in Cgroup /\ Grows(Room(c)) /\ Room(c).name = name
        /\ Room(c).pids = c.pids \/ Room(c).pids = "live"
    BY <1>3, RoomType
  <1>5. Allowed(Scan)
    BY <1>2, ScanAllowed
  <1>6. CASE /\ Replace(name, Recorded(c, p))
             /\ Blame(Scan \cup UseOf(Room(c).pids), "ready")
    <2>1. /\ Recorded(c, p) \in Cgroup /\ Grows(Recorded(c, p))
          /\ Recorded(c, p).name = name /\ Recorded(c, p).pids = Room(c).pids
      BY <1>3, RecordedType
    <2>2. /\ Room(c).pids = "freed" => "removal refused" \in slips' /\ name # Main
          /\ Room(c).pids = "null" => "out of memory" \in slips'
      BY <1>2, <1>3, <1>4
    <2>3. Allowed(Scan \cup UseOf(Room(c).pids))
      BY <1>5, <2>2, UseAllowed, AllowedCup
    <2>4. HeapSound'
      BY <1>2, <1>6, <2>3, BlameSound DEF HeapInv
    <2> QED
      BY <1>2, <1>6, <2>1, <2>2, <2>4, ReplaceArrays
  <1>7. CASE /\ Replace(name, [Room(c) EXCEPT !.pids = "null"])
             /\ Blame(Scan \cup LossOf({c.pids}), "ready")
             /\ slips' = slips \cup {"out of memory"}
    <2> DEFINE r == [Room(c) EXCEPT !.pids = "null"]
    <2>1. r \in Cgroup /\ Grows(r) /\ r.name = name /\ r.pids = "null"
      BY <1>4 DEF Cgroup, Grows, Sound
    <2>2. Allowed(LossOf({c.pids}))
      BY <1>7 DEF Allowed, LossOf
    <2>3. HeapSound'
      BY <1>2, <1>5, <1>7, <2>2, AllowedCup, BlameSound DEF HeapInv
    <2>4. Replace(name, r) /\ "out of memory" \in slips'
      BY <1>7
    <2> HIDE DEF r
    <2> QED
      BY <1>2, <2>1, <2>3, <2>4, ReplaceArrays
  <1> QED
    BY <1>1, <1>6, <1>7 DEF AddPid

LEMMA RemovePidHeap ==
    ASSUME TypeInv, HeapInv, NEW name \in Names \cup {Main}, NEW p \in Pids,
           volcom_remove_pid_from_cgroup(name, p)
    PROVE  HeapInv'
  <1>1. PICK c \in Target(name) : RemovePid(name, c, p)
    BY DEF volcom_remove_pid_from_cgroup
  <1>2. /\ is_initialized /\ UNCHANGED <<is_initialized, children>> /\ slips' = slips
        /\ Blame(Scan \cup UseOf(c.pids), "ready")
    BY <1>1 DEF volcom_remove_pid_from_cgroup, RemovePid
  <1>3. /\ c \in Cgroup /\ Grows(c) /\ c.name = name
        /\ c.pids = "freed" => "removal refused" \in slips' /\ name # Main
        /\ c.pids = "null" => "out of memory" \in slips'
    BY <1>2, TargetType, TargetArray
  <1>4. PICK k \in DOMAIN c.list : Replace(name, [c EXCEPT !.list = RemoveAt(@, k)])
    BY <1>1 DEF RemovePid
  <1>5. PICK r \in Cgroup :
           /\ r = [c EXCEPT !.list = RemoveAt(@, k)]
           /\ Grows(r) /\ r.name = c.name /\ r.pids = c.pids
           /\ \A i \in DOMAIN r.list : \E l \in DOMAIN c.list : r.list[i] = c.list[l]
    BY <1>3, ShrunkType
  <1>6. Replace(name, r)
    BY <1>4, <1>5
  <1>7. Allowed(Scan \cup UseOf(c.pids))
    BY <1>2, <1>3, ScanAllowed, UseAllowed, AllowedCup
  <1>8. HeapSound'
    BY <1>2, <1>7, BlameSound DEF HeapInv
  <1> QED
    BY <1>2, <1>3, <1>5, <1>6, <1>8, ReplaceArrays

LEMMA ReadPidsHeap ==
    ASSUME TypeInv, HeapInv, NEW name \in Names \cup {Main}, volcom_get_cgroup_pids(name)
    PROVE  HeapInv'
  <1>1. PICK c \in Target(name) : ReadPids(c)
    BY DEF volcom_get_cgroup_pids
  <1>2. /\ is_initialized /\ UNCHANGED manager /\ slips' = slips
        /\ Blame(Scan \cup UseOf(c.pids), "ready")
    BY <1>1 DEF volcom_get_cgroup_pids, ReadPids
  <1>3. /\ c.pids = "freed" => "removal refused" \in slips'
        /\ c.pids = "null" => "out of memory" \in slips'
    BY <1>2, TargetArray
  <1>4. Allowed(Scan \cup UseOf(c.pids))
    BY <1>2, <1>3, ScanAllowed, UseAllowed, AllowedCup
  <1>5. HeapSound'
    BY <1>2, <1>4, BlameSound DEF HeapInv
  <1>6. RowArrays'
    BY <1>2 DEF HeapInv, RowArrays, Rows, manager
  <1> QED
    BY <1>2, <1>5, <1>6 DEF HeapInv, manager

LEMMA DeleteChildHeap ==
    ASSUME TypeInv, HeapInv, is_initialized, NEW name, DeleteChild(name)
    PROVE  HeapInv'
  <1>1. PICK i \in Rows : /\ Blame(Scan \cup FreeOf(child_cgroups[i].pids), pc)
                          /\ UNCHANGED <<is_initialized, main_cgroup, children>>
                          /\ slips \subseteq slips'
    BY DEF DeleteChild
  <1>2. child_cgroups[i].pids = "freed" => "removal refused" \in slips'
    BY <1>1 DEF HeapInv, RowArrays
  <1>3. Allowed(Scan \cup FreeOf(child_cgroups[i].pids))
    BY <1>1, <1>2, ScanAllowed, FreeAllowed, AllowedCup
  <1>4. HeapSound'
    BY <1>1, <1>3, BlameSound DEF HeapInv
  <1>5. RowArrays'
    <2> SUFFICES ASSUME NEW k \in Rows'
                 PROVE  /\ child_cgroups'[k].pids = "freed" => "removal refused" \in slips'
                        /\ child_cgroups'[k].pids = "null" => "out of memory" \in slips'
      BY DEF RowArrays
    <2>1. PICK l \in Rows :
             \/ child_cgroups'[k].pids = child_cgroups[l].pids
             \/ child_cgroups'[k].pids = "freed" /\ "removal refused" \in slips'
      BY DeleteChildRows
    <2>2. /\ child_cgroups[l].pids = "freed" => "removal refused" \in slips'
          /\ child_cgroups[l].pids = "null" => "out of memory" \in slips'
      BY <1>1 DEF HeapInv, RowArrays
    <2> QED
      BY <2>1, <2>2
  <1> QED
    BY <1>1, <1>4, <1>5 DEF HeapInv

LEMMA CleanupHeap == TypeInv /\ HeapInv /\ volcom_rcsmngr_cleanup => HeapInv'
  <1> SUFFICES ASSUME TypeInv, HeapInv, volcom_rcsmngr_cleanup PROVE HeapInv'
    OBVIOUS
  <1> DEFINE rows == UNION {FreeOf(child_cgroups[i].pids) : i \in Rows}
  <1>1. /\ Blame(FreeOf(main_cgroup.pids) \cup Scan \cup FreeOf(children) \cup rows, "ready")
        /\ slips' = slips /\ Zeroed
    BY DEF volcom_rcsmngr_cleanup
  <1>2. Allowed(FreeOf(main_cgroup.pids)) /\ Allowed(FreeOf(children)) /\ Allowed(Scan)
    BY <1>1, FreeAllowed, ScanAllowed DEF HeapInv, TypeInv
  <1>3. Allowed(rows)
    <2>1. ASSUME NEW w \in rows PROVE w = "double free" /\ "removal refused" \in slips'
      <3>1. PICK i \in Rows : w \in FreeOf(child_cgroups[i].pids)
        OBVIOUS
      <3> QED
        BY <1>1, <3>1 DEF FreeOf, HeapInv, RowArrays
    <2> HIDE DEF rows
    <2> QED
      BY <2>1 DEF Allowed
  <1> HIDE DEF rows
  <1>4. Allowed(FreeOf(main_cgroup.pids) \cup Scan \cup FreeOf(children) \cup rows)
    BY <1>2, <1>3, AllowedCup
  <1>5. HeapSound'
    BY <1>1, <1>4, BlameSound DEF HeapInv
  <1>6. RowArrays'
    BY <1>1, ZeroedType DEF RowArrays
  <1> QED
    BY <1>1, <1>5, <1>6 DEF HeapInv, Zeroed, ZeroMain

LEMMA StepHeap == TypeInv /\ HeapInv /\ [Next]_vars => HeapInv'
  <1> SUFFICES ASSUME TypeInv, HeapInv, [Next]_vars PROVE HeapInv'
    OBVIOUS
  <1>1. CASE volcom_rcsmngr_init \/ volcom_rcsmngr_cleanup
    BY <1>1, InitCallHeap, CleanupHeap
  <1>2. CASE volcom_create_main_cgroup \/ DeleteMain
    <2>1. main_cgroup'.pids = main_cgroup.pids
      BY <1>2 DEF volcom_create_main_cgroup, DeleteMain, TypeInv, Cgroup
    <2> QED
      BY <1>2, <2>1, SameHeap DEF volcom_create_main_cgroup, DeleteMain
  <1>3. CASE \/ volcom_delete_main_cgroup \/ Crash \/ UNCHANGED vars
             \/ \E p \in Pids : Exit(p)
    BY <1>3, SameHeap DEF volcom_delete_main_cgroup, Crash, Exit, vars, manager
  <1>4. ASSUME NEW name \in Names,
               volcom_create_child_cgroup(name) \/ volcom_delete_child_cgroup(name)
        PROVE  HeapInv'
    BY <1>4, CreateChildHeap, DeleteChildHeap DEF volcom_delete_child_cgroup
  <1>5. ASSUME NEW name \in Names \cup {Main}, volcom_get_cgroup_pids(name) PROVE HeapInv'
    BY <1>5, ReadPidsHeap
  <1>6. ASSUME NEW name \in Names \cup {Main}, NEW p \in Pids,
               volcom_add_pid_to_cgroup(name, p) \/ volcom_remove_pid_from_cgroup(name, p)
        PROVE  HeapInv'
    BY <1>6, AddPidHeap, RemovePidHeap
  <1>7. CASE DeleteNext
    <2>1. is_initialized
      BY <1>7 DEF DeleteNext, HeapInv
    <2> QED
      BY <1>7, <2>1, DeleteChildHeap DEF DeleteNext
  <1> QED
    BY <1>1, <1>2, <1>3, <1>4, <1>5, <1>6, <1>7 DEF Next

\* No array is freed twice, used after it was freed, lost, or followed as a null
\* pointer, but for the reasons HeapSound names, for any number of cgroups, pids,
\* refusals and failed allocations.
THEOREM HeapCorrect == Spec => []HeapSound
  <1>1. Init => HeapInv
    <2> SUFFICES ASSUME Init PROVE HeapInv
      OBVIOUS
    <2>1. Rows = {}
      BY NoRowsType DEF Init
    <2>2. main_cgroup.pids = "null"
      BY DEF Init, ZeroMain
    <2> QED
      BY <2>1, <2>2 DEF Init, HeapInv, HeapSound, RowArrays
  <1>2. TypeInv /\ [Next]_vars => TypeInv'
    BY StepType
  <1>3. TypeInv /\ HeapInv /\ [Next]_vars => HeapInv'
    BY StepHeap
  <1>4. Spec => [](TypeInv /\ HeapInv)
    BY <1>1, <1>2, <1>3, InitType, PTL DEF Spec
  <1>5. HeapInv => HeapSound
    BY DEF HeapInv
  <1> QED
    BY <1>4, <1>5, PTL

-----------------------------------------------------------------------------
\* Table and directories.  RowsHaveDirectories is inductive together with the
\* names of the rows being different: a removal takes a directory that no other
\* row needs.

DirsAgree ==
    /\ \A i \in Rows : child_cgroups[i].name \in dirs
    /\ \A i, k \in Rows : child_cgroups[i].name = child_cgroups[k].name => i = k
    /\ main_cgroup.is_created => Main \in dirs
DirInv == slips \cap {"named twice", "out of memory"} = {} => DirsAgree

LEMMA DirInvImplies == DirInv => RowsHaveDirectories
  BY DEF DirInv, DirsAgree, RowsHaveDirectories, Children

\* Calls under which no row gets another name and no directory goes.
LEMMA NamesStay ==
    ASSUME DirInv, slips \subseteq slips', dirs \subseteq dirs',
           main_cgroup'.is_created => main_cgroup.is_created \/ Main \in dirs',
           Rows' \subseteq Rows,
           \A i \in Rows' : child_cgroups'[i].name = child_cgroups[i].name
    PROVE  DirInv'
  <1> SUFFICES ASSUME slips' \cap {"named twice", "out of memory"} = {} PROVE DirsAgree'
    BY DEF DirInv
  <1>1. DirsAgree
    BY DEF DirInv
  <1> QED
    BY <1>1 DEF DirsAgree

LEMMA SameRowsNames ==
    ASSUME DirInv, slips \subseteq slips', dirs \subseteq dirs',
           main_cgroup'.is_created => main_cgroup.is_created \/ Main \in dirs',
           child_cgroups' = child_cgroups \/ child_cgroups' = <<>>
    PROVE  DirInv'
  <1>1. Rows' \subseteq Rows /\ \A i \in Rows' : child_cgroups'[i].name = child_cgroups[i].name
    BY NoRowsType DEF Rows
  <1> QED
    BY <1>1, NamesStay

\* The cgroup found gets another content, but keeps its name and its state.
LEMMA ReplaceDirs ==
    ASSUME TypeInv, DirInv, is_initialized, NEW name \in Names \cup {Main},
           NEW c \in Target(name), NEW r \in Cgroup, Grows(r), Replace(name, r),
           r.name = name, r.is_created = c.is_created,
           slips \subseteq slips', dirs' = dirs
    PROVE  DirInv'
  <1>1. /\ c.name = name
        /\ \/ name = Main /\ c = main_cgroup
           \/ name # Main /\ \E i \in Rows : FirstRow(name, i) /\ c = child_cgroups[i]
    BY TargetType
  <1>2. /\ Rows' = Rows
        /\ \/ name = Main /\ main_cgroup' = r /\ child_cgroups' = child_cgroups
           \/ /\ name # Main /\ main_cgroup' = main_cgroup
              /\ \E i \in Rows :
                    /\ FirstRow(name, i)
                    /\ \A k \in Rows : child_cgroups'[k] = IF k = i THEN r ELSE child_cgroups[k]
    BY ReplaceType
  <1>3. main_cgroup'.is_created => main_cgroup.is_created
    BY <1>1, <1>2
  <1>4. \A k \in Rows : child_cgroups'[k].name = child_cgroups[k].name
    BY <1>1, <1>2 DEF FirstRow
  <1> QED
    BY <1>2, <1>3, <1>4, NamesStay

LEMMA AddPidDirs ==
    ASSUME TypeInv, DirInv, NEW name \in Names \cup {Main}, NEW p \in Pids,
           volcom_add_pid_to_cgroup(name, p)
    PROVE  DirInv'
  <1>1. PICK c \in Target(name) : AddPid(name, c, p)
    BY DEF volcom_add_pid_to_cgroup
  <1>2. is_initialized /\ slips \subseteq slips' /\ dirs' = dirs
    BY <1>1 DEF volcom_add_pid_to_cgroup, AddPid
  <1>3. c \in Cgroup /\ Grows(c) /\ c.name = name
    BY <1>2, TargetType
  <1>4. /\ Room(c) \in Cgroup /\ Grows(Room(c)) /\ Room(c).name = name
        /\ Room(c).is_created = c.is_created
    BY <1>3, RoomType DEF Room, Cgroup
  <1>5. CASE Replace(name, Recorded(c, p))
    <2>1. /\ Recorded(c, p) \in Cgroup /\ Grows(Recorded(c, p)) /\ Recorded(c, p).name = name
      BY <1>3, RecordedType
    <2>2. Recorded(c, p).is_created = c.is_created
      BY <1>4 DEF Recorded, Cgroup
    <2> QED
      BY <1>2, <1>5, <2>1, <2>2, ReplaceDirs
  <1>6. CASE Replace(name, [Room(c) EXCEPT !.pids = "null"])
    <2> DEFINE r == [Room(c) EXCEPT !.pids = "null"]
    <2>1. r \in Cgroup /\ Grows(r) /\ r.name = name /\ r.is_created = c.is_created
      BY <1>4 DEF Cgroup, Grows, Sound
    <2> QED
      BY <1>2, <1>6, <2>1, ReplaceDirs
  <1> QED
    BY <1>1, <1>5, <1>6 DEF AddPid

LEMMA RemovePidDirs ==
    ASSUME TypeInv, DirInv, NEW name \in Names \cup {Main}, NEW p \in Pids,
           volcom_remove_pid_from_cgroup(name, p)
    PROVE  DirInv'
  <1>1. PICK c \in Target(name) : RemovePid(name, c, p)
    BY DEF volcom_remove_pid_from_cgroup
  <1>2. is_initialized /\ slips' = slips /\ dirs' = dirs
    BY <1>1 DEF volcom_remove_pid_from_cgroup, RemovePid, kernel
  <1>3. c \in Cgroup /\ Grows(c) /\ c.name = name
    BY <1>2, TargetType
  <1>4. PICK k \in DOMAIN c.list : Replace(name, [c EXCEPT !.list = RemoveAt(@, k)])
    BY <1>1 DEF RemovePid
  <1> DEFINE r == [c EXCEPT !.list = RemoveAt(@, k)]
  <1>5. r \in Cgroup /\ Grows(r)
    BY <1>3, ShrunkType
  <1>6. r.name = name /\ r.is_created = c.is_created
    BY <1>3 DEF Cgroup
  <1> QED
    BY <1>2, <1>4, <1>5, <1>6, ReplaceDirs

LEMMA DomainInt ==
    ASSUME NEW S, NEW q \in Seq(S)
    PROVE  DOMAIN q \subseteq Int
  BY LenProperties

LEMMA OneMore ==
    ASSUME NEW n \in Nat, NEW i \in 1 .. n + 1, NEW k \in 1 .. n + 1,
           i \notin 1 .. n, k \notin 1 .. n
    PROVE  i = k
  OBVIOUS

LEMMA CreateChildDirs ==
    ASSUME TypeInv, DirInv, NEW name \in Names, volcom_create_child_cgroup(name)
    PROVE  DirInv'
  <1>1. slips \subseteq slips' /\ main_cgroup' = main_cgroup
    BY DEF volcom_create_child_cgroup, MakeChild
  <1>2. CASE "out of memory" \in slips'
    BY <1>2 DEF DirInv
  <1>3. CASE /\ child_cgroups' = Append(child_cgroups, NewCgroup(name))
             /\ dirs' = dirs \cup {name}
             /\ slips' = IF name \in Children THEN slips \cup {"named twice"} ELSE slips
    <2> SUFFICES ASSUME slips' \cap {"named twice", "out of memory"} = {} PROVE DirsAgree'
      BY DEF DirInv
    <2>1. DirsAgree
      BY <1>1 DEF DirInv
    <2>2. \A i \in Rows : child_cgroups[i].name # name
      BY <1>3 DEF Children
    <2>3. NewCgroup(name) \in Cgroup /\ Child(NewCgroup(name)) /\ NewCgroup(name).name = name
      BY NewType DEF Child
    <2>4. /\ Len(child_cgroups') = Len(child_cgroups) + 1
          /\ \A k \in Rows' : \/ k \in Rows /\ child_cgroups'[k] = child_cgroups[k]
                              \/ k \notin Rows /\ child_cgroups'[k] = NewCgroup(name)
      BY <1>3, <2>3, AppendedRows DEF TypeInv
    <2>5. \A i, k \in Rows' : i \notin Rows /\ k \notin Rows => i = k
      <3>1. child_cgroups \in Seq(Cgroup) /\ child_cgroups' \in Seq(Cgroup)
        BY CreateChildType DEF TypeInv, RowsType
      <3>2. /\ Len(child_cgroups) \in Nat
            /\ Rows = 1 .. Len(child_cgroups) /\ Rows' = 1 .. Len(child_cgroups) + 1
        BY <2>4, <3>1, LenProperties DEF Rows
      <3> QED
        BY <3>2, OneMore
    <2> QED
      BY <1>1, <1>3, <2>1, <2>2, <2>3, <2>4, <2>5 DEF DirsAgree
  <1>4. CASE child_cgroups' = child_cgroups /\ dirs \subseteq dirs'
    BY <1>1, <1>4, SameRowsNames
  <1> QED
    BY <1>2, <1>3, <1>4 DEF volcom_create_child_cgroup, MakeChild

\* Places behind the one that was removed move up by one, so that different
\* places come from different ones.
LEMMA ShiftBack ==
    ASSUME NEW i \in Int, NEW j \in Int, NEW k \in Int, NEW l \in Int,
           j < i => l = j, j >= i => l = j + 1,
           k < i => l = k, k >= i => l = k + 1
    PROVE  j = k
  <1>1. CASE j < i /\ k < i
    BY <1>1
  <1>2. CASE j < i /\ k >= i
    BY <1>2
  <1>3. CASE j >= i /\ k < i
    BY <1>3
  <1>4. CASE j >= i /\ k >= i
    BY <1>4
  <1> QED
    BY <1>1, <1>2, <1>3, <1>4

LEMMA DeleteChildDirs ==
    ASSUME TypeInv, DirInv, NEW name \in Names, DeleteChild(name)
    PROVE  DirInv'
  <1>1. PICK i \in Rows :
           /\ FirstRow(name, i)
           /\ main_cgroup' = main_cgroup
           /\ \/ dirs' = dirs \ {name} /\ RemoveRow(i) /\ slips' = slips
              \/ /\ child_cgroups' = [child_cgroups EXCEPT ![i].pids =
                                         IF @ = "null" THEN @ ELSE "freed"]
                 /\ slips' = slips \cup {"removal refused"} /\ dirs' = dirs
    BY DEF DeleteChild
  <1>2. CASE dirs' = dirs \ {name} /\ RemoveRow(i) /\ slips' = slips
    <2> SUFFICES ASSUME slips' \cap {"named twice", "out of memory"} = {} PROVE DirsAgree'
      BY DEF DirInv
    <2>1. DirsAgree
      BY <1>2 DEF DirInv
    <2>2. /\ Len(child_cgroups') = Len(child_cgroups) - 1 /\ Len(child_cgroups) \in Nat
          /\ \A k \in Rows' : \E l \in Rows \ {i} :
                child_cgroups'[k] = child_cgroups[l] /\ (k < i => l = k) /\ (k >= i => l = k + 1)
      BY <1>2, RemoveRows DEF TypeInv
    <2>3. Rows \subseteq Int /\ Rows' \subseteq Int
      <3>1. child_cgroups \in Seq(Cgroup) /\ child_cgroups' \in Seq(Cgroup)
        BY <1>2, RemoveRows DEF TypeInv, RowsType
      <3>2. DOMAIN child_cgroups \subseteq Int /\ DOMAIN child_cgroups' \subseteq Int
        BY <3>1, DomainInt
      <3> QED
        BY <3>2 DEF Rows
    <2>4. child_cgroups[i].name = name /\ name # Main
      BY <1>1, NamesAssumption DEF FirstRow
    <2>5. ASSUME NEW k \in Rows' PROVE child_cgroups'[k].name \in dirs'
      <3>1. PICK l \in Rows \ {i} : child_cgroups'[k] = child_cgroups[l]
        BY <2>2
      <3>2. child_cgroups[l].name \in dirs /\ child_cgroups[l].name # name
        BY <2>1, <2>4 DEF DirsAgree
      <3> QED
        BY <1>2, <3>1, <3>2
    <2>6. ASSUME NEW j \in Rows', NEW k \in Rows',
                 child_cgroups'[j].name = child_cgroups'[k].name
          PROVE  j = k
      <3>1. PICK l \in Rows : /\ child_cgroups'[j] = child_cgroups[l]
                              /\ (j < i => l = j) /\ (j >= i => l = j + 1)
        BY <2>2
      <3>2. PICK m \in Rows : /\ child_cgroups'[k] = child_cgroups[m]
                              /\ (k < i => m = k) /\ (k >= i => m = k + 1)
        BY <2>2
      <3>3. l = m
        BY <2>1, <2>6, <3>1, <3>2 DEF DirsAgree
      <3>4. i \in Int /\ j \in Int /\ k \in Int /\ l \in Int
        BY <2>3
      <3>5. /\ j < i => l = j
            /\ j >= i => l = j + 1
            /\ k < i => l = k
            /\ k >= i => l = k + 1
        BY <3>1, <3>2, <3>3
      <3> QED
        BY <3>4, <3>5, ShiftBack
    <2>7. main_cgroup'.is_created => Main \in dirs'
      BY <1>1, <1>2, <2>1, <2>4 DEF DirsAgree
    <2> QED
      BY <2>5, <2>6, <2>7 DEF DirsAgree
  <1>3. CASE /\ child_cgroups' = [child_cgroups EXCEPT ![i].pids =
                                     IF @ = "null" THEN @ ELSE "freed"]
             /\ slips' = slips \cup {"removal refused"} /\ dirs' = dirs
    <2>1. child_cgroups[i] \in Cgroup /\ Child(child_cgroups[i])
      BY RowType DEF TypeInv
    <2> DEFINE c == [child_cgroups[i] EXCEPT !.pids = IF @ = "null" THEN @ ELSE "freed"]
    <2>2. c \in Cgroup /\ Child(c) /\ c.name = child_cgroups[i].name
      BY <2>1 DEF Cgroup, Child, Grows, Sound
    <2>3. child_cgroups' = [child_cgroups EXCEPT ![i] = c]
      BY <1>3
    <2> HIDE DEF c
    <2>4. Rows' = Rows
          /\ \A k \in Rows : child_cgroups'[k] = IF k = i THEN c ELSE child_cgroups[k]
      BY <2>2, <2>3, ReplaceRows DEF TypeInv
    <2> QED
      BY <1>1, <1>3, <2>2, <2>4, NamesStay
  <1> QED
    BY <1>1, <1>2, <1>3

LEMMA StepDirs == TypeInv /\ DirInv /\ [Next]_vars => DirInv'
  <1> SUFFICES ASSUME TypeInv, DirInv, [Next]_vars PROVE DirInv'
    OBVIOUS
  <1>1. CASE \/ volcom_delete_main_cgroup \/ Crash \/ UNCHANGED vars
             \/ \E p \in Pids : Exit(p)
             \/ \E name \in Names \cup {Main} : volcom_get_cgroup_pids(name)
    BY <1>1, SameRowsNames DEF volcom_delete_main_cgroup, Crash, Exit, volcom_get_cgroup_pids,
       ReadPids, vars, manager, kernel
  <1>2. CASE volcom_rcsmngr_init \/ volcom_rcsmngr_cleanup
    <2>1. /\ slips \subseteq slips' /\ dirs' = dirs /\ child_cgroups' = <<>>
          /\ main_cgroup'.is_created = FALSE
      <3>1. ASSUME Zeroed PROVE child_cgroups' = <<>> /\ main_cgroup'.is_created = FALSE
        BY <3>1 DEF Zeroed, ZeroMain
      <3>2. [NewCgroup(Main) EXCEPT !.is_created = FALSE].is_created = FALSE
        BY DEF NewCgroup
      <3> QED
        BY <1>2, <3>1, <3>2 DEF volcom_rcsmngr_init, volcom_rcsmngr_cleanup, kernel
    <2> QED
      BY <2>1, SameRowsNames
  <1>3. CASE volcom_create_main_cgroup
    <2>1. /\ slips' = slips /\ dirs \subseteq dirs' /\ child_cgroups' = child_cgroups
          /\ main_cgroup' = main_cgroup \/ Main \in dirs'
      BY <1>3 DEF volcom_create_main_cgroup
    <2> QED
      BY <2>1, SameRowsNames
  <1>4. CASE DeleteMain
    <2>1. CASE main_cgroup' = main_cgroup /\ dirs' = dirs
      BY <1>4, <2>1, SameRowsNames DEF DeleteMain
    <2>2. CASE main_cgroup' = [main_cgroup EXCEPT !.is_created = FALSE]
      <3>1. main_cgroup'.is_created = FALSE
        BY <2>2 DEF TypeInv, Cgroup
      <3>2. Rows' = {}
        BY <1>4, NoRowsType DEF DeleteMain, Rows
      <3> QED
        BY <3>1, <3>2 DEF DirInv, DirsAgree
    <2> QED
      BY <1>4, <2>1, <2>2 DEF DeleteMain
  <1>5. ASSUME NEW name \in Names,
               volcom_create_child_cgroup(name) \/ volcom_delete_child_cgroup(name)
        PROVE  DirInv'
    BY <1>5, CreateChildDirs, DeleteChildDirs DEF volcom_delete_child_cgroup
  <1>6. ASSUME NEW name \in Names \cup {Main}, NEW p \in Pids,
               volcom_add_pid_to_cgroup(name, p) \/ volcom_remove_pid_from_cgroup(name, p)
        PROVE  DirInv'
    BY <1>6, AddPidDirs, RemovePidDirs
  <1>7. CASE DeleteNext
    <2>1. child_cgroups # <<>> /\ DeleteChild(child_cgroups[1].name)
      BY <1>7 DEF DeleteNext
    <2>2. 1 \in Rows
      BY <2>1, EmptySeq, LenProperties DEF TypeInv, RowsType, Rows
    <2> QED
      BY <2>1, <2>2, DeleteChildDirs DEF TypeInv, RowsType, Child
  <1> QED
    BY <1>1, <1>2, <1>3, <1>4, <1>5, <1>6, <1>7 DEF Next

LEMMA AlwaysDirs == Spec => [](TypeInv /\ DirInv)
  <1>1. Init => DirInv
    <2> SUFFICES ASSUME Init PROVE DirInv
      OBVIOUS
    <2>1. Rows = {}
      BY NoRowsType DEF Init
    <2> QED
      BY <2>1 DEF Init, DirInv, DirsAgree, ZeroMain
  <1>2. TypeInv /\ [Next]_vars => TypeInv'
    BY StepType
  <1>3. TypeInv /\ DirInv /\ [Next]_vars => DirInv'
    BY StepDirs
  <1> QED
    BY <1>1, <1>2, <1>3, InitType, PTL DEF Spec

\* Each row of the table has its directory, under the main one, through every
\* order of creating, refused removal, deleting and starting anew, unless a name
\* was given twice or memory ran out (volcom_rcsmngr.c).
THEOREM RowsKeepDirectories == Spec => []RowsHaveDirectories
  BY AlwaysDirs, DirInvImplies, PTL

-----------------------------------------------------------------------------
LEMMA RemovalShortens ==
    ASSUME RowsType, NEW i \in Rows, RemoveRow(i)
    PROVE  Len(child_cgroups') < Len(child_cgroups)
  <1>1. Len(child_cgroups') = Len(child_cgroups) - 1 /\ Len(child_cgroups) \in Nat
    BY RemoveRows
  <1>2. \A n \in Nat : n - 1 < n
    OBVIOUS
  <1> QED
    BY <1>1, <1>2

\* A round of volcom_delete_main_cgroup, which goes on until no child is left,
\* takes a row away or is at a cgroup in which some process runs: the loop can
\* only spin while there is one (volcom_rcsmngr.c 287-289).  It is what
\* DeleteMainEnds says of a step.  A name given twice, or memory that ran out,
\* leaves rows without a directory, at which the loop does spin for ever.
RoundRemoves ==
    DeleteNext =>
        \/ Len(child_cgroups') < Len(child_cgroups)
        \/ \E p \in Pids : member[p] = child_cgroups[1].name
        \/ slips \cap {"named twice", "out of memory"} # {}

THEOREM RoundsMakeProgress == Spec => [][RoundRemoves]_vars
  <1>1. TypeInv /\ DirInv => RoundRemoves
    <2> SUFFICES ASSUME TypeInv, DirInv, DeleteNext,
                        slips \cap {"named twice", "out of memory"} = {},
                        \A p \in Pids : member[p] # child_cgroups[1].name
                 PROVE  Len(child_cgroups') < Len(child_cgroups)
      BY DEF RoundRemoves
    <2> DEFINE name == child_cgroups[1].name
    <2>1. child_cgroups # <<>> /\ DeleteChild(name)
      BY DEF DeleteNext
    <2>2. PICK i \in Rows :
             /\ FirstRow(name, i)
             /\ (Removable(name) /\ RemoveRow(i)) \/ ~Removable(name)
      BY <2>1 DEF DeleteChild
    <2>3. RowsType /\ name = child_cgroups[i].name
      BY <2>2 DEF FirstRow, TypeInv
    <2>4. name \in dirs /\ name # Main
      BY <2>2, <2>3, NamesAssumption DEF DirInv, DirsAgree, RowsType, Child
    <2>5. Removable(name)
      BY <2>4 DEF Removable
    <2> QED
      BY <2>2, <2>3, <2>5, RemovalShortens
  <1> QED
    BY <1>1, AlwaysDirs, PTL DEF Spec
===============================================================================
