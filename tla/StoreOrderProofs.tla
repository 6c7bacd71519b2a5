-------------------------- MODULE StoreOrderProofs --------------------------
(***************************************************************************)
(* Theorems about the order of the write path: an event is in one place,   *)
(* a table has it once and in the order of acceptance, and the loop never  *)
(* waits with a full batch.                                                *)
(***************************************************************************)
EXTENDS StoreProofs, WellFoundedInduction

-----------------------------------------------------------------------------
(* The largest rowid of a table                                            *)

Bounded(rows) == \E m \in Nat : \A r \in rows : r.rowid <= m

(* The rowid SQLite counts on from is the largest of the table.             *)
LEMMA LastRowidIsLargest ==
    ASSUME NEW rows \in SUBSET Row, Bounded(rows)
    PROVE  \A r \in rows : r.rowid <= LastRowid(rows)
<1> DEFINE T == {m \in Nat : \A r \in rows : r.rowid <= m}
           R == OpToRel(<, Nat)
<1>1. CASE rows = {}
  BY <1>1
<1>2. CASE rows # {}
  <2>1. IsWellFoundedOn(R, Nat)
    BY NatLessThanWellFounded
  <2>2. T \subseteq Nat /\ T # {}
    BY DEF Bounded
  <2> HIDE DEF R, T
  <2>3. PICK m \in T : \A n \in T : <<n, m>> \notin R
    BY <2>1, <2>2, WFMin
  <2>4. m \in Nat /\ \A r \in rows : r.rowid <= m
    BY <2>3 DEF T
  <2>5. \A n \in T : ~(n < m)
    BY <2>2, <2>3 DEF R, OpToRel
  <2>6. \E r \in rows : r.rowid = m
    <3>1. SUFFICES ASSUME \A r \in rows : r.rowid # m PROVE FALSE
      OBVIOUS
    <3>2. PICK q \in rows : TRUE
      BY <1>2
    <3>3. m - 1 \in Nat
      BY <2>4, <3>1, <3>2 DEF Row
    <3>4. \A r \in rows : r.rowid <= m - 1
      BY <2>4, <3>1 DEF Row
    <3> QED BY <2>4, <2>5, <3>3, <3>4 DEF T
  <2>7. LastRow(rows) # {}
    BY <2>4, <2>6 DEF LastRow
  <2>8. PICK r \in LastRow(rows) : LastRowid(rows) = r.rowid
    BY <2>7 DEF LastRowid
  <2> QED BY <2>8 DEF LastRow
<1> QED BY <1>1, <1>2

-----------------------------------------------------------------------------
(* The order of one kind: the events in its channel c, in the pending batch *)
(* p and in the urgent write u, its rows, and the number n of the events    *)
(* accepted so far.  Only the rows of system events, which bypass the       *)
(* batch, may be older than an event of the batch.                          *)

Ascending(s) == \A i, j \in DOMAIN s : i < j => s[i].id < s[j].id

Below(s, t) == \A i \in DOMAIN s, j \in DOMAIN t : s[i].id < t[j].id

FlightOrder(c, p, u, n) ==
    /\ Ascending(c) /\ Ascending(p) /\ Below(p, c) /\ Below(u, c) /\ Len(u) <= 1
    /\ \A i \in DOMAIN c : c[i].id <= n
    /\ \A i \in DOMAIN p : p[i].id <= n
    /\ \A i \in DOMAIN u : u[i].id <= n /\ \A j \in DOMAIN p : u[i].id # p[j].id

TableOrder(k, rows) ==
    /\ Bounded(rows)
    /\ \A r, q \in rows : r.id = q.id \/ r.rowid = q.rowid => r = q
    /\ k # System => \A r, q \in rows : r.rowid < q.rowid => r.id < q.id

Written(k, c, p, u, rows, n) ==
    \A r \in rows :
        /\ r.id <= n
        /\ \A i \in DOMAIN c : r.id < c[i].id
        /\ \A i \in DOMAIN p : r.id # p[i].id /\ (k # System => r.id < p[i].id)
        /\ \A i \in DOMAIN u : r.id # u[i].id

KindOrder(k, c, p, u, rows, n) ==
    /\ FlightOrder(c, p, u, n)
    /\ TableOrder(k, rows)
    /\ Written(k, c, p, u, rows, n)

(* Ids, time stamps and rowids are numbers.                                 *)
LEMMA IdsAreNumbers ==
    /\ \A s \in Seq(Event) : \A i \in DOMAIN s : s[i].id \in Nat /\ s[i].ts \in Nat
    /\ \A rows \in SUBSET Row : \A r \in rows : r.id \in Nat /\ r.rowid \in Nat
<1>1. ASSUME NEW s \in Seq(Event), NEW i \in DOMAIN s
      PROVE  s[i].id \in Nat /\ s[i].ts \in Nat
  <2>1. s[i] \in Event
    OBVIOUS
  <2> QED BY <2>1 DEF Event
<1>2. ASSUME NEW rows \in SUBSET Row, NEW r \in rows
      PROVE  r.id \in Nat /\ r.rowid \in Nat
  BY DEF Row
<1> QED BY <1>1, <1>2

(* A channel appends the event it accepts (a send, ReportSys).              *)
LEMMA AcceptKeepsOrder ==
    ASSUME NEW k, NEW c \in Seq(Event), NEW p \in Seq(Event), NEW u \in Seq(Event),
           NEW rows \in SUBSET Row, NEW n \in Nat, NEW t \in Nat,
           KindOrder(k, c, p, u, rows, n)
    PROVE  KindOrder(k, Append(c, [id |-> n + 1, ts |-> t]), p, u, rows, n + 1)
<1> DEFINE d == Append(c, [id |-> n + 1, ts |-> t])
<1>1. /\ d \in Seq(Event) /\ DOMAIN d = 1..(Len(c) + 1) /\ DOMAIN c = 1..Len(c)
      /\ d[Len(c) + 1].id = n + 1 /\ \A i \in 1..Len(c) : d[i] = c[i]
      /\ Len(c) \in Nat
  BY DEF Event
<1>2. /\ \A i \in DOMAIN p : p[i].id \in Nat
      /\ \A i \in DOMAIN u : u[i].id \in Nat
      /\ \A i \in DOMAIN c : c[i].id \in Nat
      /\ \A r \in rows : r.id \in Nat
  BY IdsAreNumbers
<1> HIDE DEF d
<1>a. /\ Ascending(c) /\ Below(p, c) /\ Below(u, c)
      /\ \A i \in DOMAIN c : c[i].id <= n
      /\ \A i \in DOMAIN p : p[i].id <= n
      /\ \A i \in DOMAIN u : u[i].id <= n
  BY DEF KindOrder, FlightOrder
<1>3. FlightOrder(d, p, u, n + 1)
  <2>1. Ascending(d)
    <3> SUFFICES ASSUME NEW i \in DOMAIN d, NEW j \in DOMAIN d, i < j
                 PROVE  d[i].id < d[j].id
      BY DEF Ascending
    <3>1. i \in DOMAIN c /\ d[i] = c[i]
      BY <1>1
    <3>2. CASE j = Len(c) + 1
      BY <1>1, <1>2, <1>a, <3>1, <3>2
    <3>3. CASE j # Len(c) + 1
      <4>1. j \in DOMAIN c /\ d[j] = c[j]
        BY <1>1, <3>3
      <4> QED BY <1>a, <3>1, <4>1 DEF Ascending
    <3> QED BY <3>2, <3>3
  <2>2. ASSUME NEW s \in {p, u} PROVE Below(s, d)
    <3> SUFFICES ASSUME NEW i \in DOMAIN s, NEW j \in DOMAIN d
                 PROVE  s[i].id < d[j].id
      BY DEF Below
    <3>1. s[i].id \in Nat /\ s[i].id <= n
      BY <1>2, <1>a
    <3>2. CASE j = Len(c) + 1
      BY <1>1, <3>1, <3>2
    <3>3. CASE j # Len(c) + 1
      BY <1>1, <1>a, <3>3 DEF Below
    <3> QED BY <3>2, <3>3
  <2>3. \A i \in DOMAIN d : d[i].id <= n + 1
    BY <1>1, <1>2, <1>a
  <2>4. \A i \in DOMAIN p : p[i].id <= n + 1
    BY <1>2, <1>a
  <2>5. \A i \in DOMAIN u : u[i].id <= n + 1
    BY <1>2, <1>a
  <2> QED BY <2>1, <2>2, <2>3, <2>4, <2>5 DEF KindOrder, FlightOrder
<1>4. Written(k, d, p, u, rows, n + 1)
  <2>1. \A r \in rows : r.id <= n /\ r.id <= n + 1
    BY <1>2 DEF KindOrder, Written
  <2>2. ASSUME NEW r \in rows, NEW j \in DOMAIN d PROVE r.id < d[j].id
    BY <1>1, <1>2, <2>1 DEF KindOrder, Written
  <2> QED BY <2>1, <2>2 DEF KindOrder, Written
<1>5. KindOrder(k, d, p, u, rows, n + 1)
  BY <1>3, <1>4 DEF KindOrder
<1> QED BY <1>5 DEF d

(* The head of the channel goes to the end of the batch (the select,        *)
(* Drain).                                                                  *)
LEMMA EnqueueKeepsOrder ==
    ASSUME NEW k, NEW c \in Seq(Event), NEW p \in Seq(Event), NEW u \in Seq(Event),
           NEW rows \in SUBSET Row, NEW n \in Nat, c # <<>>,
           KindOrder(k, c, p, u, rows, n)
    PROVE  KindOrder(k, Tail(c), Append(p, Head(c)), u, rows, n)
<1> DEFINE d == Tail(c)
           b == Append(p, Head(c))
<1>1. /\ Len(c) \in Nat \ {0} /\ DOMAIN c = 1..Len(c)
      /\ DOMAIN d = 1..(Len(c) - 1) /\ \A i \in DOMAIN d : d[i] = c[i + 1]
  OBVIOUS
<1>2. /\ Len(p) \in Nat /\ DOMAIN p = 1..Len(p) /\ DOMAIN b = 1..(Len(p) + 1)
      /\ b[Len(p) + 1] = c[1] /\ \A i \in DOMAIN p : b[i] = p[i]
  OBVIOUS
<1>3. /\ \A i \in DOMAIN p : p[i].id \in Nat
      /\ \A i \in DOMAIN u : u[i].id \in Nat
      /\ \A i \in DOMAIN c : c[i].id \in Nat
      /\ \A r \in rows : r.id \in Nat
  BY IdsAreNumbers
<1> HIDE DEF d, b
<1>a. /\ Ascending(c) /\ Ascending(p) /\ Below(p, c) /\ Below(u, c) /\ Len(u) <= 1
      /\ \A i \in DOMAIN c : c[i].id <= n
      /\ \A i \in DOMAIN p : p[i].id <= n
      /\ \A i \in DOMAIN u : u[i].id <= n /\ \A j \in DOMAIN p : u[i].id # p[j].id
  BY DEF KindOrder, FlightOrder
<1>b. /\ 1 \in DOMAIN c
      /\ \A i \in DOMAIN d : i + 1 \in DOMAIN c /\ 1 < i + 1
      /\ \A i \in DOMAIN b : (i \in DOMAIN p /\ b[i] = p[i])
                           \/ (i = Len(p) + 1 /\ b[i] = c[1])
  BY <1>1, <1>2
<1>4. FlightOrder(d, b, u, n)
  <2>1. Ascending(d)
    BY <1>1, <1>b, <1>a DEF Ascending
  <2>2. Below(u, d)
    BY <1>1, <1>b, <1>a DEF Below
  <2>3. Ascending(b)
    <3> SUFFICES ASSUME NEW i \in DOMAIN b, NEW j \in DOMAIN b, i < j
                 PROVE  b[i].id < b[j].id
      BY DEF Ascending
    <3>1. i \in DOMAIN p /\ b[i] = p[i]
      BY <1>2
    <3>2. CASE j = Len(p) + 1
      BY <1>2, <1>b, <1>a, <3>1, <3>2 DEF Below
    <3>3. CASE j # Len(p) + 1
      <4>1. j \in DOMAIN p /\ b[j] = p[j]
        BY <1>b, <3>3
      <4> QED BY <1>a, <3>1, <4>1 DEF Ascending
    <3> QED BY <3>2, <3>3
  <2>4. Below(b, d)
    <3> SUFFICES ASSUME NEW i \in DOMAIN b, NEW j \in DOMAIN d
                 PROVE  b[i].id < d[j].id
      BY DEF Below
    <3>1. j + 1 \in DOMAIN c /\ 1 < j + 1 /\ d[j] = c[j + 1]
      BY <1>1, <1>b
    <3>2. CASE i \in DOMAIN p /\ b[i] = p[i]
      BY <1>a, <3>1, <3>2 DEF Below
    <3>3. CASE b[i] = c[1]
      BY <1>a, <1>b, <3>1, <3>3 DEF Ascending
    <3> QED BY <1>b, <3>2, <3>3
  <2>5. (\A i \in DOMAIN d : d[i].id <= n) /\ (\A i \in DOMAIN b : b[i].id <= n)
    <3>1. ASSUME NEW i \in DOMAIN d PROVE d[i].id <= n
      BY <1>1, <1>b, <1>a
    <3>2. ASSUME NEW i \in DOMAIN b PROVE b[i].id <= n
      BY <1>b, <1>a
    <3> QED BY <3>1, <3>2
  <2>6. ASSUME NEW i \in DOMAIN u, NEW j \in DOMAIN b PROVE u[i].id # b[j].id
    <3>1. u[i].id < c[1].id /\ u[i].id \in Nat /\ c[1].id \in Nat
      BY <1>a, <1>b, <1>3 DEF Below
    <3>2. u[i].id # c[1].id
      BY <3>1
    <3> QED BY <1>a, <1>b, <3>2
  <2> QED BY <1>a, <2>1, <2>2, <2>3, <2>4, <2>5, <2>6 DEF FlightOrder
<1>5. Written(k, d, b, u, rows, n)
  <2> SUFFICES ASSUME NEW r \in rows
               PROVE  /\ \A i \in DOMAIN d : r.id < d[i].id
                      /\ \A i \in DOMAIN b : r.id # b[i].id
                                           /\ (k # System => r.id < b[i].id)
    BY DEF KindOrder, Written
  <2>1. /\ \A i \in DOMAIN c : r.id < c[i].id
        /\ \A i \in DOMAIN p : r.id # p[i].id /\ (k # System => r.id < p[i].id)
    BY DEF KindOrder, Written
  <2>2. r.id < c[1].id /\ r.id # c[1].id
    BY <1>3, <1>b, <2>1
  <2>3. ASSUME NEW i \in DOMAIN d PROVE r.id < d[i].id
    BY <1>1, <1>b, <2>1
  <2>4. ASSUME NEW i \in DOMAIN b
        PROVE  r.id # b[i].id /\ (k # System => r.id < b[i].id)
    BY <1>b, <2>1, <2>2
  <2> QED BY <2>3, <2>4
<1>6. KindOrder(k, d, b, u, rows, n)
  BY <1>4, <1>5 DEF KindOrder
<1> QED BY <1>6 DEF d, b

(* The head of the channel is written outside the batch (TakeSystem).       *)
LEMMA UrgentKeepsOrder ==
    ASSUME NEW k, NEW c \in Seq(Event), NEW p \in Seq(Event), NEW u \in Seq(Event),
           NEW rows \in SUBSET Row, NEW n \in Nat, c # <<>>,
           KindOrder(k, c, p, u, rows, n)
    PROVE  KindOrder(k, Tail(c), p, <<Head(c)>>, rows, n)
<1> DEFINE d == Tail(c)
           v == <<Head(c)>>
<1>1. /\ Len(c) \in Nat \ {0} /\ DOMAIN c = 1..Len(c)
      /\ DOMAIN d = 1..(Len(c) - 1) /\ \A i \in DOMAIN d : d[i] = c[i + 1]
  OBVIOUS
<1>2. Len(v) = 1 /\ \A i \in DOMAIN v : v[i] = c[1]
  OBVIOUS
<1>3. /\ \A i \in DOMAIN p : p[i].id \in Nat
      /\ \A i \in DOMAIN c : c[i].id \in Nat
      /\ \A r \in rows : r.id \in Nat
  BY IdsAreNumbers
<1> HIDE DEF d, v
<1>4. /\ Ascending(c) /\ Ascending(p) /\ Below(p, c)
      /\ \A i \in DOMAIN c : c[i].id <= n
      /\ \A i \in DOMAIN p : p[i].id <= n
  BY DEF KindOrder, FlightOrder
<1>5. 1 \in DOMAIN c /\ \A i \in DOMAIN d : i + 1 \in DOMAIN c /\ 1 < i + 1
  BY <1>1
<1>6. FlightOrder(d, p, v, n)
  <2>1. Ascending(d)
    BY <1>1, <1>5, <1>4 DEF Ascending
  <2>2. Below(p, d)
    BY <1>1, <1>5, <1>4 DEF Below
  <2>3. Below(v, d)
    BY <1>1, <1>2, <1>5, <1>4 DEF Below, Ascending
  <2>4. \A i \in DOMAIN d : d[i].id <= n
    BY <1>1, <1>5, <1>4
  <2>5. c[1].id <= n /\ \A j \in DOMAIN p : c[1].id # p[j].id
    BY <1>3, <1>4, <1>5 DEF Below
  <2>6. \A i \in DOMAIN v : v[i].id <= n /\ \A j \in DOMAIN p : v[i].id # p[j].id
    BY <1>2, <2>5
  <2>7. Len(v) <= 1
    BY <1>2
  <2> QED BY <1>4, <2>1, <2>2, <2>3, <2>4, <2>6, <2>7 DEF FlightOrder
<1>7. Written(k, d, p, v, rows, n)
  <2> SUFFICES ASSUME NEW r \in rows
               PROVE  /\ \A i \in DOMAIN d : r.id < d[i].id
                      /\ \A i \in DOMAIN v : r.id # v[i].id
    BY DEF KindOrder, Written
  <2>1. \A i \in DOMAIN c : r.id < c[i].id
    BY DEF KindOrder, Written
  <2>2. r.id # c[1].id
    BY <1>3, <1>5, <2>1
  <2> QED BY <1>1, <1>2, <1>5, <2>1, <2>2
<1>8. KindOrder(k, d, p, v, rows, n)
  BY <1>6, <1>7 DEF KindOrder
<1> QED BY <1>8 DEF d, v

(* Rows may go, and a process that dies loses what is in flight.            *)
LEMMA LessKeepsOrder ==
    ASSUME NEW k, NEW c \in Seq(Event), NEW p \in Seq(Event), NEW u \in Seq(Event),
           NEW rows \in SUBSET Row, NEW n \in Nat, NEW left \in SUBSET rows,
           KindOrder(k, c, p, u, rows, n)
    PROVE  KindOrder(k, c, p, u, left, n) /\ KindOrder(k, <<>>, <<>>, <<>>, left, n)
<1>1. TableOrder(k, left) /\ Written(k, c, p, u, left, n)
  BY DEF KindOrder, TableOrder, Written, Bounded
<1>2. FlightOrder(<<>>, <<>>, <<>>, n) /\ Written(k, <<>>, <<>>, <<>>, left, n)
  BY <1>1 DEF FlightOrder, Ascending, Below, Written
<1> QED BY <1>1, <1>2 DEF KindOrder

(* Inserting events in ascending order, none of them in the table yet.      *)
LEMMA InsertedOrder ==
    ASSUME NEW k, NEW rows \in SUBSET Row, NEW s \in Seq(Event),
           TableOrder(k, rows), Ascending(s),
           \A r \in rows : \A i \in DOMAIN s :
               r.id # s[i].id /\ (k # System => r.id < s[i].id)
    PROVE  TableOrder(k, Inserted(rows, s))
<1> DEFINE m == LastRowid(rows)
           new(i) == [rowid |-> m + i, id |-> s[i].id, ts |-> s[i].ts]
           all == Inserted(rows, s)
<1>1. m \in Nat /\ \A r \in rows : r.rowid <= m
  BY LastRowidType, LastRowidIsLargest DEF TableOrder
<1> HIDE DEF m
<1>2. \A r \in all : r \in rows \/ \E i \in DOMAIN s : r = new(i)
  BY DEF Inserted, m
<1>3. /\ \A i \in DOMAIN s : s[i].id \in Nat /\ i \in Nat /\ 1 <= i /\ i <= Len(s)
      /\ \A r \in rows : r.id \in Nat /\ r.rowid \in Nat
      /\ Len(s) \in Nat
  BY IdsAreNumbers
<1>4. \A i \in DOMAIN s : new(i).rowid = m + i /\ new(i).id = s[i].id
  OBVIOUS
<1> HIDE DEF new, all
<1>5. Bounded(all)
  <2>1. m + Len(s) \in Nat
    BY <1>1, <1>3
  <2>2. ASSUME NEW r \in all PROVE r.rowid <= m + Len(s)
    <3>1. CASE r \in rows
      BY <1>1, <1>3, <3>1
    <3>2. CASE r \notin rows
      <4>1. PICK i \in DOMAIN s : r = new(i)
        BY <1>2, <3>2
      <4> QED BY <1>1, <1>3, <1>4, <4>1
    <3> QED BY <3>1, <3>2
  <2> QED BY <2>1, <2>2 DEF Bounded
<1>6. ASSUME NEW r \in all, NEW q \in all
      PROVE  /\ r.id = q.id \/ r.rowid = q.rowid => r = q
             /\ k # System => (r.rowid < q.rowid => r.id < q.id)
  <2>1. CASE r \in rows /\ q \in rows
    BY <2>1 DEF TableOrder
  <2>2. CASE r \in rows /\ q \notin rows
    <3>1. PICK j \in DOMAIN s : q = new(j)
      BY <1>2, <2>2
    <3>2. q.rowid = m + j /\ q.id = s[j].id /\ j \in Nat /\ 1 <= j
      BY <1>3, <1>4, <3>1
    <3>3. r.rowid < q.rowid /\ r.rowid # q.rowid
      BY <1>1, <1>3, <2>2, <3>2
    <3>4. r.id # q.id /\ (k # System => r.id < q.id)
      BY <2>2, <3>2
    <3> QED BY <3>3, <3>4
  <2>3. CASE r \notin rows /\ q \in rows
    <3>1. PICK i \in DOMAIN s : r = new(i)
      BY <1>2, <2>3
    <3>2. r.rowid = m + i /\ r.id = s[i].id /\ i \in Nat /\ 1 <= i
      BY <1>3, <1>4, <3>1
    <3>3. ~(r.rowid < q.rowid) /\ r.rowid # q.rowid
      BY <1>1, <1>3, <2>3, <3>2
    <3>4. r.id # q.id
      BY <2>3, <3>2
    <3> QED BY <3>3, <3>4
  <2>4. CASE r \notin rows /\ q \notin rows
    <3>1. PICK i \in DOMAIN s : r = new(i)
      BY <1>2, <2>4
    <3>2. PICK j \in DOMAIN s : q = new(j)
      BY <1>2, <2>4
    <3>3. /\ r.rowid = m + i /\ r.id = s[i].id /\ q.rowid = m + j /\ q.id = s[j].id
          /\ i \in Nat /\ j \in Nat /\ s[i].id \in Nat /\ s[j].id \in Nat
      BY <1>3, <1>4, <3>1, <3>2
    <3>4. (i < j => s[i].id < s[j].id) /\ (j < i => s[j].id < s[i].id)
      BY DEF Ascending
    <3>5. CASE i = j
      BY <1>1, <3>1, <3>2, <3>3, <3>5
    <3>6. CASE i < j
      BY <1>1, <3>3, <3>4, <3>6
    <3>7. CASE j < i
      BY <1>1, <3>3, <3>4, <3>7
    <3> QED BY <3>3, <3>5, <3>6, <3>7
  <2> QED BY <2>1, <2>2, <2>3, <2>4
<1>7. TableOrder(k, all)
  BY <1>5, <1>6 DEF TableOrder
<1> QED BY <1>7 DEF all

(* A committed batch, or a committed urgent write, leaves the flight.       *)
LEMMA CommitKeepsOrder ==
    ASSUME NEW k, NEW c \in Seq(Event), NEW p \in Seq(Event), NEW u \in Seq(Event),
           NEW rows \in SUBSET Row, NEW n \in Nat,
           KindOrder(k, c, p, u, rows, n)
    PROVE  /\ KindOrder(k, c, <<>>, u, Inserted(rows, p), n)
           /\ k = System => KindOrder(k, c, p, <<>>, Inserted(rows, u), n)
<1>1. ASSUME NEW s \in Seq(Event), NEW r \in Inserted(rows, s), r \notin rows
      PROVE  \E i \in DOMAIN s : r.id = s[i].id
  BY <1>1 DEF Inserted
<1>2. KindOrder(k, c, <<>>, u, Inserted(rows, p), n)
  <2>1. TableOrder(k, Inserted(rows, p))
    BY InsertedOrder DEF KindOrder, FlightOrder, Written
  <2>2. FlightOrder(c, <<>>, u, n)
    BY DEF KindOrder, FlightOrder, Ascending, Below
  <2>3. ASSUME NEW r \in Inserted(rows, p)
        PROVE  /\ r.id <= n
               /\ \A i \in DOMAIN c : r.id < c[i].id
               /\ \A i \in DOMAIN u : r.id # u[i].id
    <3>1. CASE r \in rows
      BY <3>1 DEF KindOrder, Written
    <3>2. CASE r \notin rows
      <4>1. PICK i \in DOMAIN p : r.id = p[i].id
        BY <1>1, <3>2
      <4> QED BY <4>1 DEF KindOrder, FlightOrder, Below
    <3> QED BY <3>1, <3>2
  <2>4. Written(k, c, <<>>, u, Inserted(rows, p), n)
    BY <2>3 DEF Written
  <2> QED BY <2>1, <2>2, <2>4 DEF KindOrder
<1>3. ASSUME k = System PROVE KindOrder(k, c, p, <<>>, Inserted(rows, u), n)
  <2>1. TableOrder(k, Inserted(rows, u))
    <3>1. Ascending(u)
      <4>1. \A i, j \in DOMAIN u : i = j
        BY DEF KindOrder, FlightOrder
      <4> QED BY <4>1 DEF Ascending
    <3> QED BY <1>3, <3>1, InsertedOrder DEF KindOrder, Written
  <2>2. FlightOrder(c, p, <<>>, n)
    BY DEF KindOrder, FlightOrder, Below
  <2>3. ASSUME NEW r \in Inserted(rows, u)
        PROVE  /\ r.id <= n
               /\ \A i \in DOMAIN c : r.id < c[i].id
               /\ \A i \in DOMAIN p : r.id # p[i].id
    <3>1. CASE r \in rows
      BY <3>1 DEF KindOrder, Written
    <3>2. CASE r \notin rows
      <4>1. PICK i \in DOMAIN u : r.id = u[i].id
        BY <1>1, <3>2
      <4> QED BY <4>1 DEF KindOrder, FlightOrder, Below
    <3> QED BY <3>1, <3>2
  <2>4. Written(k, c, p, <<>>, Inserted(rows, u), n)
    BY <1>3, <2>3 DEF Written
  <2> QED BY <2>1, <2>2, <2>4 DEF KindOrder
<1> QED BY <1>2, <1>3

-----------------------------------------------------------------------------
(* The invariant                                                           *)

UrgentOf(k) == IF k = System THEN urgent ELSE <<>>

OrderInv ==
    \A k \in Kinds :
        KindOrder(k, chan[k], pending[k], UrgentOf(k), table[k], accepted[k])

(* Where the loop comes to with an empty batch, and why its count is right. *)
CountInv == /\ LoopBelowThreshold
            /\ pc \in {"off", "boot", "chmod"} => nInBatch = 0

(* Nothing is in flight and no row written when the machine is new.         *)
LEMMA OrderInit == Init => OrderInv
<1> SUFFICES ASSUME Init, NEW k \in Kinds
             PROVE  KindOrder(k, chan[k], pending[k], UrgentOf(k), table[k], accepted[k])
  BY DEF OrderInv
<1>1. /\ chan = Empty /\ pending = Empty /\ urgent = <<>>
      /\ table = [j \in Kinds |-> {}] /\ accepted = [j \in Kinds |-> 0]
  BY DEF Init
<1>2. /\ chan[k] = <<>> /\ pending[k] = <<>> /\ UrgentOf(k) = <<>>
      /\ table[k] = {} /\ accepted[k] = 0
  BY <1>1 DEF Empty, UrgentOf
<1> QED BY <1>2 DEF KindOrder, FlightOrder, TableOrder, Written, Ascending, Below, Bounded

(* The ways in which a step touches an event.                              *)
LEMMA OrderStep ==
    ASSUME TypeOK, OrderInv, [Next]_vars
    PROVE  OrderInv'
<1>1. /\ chan \in [Kinds -> Seq(Event)] /\ accepted \in [Kinds -> Nat] /\ now \in Nat
      /\ pending \in [Kinds -> Seq(Event)] /\ urgent \in Seq(Event)
      /\ table \in [Kinds -> SUBSET Row]
      /\ \A k \in Kinds : UrgentOf(k) \in Seq(Event)
  BY DEF TypeOK, ChanType, BatchType, TableType, BoundType, UrgentOf
<1>2. ASSUME UNCHANGED <<chan, accepted, pending, urgent, table>> PROVE OrderInv'
  BY <1>2 DEF OrderInv, UrgentOf
<1>3. ASSUME NEW k \in Kinds, NEW t \in Nat, Accept(k, t),
             UNCHANGED <<pending, urgent, table>>
      PROVE  OrderInv'
  <2> SUFFICES ASSUME NEW j \in Kinds
               PROVE  KindOrder(j, chan'[j], pending[j], UrgentOf(j), table[j], accepted'[j])
    BY <1>3 DEF OrderInv, UrgentOf
  <2>1. CASE j = k
    <3>1. /\ chan'[k] = Append(chan[k], [id |-> accepted[k] + 1, ts |-> t])
          /\ accepted'[k] = accepted[k] + 1
      BY <1>1, <1>3 DEF Accept
    <3> QED BY <1>1, <2>1, <3>1, AcceptKeepsOrder DEF OrderInv
  <2>2. CASE j # k
    <3>1. chan'[j] = chan[j] /\ accepted'[j] = accepted[j]
      BY <1>1, <1>3, <2>2 DEF Accept
    <3> QED BY <3>1 DEF OrderInv
  <2> QED BY <2>1, <2>2
<1>4. ASSUME ReportSys, UNCHANGED <<pending, urgent, table>> PROVE OrderInv'
  <2>1. CASE Len(chan[System]) < Cap
    <3>1. Accept(System, now)
      BY <1>4, <2>1 DEF ReportSys, Accept
    <3> QED BY <1>1, <1>3, <1>4, <3>1, Constants
  <2>2. CASE ~(Len(chan[System]) < Cap)
    BY <1>2, <1>4, <2>2 DEF ReportSys, chanVars
  <2> QED BY <2>1, <2>2
<1>5. ASSUME NEW k \in Kinds, chan[k] # <<>>, enqueue(k),
             UNCHANGED <<accepted, urgent, table>>
      PROVE  OrderInv'
  <2> SUFFICES ASSUME NEW j \in Kinds
               PROVE  KindOrder(j, chan'[j], pending'[j], UrgentOf(j), table[j], accepted[j])
    BY <1>5 DEF OrderInv, UrgentOf
  <2>1. CASE j = k
    <3>1. chan'[k] = Tail(chan[k]) /\ pending'[k] = Append(pending[k], Head(chan[k]))
      BY <1>1, <1>5 DEF enqueue
    <3> QED BY <1>1, <1>5, <2>1, <3>1, EnqueueKeepsOrder DEF OrderInv
  <2>2. CASE j # k
    <3>1. chan'[j] = chan[j] /\ pending'[j] = pending[j]
      BY <1>1, <1>5, <2>2 DEF enqueue
    <3> QED BY <3>1 DEF OrderInv
  <2> QED BY <2>1, <2>2
<1>6. ASSUME NEW at \in {"off", "boot"}, Volatile(at), UNCHANGED <<accepted, table>>
      PROVE  OrderInv'
  <2> SUFFICES ASSUME NEW j \in Kinds
               PROVE  KindOrder(j, <<>>, <<>>, <<>>, table[j], accepted[j])
    BY <1>6 DEF OrderInv, UrgentOf, Volatile, Empty
  <2> QED BY <1>1, LessKeepsOrder DEF OrderInv
<1>7. ASSUME NEW k \in DataKinds, StartProducer(k) \/ Produce(k) \/ AbandonSend(k)
                                  \/ ProducerStops(k) \/ HookEnds(k)
      PROVE  OrderInv'
  BY <1>2, <1>7 DEF StartProducer, Produce, AbandonSend, ProducerStops, HookEnds, runVars,
     batchVars, chanVars
<1>8. ASSUME NEW k \in DataKinds, Send(k) PROVE OrderInv'
  <2>1. offer[k] \in Seq(Nat) /\ offer[k] # <<>> /\ Accept(k, offer[k][1])
    BY <1>8 DEF Send, TypeOK, EnvType
  <2>2. offer[k][1] \in Nat /\ k \in Kinds
    BY <2>1, Constants
  <2>3. UNCHANGED <<pending, urgent, table>>
    BY <1>8 DEF Send, runVars, batchVars
  <2> QED BY <1>3, <2>1, <2>2, <2>3
<1>9. ASSUME NEW k \in DataKinds, Emit(k) PROVE OrderInv'
  <2>1. PICK ts \in Stamps(k) : Accept(k, ts)
    BY <1>9 DEF Emit
  <2>2. ts \in Nat /\ k \in Kinds
    BY <1>1, <2>1, Constants DEF Stamps
  <2>3. UNCHANGED <<pending, urgent, table>>
    BY <1>9 DEF Emit, runVars, batchVars
  <2> QED BY <1>3, <2>1, <2>2, <2>3
<1>10. ASSUME NEW k \in DataKinds, ProducerGivesUp(k) PROVE OrderInv'
  BY <1>4, <1>10 DEF ProducerGivesUp, runVars, batchVars
<1>11. ASSUME NEW k \in DataKinds, TakeEvent(k) PROVE OrderInv'
  <2>1. k \in Kinds
    BY Constants
  <2> QED BY <1>5, <1>11, <2>1 DEF TakeEvent
<1>12. CASE RunBegins \/ ChmodFails \/ RetentionFails \/ EndArchive \/ StartArchive
            \/ Report \/ RequestArchive
  <2>1. UNCHANGED <<pending, urgent, table>> /\ (ReportSys \/ UNCHANGED chanVars)
    BY <1>12 DEF RunBegins, ChmodFails, RetentionFails, RetentionReturns, EndArchive,
       StartArchive, Report, RequestArchive, runVars, batchVars
  <2> QED BY <1>2, <1>4, <2>1 DEF chanVars
<1>13. CASE Poll
  <2>1. DrainOrder[dpos] \in Kinds
    BY <1>13, Constants DEF Poll, TypeOK, DrainType
  <2> QED BY <1>2, <1>5, <1>13, <2>1 DEF Poll, batchVars
<1>14. CASE CommitBatch
  <2> SUFFICES ASSUME NEW j \in Kinds
               PROVE  KindOrder(j, chan[j], <<>>, UrgentOf(j),
                                Inserted(table[j], pending[j]), accepted[j])
    BY <1>14 DEF CommitBatch, ResetBatch, Empty, chanVars, OrderInv, UrgentOf
  <2> QED BY <1>1, CommitKeepsOrder DEF OrderInv
<1>15. CASE CommitSystem
  <2>1. /\ UNCHANGED <<chan, accepted, pending>> /\ urgent' = <<>>
        /\ table' = [table EXCEPT ![System] = Inserted(table[System], urgent)]
    BY <1>15 DEF CommitSystem, chanVars
  <2> SUFFICES ASSUME NEW j \in Kinds
               PROVE  KindOrder(j, chan[j], pending[j], <<>>, table'[j], accepted[j])
    BY <2>1 DEF OrderInv, UrgentOf
  <2>2. CASE j = System
    <3>1. table'[j] = Inserted(table[j], urgent) /\ UrgentOf(j) = urgent
      BY <1>1, <2>1, <2>2 DEF UrgentOf
    <3> QED BY <1>1, <2>2, <3>1, CommitKeepsOrder DEF OrderInv
  <2>3. CASE j # System
    <3>1. table'[j] = table[j] /\ UrgentOf(j) = <<>>
      BY <1>1, <2>1, <2>3 DEF UrgentOf
    <3> QED BY <3>1 DEF OrderInv
  <2> QED BY <2>2, <2>3
<1>16. CASE TakeSystem
  <2>1. /\ UNCHANGED <<accepted, pending, table>> /\ chan[System] # <<>>
        /\ urgent' = <<Head(chan[System])>>
        /\ chan' = [chan EXCEPT ![System] = Tail(chan[System])]
    BY <1>16 DEF TakeSystem, batchVars
  <2> SUFFICES ASSUME NEW j \in Kinds
               PROVE  KindOrder(j, chan'[j], pending[j], UrgentOf(j)', table[j], accepted[j])
    BY <2>1 DEF OrderInv
  <2>2. CASE j = System
    <3>1. chan'[j] = Tail(chan[j]) /\ UrgentOf(j)' = <<Head(chan[j])>>
      BY <1>1, <2>1, <2>2 DEF UrgentOf
    <3> QED BY <1>1, <2>1, <2>2, <3>1, UrgentKeepsOrder DEF OrderInv
  <2>3. CASE j # System
    <3>1. chan'[j] = chan[j] /\ UrgentOf(j)' = UrgentOf(j)
      BY <1>1, <2>1, <2>3 DEF UrgentOf
    <3> QED BY <3>1 DEF OrderInv
  <2> QED BY <2>2, <2>3
<1>17. CASE CleanStep
  <2> DEFINE t == IF cpos = CredPos THEN Cred ELSE CleanOrder[cpos]
  <2>1. UNCHANGED <<pending, urgent>> /\ CleanTable(t)
    BY <1>17 DEF CleanStep, batchVars
  <2> HIDE DEF t
  <2>2. CASE UNCHANGED table
    BY <1>2, <1>4, <2>1, <2>2 DEF CleanTable, chanVars
  <2>3. CASE ~ UNCHANGED table
    <3>1. /\ table' = [table EXCEPT ![t] = table[t] \ Victims(table[t])]
          /\ UNCHANGED <<chan, accepted>>
      BY <2>1, <2>3 DEF CleanTable, chanVars
    <3> SUFFICES ASSUME NEW j \in Kinds
                 PROVE  KindOrder(j, chan[j], pending[j], UrgentOf(j), table'[j], accepted[j])
      BY <2>1, <3>1 DEF OrderInv, UrgentOf
    <3>2. table'[j] \in SUBSET table[j]
      BY <1>1, <3>1
    <3> QED BY <1>1, <3>2, LessKeepsOrder DEF OrderInv
  <2> QED BY <2>2, <2>3
<1>18. CASE FlushFails \/ SystemFails \/ RetentionFatal \/ Boot \/ ProcessExits
            \/ ForceExit \/ Crash
  <2>1. CASE UNCHANGED <<chan, accepted, pending, urgent, table>>
    BY <1>2, <2>1
  <2>2. CASE ~ UNCHANGED <<chan, accepted, pending, urgent, table>>
    <3>1. (Volatile("off") \/ Volatile("boot")) /\ UNCHANGED <<accepted, table>>
      BY <1>18, <2>2 DEF FlushFails, SystemFails, RetentionFatal, Boot, ProcessExits,
         ForceExit, Crash, ProcessDies, batchVars, chanVars
    <3> QED BY <1>6, <3>1
  <2> QED BY <2>1, <2>2
<1>19. CASE ProducersWait \/ NextRound \/ DrainEnds \/ FlushReturns \/ RetentionEnds
  BY <1>2, <1>19 DEF ProducersWait, NextRound, DrainEnds, FlushReturns,
     RetentionEnds, RetentionReturns, batchVars, chanVars
<1>20. CASE BatchTicker \/ ContextDone \/ RetentionTimer
  BY <1>2, <1>20 DEF BatchTicker, ContextDone, RetentionTimer, batchVars, chanVars
<1>21. CASE ServicesStop \/ Cancel \/ Tick \/ Stopped \/ UNCHANGED vars
  BY <1>2, <1>21 DEF ServicesStop, Cancel, Tick, Stopped, vars, runVars, batchVars,
     chanVars
<1> QED BY <1>7, <1>8, <1>9, <1>10, <1>11, <1>12, <1>13, <1>14, <1>15, <1>16,
   <1>17, <1>18, <1>19, <1>20, <1>21 DEF Next, Writer, Select, Producer, Process

(* The count of the batch starts at 0 with the loop not running.            *)
LEMMA CountInit == Init => CountInv
BY Constants DEF Init, CountInv, LoopBelowThreshold

(* pc, nInBatch and pending move together.                                 *)
LEMMA CountStep ==
    ASSUME TypeOK, CountInv, [Next]_vars
    PROVE  CountInv'
<1>1. /\ BatchSize \in Nat \ {0} /\ nInBatch \in Nat
      /\ chan \in [Kinds -> Seq(Event)] /\ pending \in [Kinds -> Seq(Event)]
  BY Constants DEF TypeOK, BatchType, ChanType
<1>2. ASSUME UNCHANGED <<pc, pending, nInBatch>> PROVE CountInv'
  BY <1>2 DEF CountInv, LoopBelowThreshold
<1>3. ASSUME UNCHANGED <<pending, nInBatch>>,
             pc' \notin {"select", "off", "boot", "chmod"}
      PROVE  CountInv'
  BY <1>3 DEF CountInv, LoopBelowThreshold
<1>4. ASSUME UNCHANGED <<pending, nInBatch>>, nInBatch < BatchSize, pc' = "select"
      PROVE  CountInv'
  BY <1>4 DEF CountInv, LoopBelowThreshold
<1>5. ASSUME UNCHANGED <<pending, nInBatch>>, BottomOfLoop PROVE CountInv'
  <2>1. CASE nInBatch >= BatchSize
    BY <1>3, <1>5, <2>1 DEF BottomOfLoop
  <2>2. CASE ~(nInBatch >= BatchSize)
    BY <1>1, <1>4, <1>5, <2>2 DEF BottomOfLoop
  <2> QED BY <2>1, <2>2
<1>6. ASSUME nInBatch' = 0, pending' = Empty PROVE CountInv'
  BY <1>1, <1>6 DEF CountInv, LoopBelowThreshold, Empty
<1>7. ASSUME NEW k \in Kinds, chan[k] # <<>>, enqueue(k)
      PROVE  nInBatch' \in Nat \ {0} /\ pending' # Empty
  <2>1. pending'[k] # <<>>
    <3>1. pending'[k] = Append(pending[k], Head(chan[k]))
      BY <1>1, <1>7 DEF enqueue
    <3>2. pending[k] \in Seq(Event) /\ Head(chan[k]) \in Event
      BY <1>1, <1>7
    <3>3. Len(Append(pending[k], Head(chan[k]))) # 0
      BY <3>2
    <3> QED BY <3>1, <3>3
  <2> QED BY <1>1, <1>7, <2>1 DEF enqueue, Empty
<1>8. ASSUME NEW k \in DataKinds, TakeEvent(k) PROVE CountInv'
  <2>1. k \in Kinds /\ chan[k] # <<>> /\ enqueue(k) /\ BottomOfLoop
    BY <1>8, Constants DEF TakeEvent
  <2>2. nInBatch' \in Nat \ {0} /\ pending' # Empty
    BY <1>7, <2>1
  <2>3. pc' = IF nInBatch' >= BatchSize THEN "flush" ELSE "select"
    BY <2>1 DEF BottomOfLoop
  <2> QED BY <1>1, <2>2, <2>3 DEF CountInv, LoopBelowThreshold, Empty
<1>9. CASE Poll
  <2>1. pc' = "drain"
    BY <1>9 DEF Poll
  <2>2. CASE chan[DrainOrder[dpos]] # <<>>
    <3>1. DrainOrder[dpos] \in Kinds /\ enqueue(DrainOrder[dpos])
      BY <1>9, <2>2, Constants DEF Poll, TypeOK, DrainType
    <3>2. nInBatch' \in Nat \ {0} /\ pending' # Empty
      BY <1>7, <2>2, <3>1
    <3> QED BY <2>1, <3>2 DEF CountInv, LoopBelowThreshold, Empty
  <2>3. CASE chan[DrainOrder[dpos]] = <<>>
    BY <1>3, <1>9, <2>1, <2>3 DEF Poll, batchVars
  <2> QED BY <2>2, <2>3
<1>10. CASE CommitBatch
  BY <1>6, <1>10 DEF CommitBatch, ResetBatch
<1>11. CASE FlushReturns
  <2>1. UNCHANGED <<pending, nInBatch>> /\ nInBatch = 0
    BY <1>11 DEF FlushReturns, CountInv, batchVars
  <2>2. pc' \in {"closed", "clean", "select"}
    BY <1>11 DEF FlushReturns, AfterFlush
  <2> QED BY <1>1, <1>3, <1>4, <2>1, <2>2
<1>12. CASE RunBegins
  <2>1. UNCHANGED <<pending, nInBatch>> /\ nInBatch = 0 /\ pc' = "select"
    BY <1>12 DEF RunBegins, CountInv, batchVars
  <2> QED BY <1>1, <1>4, <2>1
<1>13. CASE CommitSystem \/ RetentionEnds \/ RetentionFails \/ EndArchive
  BY <1>5, <1>13 DEF CommitSystem, RetentionEnds, RetentionFails, RetentionReturns,
     EndArchive, batchVars
<1>14. CASE StartArchive
  <2>1. UNCHANGED <<pending, nInBatch>> /\ pc = "select" /\ pc' \in {"select", "archive"}
    BY <1>14 DEF StartArchive, batchVars
  <2> QED BY <1>2, <1>3, <2>1
<1>15. CASE TakeSystem \/ BatchTicker \/ ContextDone \/ RetentionTimer
            \/ ProducersWait \/ DrainEnds
  <2>1. UNCHANGED <<pending, nInBatch>>
    BY <1>15 DEF TakeSystem, BatchTicker, ContextDone, RetentionTimer, ProducersWait,
       DrainEnds, batchVars
  <2>2. pc' \in {"system", "flush", "wait", "clean", "drain", "closed"}
    BY <1>15 DEF TakeSystem, BatchTicker, ContextDone, RetentionTimer, ProducersWait,
       StartDrain, DrainEnds
  <2> QED BY <1>3, <2>1, <2>2
<1>16. CASE CleanStep
  <2>1. UNCHANGED <<pending, nInBatch>> /\ pc = "clean"
    BY <1>16 DEF CleanStep, batchVars
  <2>2. pc' \in {"clean", "drain"}
    BY <1>16, <2>1 DEF CleanStep, CleanTable, StartDrain
  <2> QED BY <1>3, <2>1, <2>2
<1>17. CASE FlushFails \/ SystemFails \/ RetentionFatal \/ Boot \/ ProcessExits
            \/ ForceExit \/ Crash
  <2>1. \/ Volatile("off") \/ Volatile("boot")
        \/ pc' = "clean" /\ UNCHANGED <<pending, nInBatch>>
    BY <1>17 DEF FlushFails, SystemFails, RetentionFatal, Boot, ProcessExits, ForceExit,
       Crash, ProcessDies, batchVars
  <2> QED BY <1>3, <1>6, <2>1 DEF Volatile
<1>18. CASE NextRound \/ ChmodFails
  BY <1>2, <1>18 DEF NextRound, ChmodFails, batchVars
<1>19. CASE Report \/ RequestArchive \/ ServicesStop \/ Cancel \/ Tick \/ Stopped
            \/ UNCHANGED vars
  BY <1>2, <1>19 DEF Report, RequestArchive, ServicesStop, Cancel, Tick, Stopped, vars,
     runVars, batchVars
<1>20. ASSUME NEW k \in DataKinds,
              \/ StartProducer(k) \/ Produce(k) \/ Send(k) \/ AbandonSend(k)
              \/ Emit(k) \/ ProducerStops(k) \/ HookEnds(k) \/ ProducerGivesUp(k)
       PROVE  CountInv'
  BY <1>2, <1>20 DEF StartProducer, Produce, Send, AbandonSend, Emit, ProducerStops,
     HookEnds, ProducerGivesUp, runVars, batchVars
<1> QED BY <1>8, <1>9, <1>10, <1>11, <1>12, <1>13, <1>14, <1>15, <1>16, <1>17,
   <1>18, <1>19, <1>20 DEF Next, Writer, Select, Producer, Process

-----------------------------------------------------------------------------
(* What is in flight is the batch, the urgent write and the channel, in     *)
(* this order, so that a position tells the ids apart.                      *)
LEMMA FlightIsDistinct ==
    ASSUME NEW c \in Seq(Event), NEW p \in Seq(Event), NEW u \in Seq(Event), NEW n,
           FlightOrder(c, p, u, n)
    PROVE  \A i, j \in DOMAIN (p \o u \o c) :
               (p \o u \o c)[i].id = (p \o u \o c)[j].id => i = j
<1> DEFINE f == p \o u \o c
           np == Len(p)
           nu == Len(u)
           InP(i) == i \in DOMAIN p /\ f[i] = p[i]
           InU(i) == i = np + 1 /\ 1 \in DOMAIN u /\ f[i] = u[1]
           InC(i) == i - np - nu \in DOMAIN c /\ f[i] = c[i - np - nu]
<1>1. np \in Nat /\ nu \in {0, 1}
  <2>1. np \in Nat /\ nu \in Nat
    OBVIOUS
  <2>2. nu <= 1
    BY DEF FlightOrder
  <2>3. \A m \in Nat : m <= 1 => m \in {0, 1}
    OBVIOUS
  <2> QED BY <2>1, <2>2, <2>3
<1>2. ASSUME NEW i \in DOMAIN f PROVE i \in Nat /\ (InP(i) \/ InU(i) \/ InC(i))
  <2>1. i \in 1..(np + nu + Len(c)) /\ p \o u \in Seq(Event) /\ Len(p \o u) = np + nu
    OBVIOUS
  <2>2. CASE i <= np
    BY <2>1, <2>2
  <2>3. CASE np < i /\ i <= np + nu
    <3>0. i \in Nat /\ np \in Nat /\ Len(p \o u) = np + nu /\ nu \in {0, 1}
      BY <1>1, <2>1
    <3>1. nu = 1 /\ i = np + 1 /\ i <= Len(p \o u)
      <4> HIDE DEF f, np, nu
      <4> QED BY <2>3, <3>0
    <3>2. f[i] = (p \o u)[i]
      BY <1>1, <2>1, <3>1
    <3>3. 1 \in DOMAIN u /\ (p \o u)[np + 1] = u[1]
      BY <1>1, <3>1
    <3> QED BY <3>1, <3>2, <3>3
  <2>4. CASE np + nu < i
    BY <1>1, <2>1, <2>4
  <2> QED BY <1>1, <2>1, <2>2, <2>3, <2>4
<1>3. /\ \A i \in DOMAIN p : i \in Nat /\ p[i].id \in Nat
      /\ \A i \in DOMAIN u : u[i].id \in Nat
      /\ \A i \in DOMAIN c : c[i].id \in Nat
  BY IdsAreNumbers
<1> HIDE DEF f, np, nu
<1>4. SUFFICES ASSUME NEW i \in DOMAIN f, NEW j \in DOMAIN f, i < j
               PROVE  f[i].id # f[j].id
  <2>1. \A i, j \in DOMAIN f : i # j => i < j \/ j < i
    BY <1>2
  <2>2. \A i, j \in DOMAIN f : f[i].id = f[j].id => i = j
    BY <1>4, <2>1
  <2> QED BY <2>2 DEF f
<1>5. i \in Nat /\ j \in Nat
  BY <1>2
<1>6. CASE InP(i) /\ InP(j)
  BY <1>3, <1>4, <1>6 DEF FlightOrder, Ascending
<1>7. CASE InP(i) /\ InU(j)
  BY <1>7 DEF FlightOrder
<1>8. CASE InP(i) /\ InC(j)
  BY <1>3, <1>8 DEF FlightOrder, Below
<1>9. CASE InU(i) /\ InC(j)
  BY <1>3, <1>9 DEF FlightOrder, Below
<1>10. CASE InC(i) /\ InC(j)
  <2>1. i - np - nu < j - np - nu
    BY <1>1, <1>4, <1>5
  <2> QED BY <1>3, <1>10, <2>1 DEF FlightOrder, Ascending
<1>11. ~(InU(i) /\ InP(j)) /\ ~(InU(i) /\ InU(j)) /\ ~(InC(i) /\ InP(j))
       /\ ~(InC(i) /\ InU(j))
  BY <1>1, <1>4, <1>5 DEF np, nu
<1> QED BY <1>2, <1>6, <1>7, <1>8, <1>9, <1>10, <1>11

(* The order of every kind and the count are all that WriterInv says.       *)
LEMMA OrderImpliesWriterInv ==
    TypeOK /\ OrderInv /\ CountInv => WriterInv
<1> SUFFICES ASSUME TypeOK, OrderInv, CountInv PROVE WriterInv
  OBVIOUS
<1>1. ASSUME NEW k \in Kinds
      PROVE  /\ chan[k] \in Seq(Event) /\ pending[k] \in Seq(Event)
             /\ UrgentOf(k) \in Seq(Event) /\ Len(UrgentOf(k)) <= 1
             /\ KindOrder(k, chan[k], pending[k], UrgentOf(k), table[k], accepted[k])
             /\ InFlight(k) = pending[k] \o UrgentOf(k) \o chan[k]
  <2>1. KindOrder(k, chan[k], pending[k], UrgentOf(k), table[k], accepted[k])
    BY DEF OrderInv
  <2>2. /\ chan[k] \in Seq(Event) /\ pending[k] \in Seq(Event)
        /\ UrgentOf(k) \in Seq(Event)
    BY DEF TypeOK, ChanType, BatchType, UrgentOf
  <2>3. Len(UrgentOf(k)) <= 1
    BY <2>1 DEF KindOrder, FlightOrder
  <2> QED BY <2>1, <2>2, <2>3 DEF InFlight, UrgentOf
<1>2. ASSUME NEW k \in Kinds, NEW e \in Elements(InFlight(k))
      PROVE  \/ \E i \in DOMAIN chan[k] : e = chan[k][i]
             \/ \E i \in DOMAIN pending[k] : e = pending[k][i]
             \/ \E i \in DOMAIN UrgentOf(k) : e = UrgentOf(k)[i]
  <2> DEFINE c == chan[k]
             p == pending[k]
             u == UrgentOf(k)
  <2>1. c \in Seq(Event) /\ p \in Seq(Event) /\ u \in Seq(Event)
    BY <1>1
  <2>2. PICK i \in DOMAIN (p \o u \o c) : e = (p \o u \o c)[i]
    BY <1>1, <1>2 DEF Elements
  <2> HIDE DEF c, p, u
  <2>3. /\ i \in 1..(Len(p) + Len(u) + Len(c)) /\ p \o u \in Seq(Event)
        /\ Len(p \o u) = Len(p) + Len(u) /\ Len(p) \in Nat /\ Len(u) \in Nat
    BY <2>1, <2>2
  <2>4. CASE i <= Len(p)
    BY <2>1, <2>2, <2>3, <2>4 DEF p
  <2>5. CASE Len(p) < i /\ i <= Len(p) + Len(u)
    <3>1. i - Len(p) \in DOMAIN u /\ e = u[i - Len(p)]
      BY <2>1, <2>2, <2>3, <2>5
    <3> QED BY <3>1 DEF u
  <2>6. CASE Len(p) + Len(u) < i
    <3>1. i - Len(p) - Len(u) \in DOMAIN c /\ e = c[i - Len(p) - Len(u)]
      BY <2>1, <2>2, <2>3, <2>6
    <3> QED BY <3>1 DEF c
  <2> QED BY <2>3, <2>4, <2>5, <2>6
<1>3. AtMostOnce
  <2> SUFFICES ASSUME NEW k \in Kinds
               PROVE  /\ \A i, j \in DOMAIN InFlight(k) :
                             InFlight(k)[i].id = InFlight(k)[j].id => i = j
                      /\ \A r \in table[k] :
                             /\ \A q \in table[k] : r.id = q.id \/ r.rowid = q.rowid => r = q
                             /\ \A e \in Elements(InFlight(k)) : r.id # e.id
    BY DEF AtMostOnce
  <2>1. \A i, j \in DOMAIN InFlight(k) : InFlight(k)[i].id = InFlight(k)[j].id => i = j
    BY <1>1, FlightIsDistinct DEF KindOrder
  <2>2. ASSUME NEW r \in table[k], NEW e \in Elements(InFlight(k)) PROVE r.id # e.id
    <3>1. /\ \A i \in DOMAIN chan[k] : r.id # chan[k][i].id
          /\ \A i \in DOMAIN pending[k] : r.id # pending[k][i].id
          /\ \A i \in DOMAIN UrgentOf(k) : r.id # UrgentOf(k)[i].id
      <4>1. /\ \A i \in DOMAIN chan[k] : chan[k][i].id \in Nat
            /\ r.id \in Nat
        BY <1>1, IdsAreNumbers DEF TypeOK, TableType
      <4>2. Written(k, chan[k], pending[k], UrgentOf(k), table[k], accepted[k])
        BY <1>1 DEF KindOrder
      <4> QED BY <4>1, <4>2 DEF Written
    <3> QED BY <1>2, <3>1
  <2>3. \A r, q \in table[k] : r.id = q.id \/ r.rowid = q.rowid => r = q
    BY <1>1 DEF KindOrder, TableOrder
  <2> QED BY <2>1, <2>2, <2>3
<1>4. RowOrder
  BY <1>1, Constants DEF RowOrder, KindOrder, TableOrder
<1> QED BY <1>3, <1>4 DEF WriterInv, CountInv

(* Whatever fails, restarts or yields: an event is in one place, its table  *)
(* has it once, the rowids of a data table follow the order of acceptance,  *)
(* and the loop waits only below its threshold (Store.Run, flush, yield).   *)
THEOREM WriterKeepsOrder == Spec => []WriterInv
<1>1. Init => TypeOK /\ OrderInv /\ CountInv
  BY TypeInit, OrderInit, CountInit
<1>2. TypeOK /\ OrderInv /\ CountInv /\ [Next]_vars => (TypeOK /\ OrderInv /\ CountInv)'
  BY TypeStep, OrderStep, CountStep
<1> QED BY <1>1, <1>2, OrderImpliesWriterInv, PTL DEF Spec
=============================================================================
