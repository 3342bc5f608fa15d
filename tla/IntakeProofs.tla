---------------------------- MODULE IntakeProofs ----------------------------
(***************************************************************************)
(* Proofs about Intake, for any systems, files, bounds and requests in     *)
(* flight: however they overlap and fail the rows tell one story, and what *)
(* is promised as long as no write was decided from a row that had changed *)
(* since.                                                                  *)
(***************************************************************************)
EXTENDS Intake, FiniteSetTheorems, TLAPS

(* Places in a list, as in TasksProofs for its rows.                       *)

\* Lists whose order can be read: all the lemmas on places ask.
Ordered(list) ==
  /\ IsFiniteSet(DOMAIN list)
  /\ DOMAIN list \subseteq Int
  /\ \A i \in DOMAIN list : list[i].order \in Int

LEMMA OrderTotal ==
  ASSUME NEW list, Ordered(list)
  PROVE  /\ \A i \in DOMAIN list : ~Above(list, i, i)
         /\ \A i, j \in DOMAIN list : i # j => Above(list, i, j) \/ Above(list, j, i)
         /\ \A i, j, k \in DOMAIN list :
              Above(list, i, j) /\ Above(list, j, k) => Above(list, i, k)
BY DEF Ordered, Above

\* The rows above a row are fewer than the rows of the list.
LEMMA PlaceType ==
  ASSUME NEW list, Ordered(list), NEW i \in DOMAIN list
  PROVE  /\ LastPlace(list) \in Nat
         /\ Place(list, i) \in 0 .. LastPlace(list)
<1> DEFINE D == DOMAIN list
           A == { j \in D : Above(list, j, i) }
<1>1. IsFiniteSet(D)
  BY DEF Ordered
<1>2. /\ IsFiniteSet(D \ {i})
      /\ Cardinality(D \ {i}) = Cardinality(D) - 1
  BY <1>1, FS_RemoveElement
<1>3. A \in SUBSET (D \ {i})
  BY OrderTotal
<1>4. IsFiniteSet(A) /\ Cardinality(A) <= Cardinality(D \ {i})
  BY <1>2, <1>3, FS_Subset
<1>5. /\ Cardinality(A) \in Nat
      /\ Cardinality(D) \in Nat /\ Cardinality(D \ {i}) \in Nat
  BY <1>1, <1>2, <1>4, FS_CardinalityType
<1> QED
  BY <1>2, <1>4, <1>5 DEF Place, LastPlace

\* Whoever is above another has a smaller place.
LEMMA PlaceMonotone ==
  ASSUME NEW list, Ordered(list), NEW i \in DOMAIN list, NEW j \in DOMAIN list,
         Above(list, i, j)
  PROVE  Place(list, i) < Place(list, j)
<1> DEFINE A(k) == { l \in DOMAIN list : Above(list, l, k) }
<1>1. \A k \in DOMAIN list : A(k) \in SUBSET DOMAIN list
  OBVIOUS
<1>2. \A k \in DOMAIN list : IsFiniteSet(A(k))
  BY <1>1, FS_Subset DEF Ordered
<1>3. i \notin A(i)
  BY OrderTotal
<1>4. A(i) \cup {i} \in SUBSET A(j)
  BY OrderTotal
<1>5. Cardinality(A(i) \cup {i}) = Cardinality(A(i)) + 1
  BY <1>2, <1>3, FS_AddElement
<1>6. Cardinality(A(i) \cup {i}) <= Cardinality(A(j))
  BY <1>2, <1>4, FS_Subset
<1>7. Cardinality(A(i)) \in Nat /\ Cardinality(A(j)) \in Nat
  BY <1>2, FS_CardinalityType
<1> QED
  BY <1>5, <1>6, <1>7 DEF Place

(***************************************************************************)
(* Places number the list: in its order, and every place is taken.         *)
(***************************************************************************)
LEMMA PlacesNumber ==
  ASSUME NEW list, Ordered(list)
  PROVE  /\ \A i, j \in DOMAIN list :
              /\ Above(list, i, j) <=> Place(list, i) < Place(list, j)
              /\ Place(list, i) = Place(list, j) => i = j
         /\ \A p \in 0 .. LastPlace(list) : \E i \in DOMAIN list : Place(list, i) = p
<1> DEFINE D == DOMAIN list
           n == Cardinality(D)
           f == [i \in D |-> Place(list, i)]
<1>0. IsFiniteSet(D) /\ n \in Nat
  BY FS_CardinalityType DEF Ordered
<1>1. \A i \in D : Place(list, i) \in 0 .. LastPlace(list) /\ Place(list, i) \in Int
  BY PlaceType
<1>2. \A i, j \in D : Above(list, i, j) => Place(list, i) < Place(list, j)
  BY PlaceMonotone
<1>3. \A i, j \in D : /\ Above(list, i, j) <=> Place(list, i) < Place(list, j)
                      /\ Place(list, i) = Place(list, j) => i = j
  <2> SUFFICES ASSUME NEW i \in D, NEW j \in D
               PROVE  /\ Above(list, i, j) <=> Place(list, i) < Place(list, j)
                      /\ Place(list, i) = Place(list, j) => i = j
    OBVIOUS
  <2>1. Place(list, i) \in Int /\ Place(list, j) \in Int
    BY <1>1
  <2>2. CASE i = j
    BY <2>1, <2>2, OrderTotal
  <2>3. CASE Above(list, i, j)
    <3>1. Place(list, i) < Place(list, j)
      BY <1>2, <2>3
    <3> QED
      BY <2>1, <2>3, <3>1
  <2>4. CASE Above(list, j, i)
    <3>1. Place(list, j) < Place(list, i)
      BY <1>2, <2>4
    <3>2. ~Above(list, i, j)
      BY <2>4, OrderTotal
    <3> QED
      BY <2>1, <3>1, <3>2
  <2> QED
    BY <2>2, <2>3, <2>4, OrderTotal
<1>4. f \in Injection(D, 0 .. LastPlace(list))
  BY <1>1, <1>3 DEF Injection, IsInjective
<1>5. /\ IsFiniteSet(0 .. LastPlace(list))
      /\ Cardinality(0 .. LastPlace(list)) = n
  BY <1>0, FS_Interval DEF LastPlace
<1>6. f \in Surjection(D, 0 .. LastPlace(list))
  BY <1>0, <1>4, <1>5, FS_Injection
<1>7. \A p \in 0 .. LastPlace(list) : \E i \in D : f[i] = p
  BY <1>6 DEF Surjection
<1> QED
  BY <1>3, <1>7

-----------------------------------------------------------------------------
(* The lines of the minutes                                                *)

Line == [order : 0 .. MaxPoints]

LineList(list) == DOMAIN list \subseteq 1 .. MaxPoints /\ list \in [DOMAIN list -> Line]

LEMMA LinesOrdered ==
  ASSUME NEW list, LineList(list)
  PROVE  /\ Ordered(list)
         /\ Cardinality(DOMAIN list) \in 0 .. MaxPoints
<1>1. /\ IsFiniteSet(1 .. MaxPoints) /\ Cardinality(1 .. MaxPoints) = MaxPoints /\ MaxPoints \in Nat
  BY MaxPointsAssumption, FS_Interval
<1>2. IsFiniteSet(DOMAIN list) /\ Cardinality(DOMAIN list) <= MaxPoints
  BY <1>1, FS_Subset DEF LineList
<1>3. \A i \in DOMAIN list : list[i].order \in Int
  BY DEF LineList, Line
<1> QED
  BY <1>2, <1>3, FS_CardinalityType DEF Ordered, LineList

LEMMA LineMoved ==
  ASSUME NEW r \in Line, NEW o \in 0 .. MaxPoints
  PROVE  LET new == [r EXCEPT !.order = o]
         IN  new \in Line /\ new.order = o
BY DEF Line

\* The orders alone decide.
LEMMA SameOrders ==
  ASSUME NEW list, NEW new, DOMAIN new = DOMAIN list,
         \A i \in DOMAIN list : new[i].order = list[i].order
  PROVE  Contiguous(new) <=> Contiguous(list)
BY DEF Contiguous, LastPlace

\* Each row to its place.
LEMMA RebalancedContiguous ==
  ASSUME NEW list, LineList(list)
  PROVE  /\ LineList(Rebalanced(list)) /\ DOMAIN Rebalanced(list) = DOMAIN list
         /\ Contiguous(Rebalanced(list))
<1> DEFINE new == Rebalanced(list)
<1>1. Ordered(list) /\ LastPlace(list) < MaxPoints
  BY LinesOrdered, MaxPointsAssumption DEF LastPlace
<1>2. DOMAIN new = DOMAIN list /\ LastPlace(new) = LastPlace(list)
  BY DEF Rebalanced, LastPlace
<1>3. ASSUME NEW i \in DOMAIN list
      PROVE  /\ Place(list, i) \in 0 .. LastPlace(list)
             /\ new[i].order = Place(list, i) /\ new[i] \in Line
  <2>1. Place(list, i) \in 0 .. LastPlace(list) /\ LastPlace(list) \in Nat
    BY <1>1, PlaceType
  <2>2. list[i] \in Line /\ Place(list, i) \in 0 .. MaxPoints
    BY <1>1, <2>1, MaxPointsAssumption DEF LineList
  <2>3. new[i] = [list[i] EXCEPT !.order = Place(list, i)]
    BY DEF Rebalanced
  <2> HIDE DEF new
  <2> QED
    BY <2>1, <2>2, <2>3, LineMoved
<1>4. LineList(new)
  BY <1>2, <1>3 DEF LineList, Rebalanced
<1> QED
  BY <1>1, <1>2, <1>3, <1>4, PlacesNumber DEF Contiguous

\* A row put after the last.
LEMMA AppendedContiguous ==
  ASSUME NEW list, LineList(list), NEW new, NEW x, x \notin DOMAIN list, DOMAIN new = DOMAIN list \cup {x},
         \A i \in DOMAIN list : new[i].order = list[i].order,
         new[x].order = Cardinality(DOMAIN list), Contiguous(list)
  PROVE  Contiguous(new)
<1> DEFINE n == Cardinality(DOMAIN list)
<1>1. n \in Nat /\ IsFiniteSet(DOMAIN list)
  BY LinesOrdered DEF Ordered
<1>2. Cardinality(DOMAIN new) = n + 1
  BY <1>1, FS_AddElement
<1>3. { list[i].order : i \in DOMAIN list } = 0 .. n - 1
  BY DEF Contiguous, LastPlace
<1>4. { new[i].order : i \in DOMAIN new } = { list[i].order : i \in DOMAIN list } \cup {n}
  OBVIOUS
<1> HIDE DEF n
<1>5. (0 .. n - 1) \cup {n} = 0 .. (n + 1) - 1
  BY <1>1
<1> QED
  BY <1>2, <1>3, <1>4, <1>5 DEF Contiguous, LastPlace

\* A row taken to a place, the others closing up around it.
LEMMA MovedToContiguous ==
  ASSUME NEW list, LineList(list), NEW x \in DOMAIN list, NEW target \in Nat
  PROVE  LET new == MovedTo(list, x, target)
         IN  /\ LineList(new) /\ DOMAIN new = DOMAIN list
             /\ Contiguous(new)
<1> DEFINE D   == DOMAIN list
           new == MovedTo(list, x, target)
           to  == Clamped(list, target)
           n   == LastPlace(list)
           P(i) == Place(list, i)
           W(i) == P(i) - (IF P(x) < P(i) THEN 1 ELSE 0)
           N(i) == IF i = x THEN to ELSE IF W(i) < to THEN W(i) ELSE W(i) + 1
<1>1. Ordered(list) /\ LastPlace(list) < MaxPoints
  BY LinesOrdered, MaxPointsAssumption DEF LastPlace
<1>2. n \in Nat /\ to \in 0 .. n
  BY <1>1, PlaceType DEF Clamped
<1>3. \A i \in D : P(i) \in 0 .. n
  BY <1>1, PlaceType
<1>4. \A i, j \in D : /\ Above(list, i, j) <=> P(i) < P(j)
                      /\ P(i) = P(j) => i = j
  BY <1>1, PlacesNumber
<1>5. \A p \in 0 .. n : \E i \in D : P(i) = p
  BY <1>1, PlacesNumber
<1> HIDE DEF P, n, to
<1>6. \A i \in D \ {x} : /\ P(i) # P(x)
                         /\ W(i) \in Int /\ 0 <= W(i) /\ W(i) < n
  <2> SUFFICES ASSUME NEW i \in D \ {x}
               PROVE  /\ P(i) # P(x)
                      /\ W(i) \in Int /\ 0 <= W(i) /\ W(i) < n
    OBVIOUS
  <2>1. P(i) # P(x) /\ P(i) \in 0 .. n /\ P(x) \in 0 .. n
    BY <1>3, <1>4
  <2> QED
    BY <1>2, <2>1
<1>7. \A i \in D : N(i) \in 0 .. n
  BY <1>2, <1>6
<1>8. \A i \in D : new[i] = [list[i] EXCEPT !.order = N(i)]
  <2> SUFFICES ASSUME NEW i \in D
               PROVE  new[i] = [list[i] EXCEPT !.order = N(i)]
    OBVIOUS
  <2> DEFINE V == P(i) - (IF Above(list, x, i) THEN 1 ELSE 0)
  <2>1. new[i] = [list[i] EXCEPT !.order =
                    IF i = x THEN to ELSE IF V < to THEN V ELSE V + 1]
    BY DEF MovedTo, P, to
  <2>2. V = W(i)
    <3>1. CASE Above(list, x, i)
      BY <1>4, <3>1
    <3>2. CASE ~Above(list, x, i)
      BY <1>4, <3>2
    <3> QED
      BY <3>1, <3>2
  <2> HIDE DEF V, W
  <2> QED
    BY <2>1, <2>2
<1>9. \A i \in D : new[i].order = N(i) /\ new[i] \in Line
  <2> SUFFICES ASSUME NEW i \in D
               PROVE  new[i].order = N(i) /\ new[i] \in Line
    OBVIOUS
  <2>1. N(i) \in 0 .. MaxPoints
    BY <1>1, <1>2, <1>7, MaxPointsAssumption DEF n
  <2>2. list[i] \in Line
    BY DEF LineList
  <2>3. new[i] = [list[i] EXCEPT !.order = N(i)]
    BY <1>8
  <2> HIDE DEF N, new
  <2> QED
    BY <2>1, <2>2, <2>3, LineMoved
<1>10. DOMAIN new = D
  BY DEF MovedTo
<1>11. LineList(new)
  BY <1>9, <1>10 DEF LineList, MovedTo
<1>13. \A p \in 0 .. n : \E i \in D : N(i) = p
  <2> SUFFICES ASSUME NEW p \in 0 .. n
               PROVE  \E i \in D : N(i) = p
    OBVIOUS
  <2>1. CASE p = to
    BY <2>1
  <2>2. CASE p # to
    <3> DEFINE w == IF p < to THEN p ELSE p - 1
               q == IF w < P(x) THEN w ELSE w + 1
    <3>0. P(x) \in 0 .. n
      BY <1>3
    <3>1. q \in 0 .. n /\ q # P(x)
      BY <1>2, <2>2, <3>0
    <3>2. PICK i \in D : P(i) = q
      BY <1>5, <3>1
    <3>3. i # x /\ W(i) = w
      BY <1>2, <2>2, <3>0, <3>1, <3>2
    <3>4. N(i) = p
      BY <1>2, <2>2, <3>3
    <3> QED
      BY <3>4
  <2> QED
    BY <2>1, <2>2
<1>14. Contiguous(new)
  <2>1. LastPlace(new) = n
    BY <1>10 DEF LastPlace, n
  <2> QED
    BY <1>7, <1>9, <1>10, <1>13, <2>1 DEF Contiguous
<1> QED
  BY <1>10, <1>11, <1>14

\* The last place has nothing below it, so the position after the last is one more.
LEMMA BottomIsNext ==
  ASSUME LineList(points)
  PROVE  /\ Bottom \in Nat
         /\ Contiguous(points) => Bottom = Cardinality(DOMAIN points)
<1> DEFINE n == LastPlace(points)
           Orders == { points[p].order : p \in DOMAIN points }
           IsLast(o) == \A p \in DOMAIN points : points[p].order <= o
           last == CHOOSE o \in Orders : IsLast(o)
<1>1. /\ Ordered(points) /\ Cardinality(DOMAIN points) \in Nat /\ n \in Int
      /\ \A p \in DOMAIN points : points[p].order \in Nat
  BY LinesOrdered, MaxPointsAssumption DEF LineList, Line, LastPlace
<1>2. CASE points = <<>>
  <2>1. Bottom = 0 /\ DOMAIN points = {}
    BY <1>2 DEF Bottom
  <2> QED
    BY <2>1, FS_EmptySet
<1>3. CASE points # <<>>
  <2>1. PICK q : q \in DOMAIN points
    BY <1>3 DEF LineList
  <2>2. n \in Nat
    BY <1>1, <2>1, PlaceType
  <2>3. PICK i \in DOMAIN points : Place(points, i) = n
    BY <1>1, <2>2, PlacesNumber
  <2>4. ASSUME NEW p \in DOMAIN points PROVE points[p].order <= points[i].order
    <3>1. Place(points, p) \in 0 .. n
      BY <1>1, PlaceType
    <3>2. ~Above(points, i, p)
      BY <1>1, <2>2, <2>3, <3>1, PlacesNumber
    <3> QED
      BY <1>1, <3>2 DEF Above
  <2>5. points[i].order \in Orders /\ IsLast(points[i].order)
    BY <2>4
  <2>6. last \in Orders /\ IsLast(last)
    BY <2>5
  <2>7. Bottom = 1 + last
    BY <1>3 DEF Bottom
  <2>8. ASSUME Contiguous(points) PROVE last = n
    <3>1. Orders = 0 .. n
      BY <2>8 DEF Contiguous
    <3>2. PICK p \in DOMAIN points : points[p].order = n
      BY <2>2, <3>1
    <3> HIDE DEF last
    <3> QED
      BY <2>2, <2>6, <3>1, <3>2
  <2> HIDE DEF last
  <2> QED
    BY <1>1, <2>6, <2>7, <2>8 DEF LastPlace
<1> QED
  BY <1>2, <1>3

-----------------------------------------------------------------------------
(* The invariant                                                           *)

MeetingRow == [status : MeetingStatus, archived : BOOLEAN]

IsOpen(row) == ~row.archived /\ row.status # "CANCELLED"

\* What a request carries, over the requirements R and tickets T there are.
Carries(q, R, T) ==
  /\ q.op \in { "triage", "status", "promote", "archive" } =>
       q.of \in R /\ q.row \in Requirement
  /\ q.op = "triage" => Editable(q.row) /\ q.to \in Pin
  /\ q.op = "status" => Editable(q.row) /\ q.to \in RequirementStatus \ { "CONVERTED" }
  /\ q.op = "promote" => q.row.system # None
  /\ q.op = "listing" => q.of \in R /\ q.url \in Url
  /\ q.op = "follow" => q \in [op : {"follow"}, of : R, url : Url, todo : SUBSET T]
  /\ q.op = "meet" => q.seen.status = "SCHEDULED" /\ q.to \in { "HELD", "CANCELLED" }
  /\ q.op = "add" =>
       /\ IsOpen(q.seen[1]) /\ q.order \in 0 .. MaxPoints
       /\ Contiguous(q.seen[2]) => q.order = Cardinality(DOMAIN q.seen[2])
  /\ q.op = "reorder" =>
       /\ IsOpen(q.seen[1]) /\ LineList(q.list)
       /\ DOMAIN q.list = DOMAIN q.seen[2] /\ Contiguous(q.list)
  /\ q.op = "remove" => IsOpen(q.seen[1])
  /\ q.op = "capture" => q.pin \in Pin /\ q.point \in Nat

RequestsInv ==
  /\ DOMAIN inflight = Slot
  /\ \A s \in Slot : Carries(inflight[s], DOMAIN requirements, DOMAIN tickets)

Numbered ==
  /\ \E n \in 0 .. MaxRequirements : DOMAIN requirements = 1 .. n /\ DOMAIN moves = 1 .. n
  /\ \E n \in 0 .. MaxTickets : DOMAIN tickets = 1 .. n

\* A requirement, its history and its tickets tell one story.
OneStory(r) ==
  /\ requirements[r] \in Requirement
  /\ moves[r] \in Seq(Move) /\ moves[r] # <<>>
  /\ moves[r][Len(moves[r])].to = requirements[r].status
  /\ Cardinality(TicketsOf(r)) = Cardinality(Conversions(r))

RowsInv ==
  /\ Numbered
  /\ \A r \in DOMAIN requirements : OneStory(r)
  /\ \A t \in DOMAIN tickets : tickets[t] \in Ticket /\ tickets[t].requirement \in DOMAIN requirements

MinutesInv ==
  /\ meeting \in MeetingRow /\ LineList(points)
  /\ \A r \in DOMAIN requirements : requirements[r].point \in DOMAIN points \cup {0}

\* Each row is one file of one owner there is.
FilesInv ==
  /\ files \in [DOMAIN files -> {1}]
  /\ DOMAIN files \subseteq [owner : Owner, url : Url]
  /\ disk \subseteq Url

\* Converted for good, on the system of its tickets.
Terminal ==
  \A t \in DOMAIN tickets :
    LET r == requirements[tickets[t].requirement]
    IN  r.status = "CONVERTED" /\ r.system = tickets[t].system

Chain(h) == \A i \in 2 .. Len(h) : h[i].from = h[i - 1].to

Chained == \A r \in DOMAIN moves : Chain(moves[r])

IntakeInv ==
  /\ RequestsInv /\ RowsInv /\ MinutesInv /\ FilesInv
  /\ ~overlapped => Terminal /\ Chained /\ Contiguous(points)

-----------------------------------------------------------------------------
(* What the rows gain                                                      *)

LEMMA CarriesOn ==
  ASSUME NEW q, NEW R, NEW T, Carries(q, R, T), NEW R2, R \subseteq R2, NEW T2, T \subseteq T2
  PROVE  Carries(q, R2, T2)
BY DEF Carries

LEMMA IdleCarries ==
  ASSUME NEW R, NEW T
  PROVE  Carries(Idle, R, T)
BY DEF Carries, Idle

\* A request that begins, goes on or ends beside rows that do not go away.
LEMMA OneRequest ==
  ASSUME RequestsInv, NEW s \in Slot, NEW q, inflight' = [inflight EXCEPT ![s] = q],
         DOMAIN requirements \subseteq DOMAIN requirements', DOMAIN tickets \subseteq DOMAIN tickets',
         Carries(q, DOMAIN requirements', DOMAIN tickets')
  PROVE  RequestsInv'
<1>1. /\ DOMAIN inflight' = Slot /\ inflight'[s] = q
      /\ \A t \in Slot : t # s => inflight'[t] = inflight[t]
  BY DEF RequestsInv
<1>2. ASSUME NEW t \in Slot
      PROVE  Carries(inflight'[t], DOMAIN requirements', DOMAIN tickets')
  <2>1. CASE t = s
    BY <1>1, <2>1
  <2>2. CASE t # s
    BY <1>1, <2>2, CarriesOn DEF RequestsInv
  <2> QED
    BY <2>1, <2>2
<1> QED
  BY <1>1, <1>2 DEF RequestsInv

LEMMA RequestEnds ==
  ASSUME RequestsInv, NEW s \in Slot, Finish(s),
         DOMAIN requirements \subseteq DOMAIN requirements', DOMAIN tickets \subseteq DOMAIN tickets'
  PROVE  RequestsInv'
BY IdleCarries, OneRequest DEF Finish

\* The rows that are numbered are finitely many, and the next number is new.
LEMMA NextIsNew ==
  ASSUME NEW rows, NEW n \in Nat, DOMAIN rows = 1 .. n
  PROVE  /\ Next1(rows) = n + 1 /\ n + 1 \notin DOMAIN rows
         /\ IsFiniteSet(DOMAIN rows) /\ Cardinality(DOMAIN rows) = n
         /\ \A row : LET new == Inserted(rows, n + 1, row)
                     IN  /\ DOMAIN new = 1 .. n + 1 /\ new[n + 1] = row
                         /\ \A i \in DOMAIN rows : new[i] = rows[i]
<1>1. IsFiniteSet(1 .. n) /\ Cardinality(1 .. n) = n
  BY FS_Interval
<1>2. (1 .. n) \cup {n + 1} = 1 .. n + 1 /\ n + 1 \notin 1 .. n
  OBVIOUS
<1> QED
  BY <1>1, <1>2 DEF Next1, Inserted

\* One row more in a history.
LEMMA OneMove ==
  ASSUME NEW h \in Seq(Move), NEW m \in Move
  PROVE  LET k == Append(h, m)
             C(x) == { i \in DOMAIN x : x[i].to = "CONVERTED" }
         IN  /\ k \in Seq(Move) /\ k # <<>> /\ k[Len(k)] = m
             /\ m.to # "CONVERTED" => C(k) = C(h)
             /\ m.to = "CONVERTED" => Cardinality(C(k)) = Cardinality(C(h)) + 1
             /\ Chain(h) /\ (h # <<>> => m.from = h[Len(h)].to) => Chain(k)
<1> DEFINE k == Append(h, m)
           C(x) == { i \in DOMAIN x : x[i].to = "CONVERTED" }
           n == Len(h)
<1>1. /\ k \in Seq(Move) /\ Len(k) = n + 1 /\ k[n + 1] = m /\ n \in Nat
      /\ DOMAIN h = 1 .. n /\ DOMAIN k = 1 .. n + 1
      /\ \A i \in 1 .. n : k[i] = h[i]
  OBVIOUS
<1> HIDE DEF k
<1>2. k # <<>> /\ k[Len(k)] = m
  BY <1>1
<1>3. m.to # "CONVERTED" => C(k) = C(h)
  BY <1>1
<1>4. ASSUME m.to = "CONVERTED" PROVE Cardinality(C(k)) = Cardinality(C(h)) + 1
  <2>1. C(k) = C(h) \cup {n + 1} /\ n + 1 \notin C(h)
    BY <1>1, <1>4
  <2>2. IsFiniteSet(C(h))
    <3>1. IsFiniteSet(1 .. n) /\ C(h) \subseteq 1 .. n
      BY <1>1, FS_Interval
    <3> QED
      BY <3>1, FS_Subset
  <2> HIDE DEF C
  <2> QED
    BY <2>1, <2>2, FS_AddElement
<1>5. ASSUME Chain(h), h # <<>> => m.from = h[n].to PROVE Chain(k)
  <2>1. ASSUME NEW i \in 2 .. n + 1 PROVE k[i].from = k[i - 1].to
    <3>1. CASE i \in 2 .. n
      BY <1>1, <1>5, <3>1 DEF Chain
    <3>2. CASE i = n + 1
      <4>1. h # <<>> /\ i - 1 = n /\ n \in 1 .. n
        BY <1>1, <2>1, <3>2
      <4> QED
        BY <1>1, <1>5, <3>2, <4>1
    <3> QED
      BY <1>1, <2>1, <3>1, <3>2
  <2> QED
    BY <1>1, <2>1 DEF Chain
<1> QED
  BY <1>1, <1>2, <1>3, <1>4, <1>5 DEF k

-----------------------------------------------------------------------------
(* What a write does to the rows                                           *)

\* The rows stay as they are but for fields that are not the status.
LEMMA Rewritten ==
  ASSUME RowsInv, UNCHANGED <<moves, tickets>>, DOMAIN requirements' = DOMAIN requirements,
         \A r \in DOMAIN requirements :
           requirements'[r] \in Requirement /\ requirements'[r].status = requirements[r].status
  PROVE  RowsInv' /\ (Chained => Chained')
<1>1. Numbered' /\ (Chained => Chained')
  BY DEF RowsInv, Numbered, Chained
<1>2. ASSUME NEW r \in DOMAIN requirements PROVE OneStory(r)'
  <2>1. TicketsOf(r)' = TicketsOf(r) /\ Conversions(r)' = Conversions(r)
    BY DEF TicketsOf, Conversions
  <2> QED
    BY <2>1 DEF RowsInv, OneStory
<1> QED
  BY <1>1, <1>2 DEF RowsInv

LEMMA Opens ==
  ASSUME RowsInv, NEW row \in Requirement, row.status = "NEW", Opened(row), UNCHANGED tickets
  PROVE  /\ RowsInv' /\ (Chained => Chained') /\ (Terminal => Terminal')
         /\ Next1(requirements) \notin DOMAIN requirements
         /\ DOMAIN requirements' = DOMAIN requirements \cup {Next1(requirements)}
         /\ requirements'[Next1(requirements)] = row
         /\ \A r \in DOMAIN requirements : requirements'[r] = requirements[r]
<1> DEFINE first == <<[from |-> "none", to |-> "NEW"]>>
<1>1. PICK n \in 0 .. MaxRequirements : DOMAIN requirements = 1 .. n /\ DOMAIN moves = 1 .. n
  BY DEF RowsInv, Numbered
<1>2. n \in Nat
  OBVIOUS
<1>3. /\ requirements' = Inserted(requirements, n + 1, row) /\ moves' = Inserted(moves, n + 1, first)
      /\ n + 1 <= MaxRequirements /\ Next1(requirements) = n + 1
  BY <1>1, <1>2, NextIsNew DEF Opened
<1>4. /\ DOMAIN requirements' = 1 .. n + 1 /\ DOMAIN moves' = 1 .. n + 1
      /\ requirements'[n + 1] = row /\ moves'[n + 1] = first
      /\ \A r \in 1 .. n : requirements'[r] = requirements[r] /\ moves'[r] = moves[r]
      /\ n + 1 \notin 1 .. n /\ 1 .. n + 1 = (1 .. n) \cup {n + 1}
  BY <1>1, <1>2, <1>3, NextIsNew
<1>5. Numbered'
  <2>1. n + 1 \in 0 .. MaxRequirements
    BY <1>2, <1>3, BacklogAssumption
  <2> QED
    BY <1>4, <2>1 DEF RowsInv, Numbered
<1>6. /\ first \in Seq(Move) /\ first # <<>> /\ Len(first) = 1 /\ DOMAIN first = {1}
      /\ first[1].to = "NEW"
  BY DEF Move, RequirementStatus
<1>7. ASSUME NEW r \in 1 .. n PROVE OneStory(r)'
  <2>1. TicketsOf(r)' = TicketsOf(r) /\ Conversions(r)' = Conversions(r)
    BY <1>4 DEF TicketsOf, Conversions
  <2> QED
    BY <1>1, <1>4, <2>1 DEF RowsInv, OneStory
<1>8. OneStory(n + 1)'
  <2>1. TicketsOf(n + 1)' = {}
    BY <1>1, <1>4 DEF TicketsOf, RowsInv
  <2>2. Conversions(n + 1)' = {}
    BY <1>4, <1>6 DEF Conversions
  <2> HIDE DEF first
  <2> QED
    BY <1>4, <1>6, <2>1, <2>2 DEF OneStory
<1>9. RowsInv'
  BY <1>1, <1>4, <1>5, <1>7, <1>8 DEF RowsInv
<1>10. Chain(first)
  BY <1>6 DEF Chain
<1>11. Chained => Chained'
  BY <1>1, <1>4, <1>10 DEF Chained
<1>12. Terminal => Terminal'
  BY <1>1, <1>4 DEF Terminal, RowsInv
<1> QED
  BY <1>1, <1>3, <1>4, <1>9, <1>11, <1>12

\* A status and its row of history, whatever it is decided from.
LEMMA Moves ==
  ASSUME RowsInv, NEW q, q.of \in DOMAIN requirements, q.row \in Requirement,
         NEW to \in RequirementStatus, Moved(q, to)
  PROVE  /\ DOMAIN requirements' = DOMAIN requirements /\ DOMAIN moves' = DOMAIN moves
         /\ \A r \in DOMAIN requirements :
              /\ requirements'[r] \in Requirement
              /\ requirements'[r].point = requirements[r].point
              /\ requirements'[r].system = requirements[r].system
              /\ r # q.of => requirements'[r] = requirements[r] /\ moves'[r] = moves[r]
         /\ requirements'[q.of].status = to
         /\ LET h == moves'[q.of]
            IN  h \in Seq(Move) /\ h # <<>> /\ h[Len(h)].to = to
         /\ to # "CONVERTED" => Conversions(q.of)' = Conversions(q.of)
         /\ to = "CONVERTED" => Cardinality(Conversions(q.of)') = Cardinality(Conversions(q.of)) + 1
         /\ Chained /\ q.row = requirements[q.of] => Chained'
<1> DEFINE r0 == q.of
           h == moves[r0]
           m == [from |-> q.row.status, to |-> to]
<1>1. /\ requirements' = [requirements EXCEPT ![r0].status = to]
      /\ moves' = [moves EXCEPT ![r0] = Append(h, m)]
  BY DEF Moved
<1>2. /\ r0 \in DOMAIN moves /\ DOMAIN moves = DOMAIN requirements
      /\ h \in Seq(Move) /\ h # <<>> /\ h[Len(h)].to = requirements[r0].status
      /\ \A r \in DOMAIN requirements : requirements[r] \in Requirement
  BY DEF RowsInv, Numbered, OneStory
<1>3. m \in Move /\ m.to = to /\ m.from = q.row.status
  BY DEF Move, Requirement
<1>4. /\ DOMAIN requirements' = DOMAIN requirements /\ DOMAIN moves' = DOMAIN moves
      /\ moves'[r0] = Append(h, m)
      /\ requirements'[r0] = [requirements[r0] EXCEPT !.status = to]
      /\ \A r \in DOMAIN requirements :
           r # r0 => requirements'[r] = requirements[r] /\ moves'[r] = moves[r]
  BY <1>1, <1>2
<1>5. /\ requirements'[r0] \in Requirement /\ requirements'[r0].status = to
      /\ requirements'[r0].point = requirements[r0].point
      /\ requirements'[r0].system = requirements[r0].system
  BY <1>2, <1>4 DEF Requirement
<1> DEFINE k == Append(h, m)
           C(x) == { i \in DOMAIN x : x[i].to = "CONVERTED" }
<1> HIDE DEF m
<1>6. /\ k \in Seq(Move) /\ k # <<>> /\ k[Len(k)] = m
      /\ to # "CONVERTED" => C(k) = C(h)
      /\ to = "CONVERTED" => Cardinality(C(k)) = Cardinality(C(h)) + 1
      /\ Chain(h) /\ m.from = h[Len(h)].to => Chain(k)
  <2> HIDE DEF h
  <2>1. h \in Seq(Move) /\ h # <<>> /\ m \in Move
    BY <1>2, <1>3
  <2>2. LET x == Append(h, m)
            D(y) == { i \in DOMAIN y : y[i].to = "CONVERTED" }
        IN  /\ x \in Seq(Move) /\ x # <<>> /\ x[Len(x)] = m
            /\ m.to # "CONVERTED" => D(x) = D(h)
            /\ m.to = "CONVERTED" => Cardinality(D(x)) = Cardinality(D(h)) + 1
            /\ Chain(h) /\ (h # <<>> => m.from = h[Len(h)].to) => Chain(x)
    BY <2>1, OneMove
  <2> QED
    BY <1>3, <2>1, <2>2
<1>7. Conversions(r0) = C(h) /\ Conversions(r0)' = C(k)
  BY <1>4 DEF Conversions
<1> HIDE DEF k, C
<1>8. ASSUME Chained, q.row = requirements[r0] PROVE Chained'
  <2>1. Chain(k)
    BY <1>2, <1>3, <1>6, <1>8 DEF Chained
  <2>2. moves'[r0] = k
    BY <1>4 DEF k
  <2> QED
    BY <1>2, <1>4, <1>8, <2>1, <2>2 DEF Chained
<1>9. LET x == moves'[r0] IN x \in Seq(Move) /\ x # <<>> /\ x[Len(x)].to = to
  BY <1>3, <1>4, <1>6 DEF k
<1> QED
  BY <1>2, <1>4, <1>5, <1>6, <1>7, <1>8, <1>9

-----------------------------------------------------------------------------
(* Files                                                                   *)

LEMMA HeldFiles ==
  ASSUME FilesInv, NEW owner
  PROVE  /\ Held(owner) \subseteq Url
         /\ \A u \in Url \ Held(owner) : [owner |-> owner, url |-> u] \notin DOMAIN files
         /\ owner \notin Owner => Held(owner) = {}
<1>1. \A f \in DOMAIN files : f.owner \in Owner /\ f.url \in Url
  BY DEF FilesInv
<1> QED
  BY <1>1 DEF Held, BagToSet

\* Rows nobody has yet, for an owner there is.
LEMMA FilesAdded ==
  ASSUME FilesInv, NEW owner, owner \in Owner', Owner \subseteq Owner', NEW urls, urls \subseteq Url,
         \A u \in urls : [owner |-> owner, url |-> u] \notin DOMAIN files,
         files' = files (+) Rows(owner, urls), disk' \subseteq Url
  PROVE  FilesInv'
<1> DEFINE more == [owner : {owner}, url : urls]
<1>1. DOMAIN files \cap more = {}
  <2>1. ASSUME NEW f \in more PROVE f \notin DOMAIN files
    <3>1. f = [owner |-> owner, url |-> f.url] /\ f.url \in urls
      BY <2>1
    <3> QED
      BY <3>1
  <2> QED
    BY <2>1
<1>2. more \subseteq [owner : Owner', url : Url]
  OBVIOUS
<1>3. DOMAIN files \subseteq [owner : Owner', url : Url]
  <2>1. [owner : Owner, url : Url] \subseteq [owner : Owner', url : Url]
    OBVIOUS
  <2> QED
    BY <2>1 DEF FilesInv
<1> HIDE DEF more
<1>4. files' = files (+) SetToBag(more)
  BY DEF Rows, more
<1>5. files' \in [DOMAIN files' -> {1}] /\ DOMAIN files' = DOMAIN files \cup more
  BY <1>1, <1>4 DEF FilesInv, (+), SetToBag
<1> QED
  BY <1>2, <1>3, <1>5 DEF FilesInv

\* The owners are those of the rows.
LEMMA OwnersGrow ==
  ASSUME DOMAIN requirements \subseteq DOMAIN requirements', DOMAIN tickets \subseteq DOMAIN tickets'
  PROVE  Owner \subseteq Owner'
BY DEF Owner, OfRequirement, OfTicket, Meeting

LEMMA OwnerOfRow ==
  ASSUME NEW id
  PROVE  /\ OfTicket(id) \in Owner <=> id \in DOMAIN tickets
         /\ OfRequirement(id) \in Owner <=> id \in DOMAIN requirements
         /\ Meeting \in Owner
<1>1. \A i, j : /\ OfTicket(i) = OfTicket(j) <=> i = j
                /\ OfRequirement(i) = OfRequirement(j) <=> i = j
                /\ OfTicket(i) # OfRequirement(j)
                /\ OfTicket(i) # Meeting /\ OfRequirement(i) # Meeting
  BY DEF OfTicket, OfRequirement, Meeting
<1> HIDE DEF OfTicket, OfRequirement, Meeting
<1> QED
  BY <1>1 DEF Owner

\* Nothing is said of what is not written.
LEMMA KeepsRows ==
  ASSUME IntakeInv, UNCHANGED <<rowVars, overlapped, meetingVars>>
  PROVE  /\ RowsInv' /\ MinutesInv' /\ (~overlapped' => Terminal' /\ Chained' /\ Contiguous(points)')
         /\ Owner' = Owner
<1>1. /\ requirements' = requirements /\ moves' = moves /\ tickets' = tickets
      /\ meeting' = meeting /\ points' = points /\ overlapped' = overlapped
  BY DEF rowVars, meetingVars
<1>2. RowsInv'
  <2>1. Numbered' /\ RowsInv
    BY <1>1 DEF IntakeInv, RowsInv, Numbered
  <2>2. \A r : OneStory(r)' <=> OneStory(r)
    BY <1>1 DEF OneStory, TicketsOf, Conversions
  <2> QED
    BY <1>1, <2>1, <2>2 DEF RowsInv
<1>3. MinutesInv'
  BY <1>1 DEF IntakeInv, MinutesInv
<1>4. ~overlapped' => Terminal' /\ Chained' /\ Contiguous(points)'
  BY <1>1 DEF IntakeInv, Terminal, Chained
<1> QED
  BY <1>1, <1>2, <1>3, <1>4 DEF Owner

LEMMA OnlyRequests ==
  ASSUME IntakeInv, RequestsInv', UNCHANGED <<rowVars, fileVars, overlapped, meetingVars>>
  PROVE  IntakeInv'
<1>1. files' = files /\ disk' = disk
  BY DEF fileVars
<1>2. /\ RowsInv' /\ MinutesInv' /\ (~overlapped' => Terminal' /\ Chained' /\ Contiguous(points)')
      /\ Owner' = Owner
  BY KeepsRows
<1> QED
  BY <1>1, <1>2 DEF IntakeInv, FilesInv

-----------------------------------------------------------------------------
(* The loads                                                               *)

LEMMA Starts ==
  ASSUME IntakeInv, NEW s \in Slot, NEW q, Start(s, q), Carries(q, DOMAIN requirements, DOMAIN tickets),
         UNCHANGED rowVars
  PROVE  RequestsInv'
<1>1. inflight' = [inflight EXCEPT ![s] = q] /\ requirements' = requirements /\ tickets' = tickets
  BY DEF Start, rowVars
<1> QED
  BY <1>1, OneRequest DEF IntakeInv

LEMMA LoadRequirementKeeps ==
  ASSUME IntakeInv, UNCHANGED meetingVars, NEW s \in Slot, LoadRequirement(s)
  PROVE  IntakeInv'
<1>1. UNCHANGED <<rowVars, fileVars, overlapped, meetingVars>>
  BY DEF LoadRequirement
<1>2. PICK r \in DOMAIN requirements :
        \/ \E pin \in Pin : LoadTriage(s, r, pin)
        \/ \E to \in RequirementStatus : LoadStatus(s, r, to)
        \/ LoadPromote(s, r)
        \/ LoadArchive(s, r)
  BY DEF LoadRequirement
<1>3. requirements[r] \in Requirement
  BY DEF IntakeInv, RowsInv, OneStory
<1>4. CASE \E pin \in Pin : LoadTriage(s, r, pin)
  <2>1. PICK pin \in Pin : LoadTriage(s, r, pin)
    BY <1>4
  <2> DEFINE q == [op |-> "triage", of |-> r, row |-> requirements[r], to |-> pin]
  <2>2. Start(s, q) /\ Carries(q, DOMAIN requirements, DOMAIN tickets)
    BY <1>3, <2>1 DEF LoadTriage, Carries
  <2> QED
    BY <1>1, <2>2, Starts, OnlyRequests
<1>5. CASE \E to \in RequirementStatus : LoadStatus(s, r, to)
  <2>1. PICK to \in RequirementStatus : LoadStatus(s, r, to)
    BY <1>5
  <2> DEFINE q == [op |-> "status", of |-> r, row |-> requirements[r], to |-> to]
  <2>2. Start(s, q) /\ Carries(q, DOMAIN requirements, DOMAIN tickets)
    BY <1>3, <2>1 DEF LoadStatus, Carries
  <2> QED
    BY <1>1, <2>2, Starts, OnlyRequests
<1>6. CASE LoadPromote(s, r)
  <2> DEFINE q == [op |-> "promote", of |-> r, row |-> requirements[r]]
  <2>2. Start(s, q) /\ Carries(q, DOMAIN requirements, DOMAIN tickets)
    BY <1>3, <1>6 DEF LoadPromote, Carries
  <2> QED
    BY <1>1, <2>2, Starts, OnlyRequests
<1>7. CASE LoadArchive(s, r)
  <2> DEFINE q == [op |-> "archive", of |-> r, row |-> requirements[r]]
  <2>2. Start(s, q) /\ Carries(q, DOMAIN requirements, DOMAIN tickets)
    BY <1>3, <1>7 DEF LoadArchive, Carries
  <2> QED
    BY <1>1, <2>2, Starts, OnlyRequests
<1> QED
  BY <1>2, <1>4, <1>5, <1>6, <1>7

\* Minutes are changed by those who found them open.
LEMMA LoadMeetingKeeps ==
  ASSUME IntakeInv, NEW s \in Slot, LoadMeeting(s)
  PROVE  IntakeInv'
<1>1. UNCHANGED <<rowVars, fileVars, overlapped, meetingVars>> /\ UNCHANGED rowVars
  BY DEF LoadMeeting
<1>2. LineList(points) /\ (OpenMinutes <=> IsOpen(meeting)) /\ Minutes[1] = meeting /\ Minutes[2] = points
  BY DEF IntakeInv, MinutesInv, OpenMinutes, IsOpen, Minutes
<1>3. SUFFICES \E q : Start(s, q) /\ Carries(q, DOMAIN requirements, DOMAIN tickets)
  BY <1>1, Starts, OnlyRequests
<1>4. CASE \E to \in { "HELD", "CANCELLED" } : LoadMove(s, to)
  <2>1. PICK to \in { "HELD", "CANCELLED" } : LoadMove(s, to)
    BY <1>4
  <2> DEFINE q == [op |-> "meet", seen |-> meeting, to |-> to]
  <2>2. Start(s, q) /\ Carries(q, DOMAIN requirements, DOMAIN tickets)
    BY <2>1 DEF LoadMove, Carries
  <2> QED
    BY <2>2
<1>5. CASE LoadShelve(s)
  <2> DEFINE q == [op |-> "shelve", seen |-> meeting]
  <2>1. Start(s, q) /\ Carries(q, DOMAIN requirements, DOMAIN tickets)
    BY <1>5 DEF LoadShelve, Carries
  <2> QED
    BY <2>1
<1>6. CASE LoadAdd(s)
  <2> DEFINE q == [op |-> "add", seen |-> Minutes, order |-> Bottom]
  <2>1. /\ Bottom \in 0 .. MaxPoints
        /\ Contiguous(points) => Bottom = Cardinality(DOMAIN points)
    BY <1>2, <1>6, BottomIsNext, MaxPointsAssumption DEF LoadAdd
  <2>2. Start(s, q) /\ IsOpen(meeting)
    BY <1>2, <1>6 DEF LoadAdd
  <2>3. Carries(q, DOMAIN requirements, DOMAIN tickets)
    BY <1>2, <2>1, <2>2 DEF Carries
  <2> QED
    BY <2>2, <2>3
<1>7. CASE \E p \in DOMAIN points :
             \/ \E target \in 0 .. MaxPoints : LoadReorder(s, p, target)
             \/ LoadRemove(s, p)
             \/ \E pin \in Pin : LoadCapture(s, p, pin)
  <2>1. PICK p \in DOMAIN points :
          \/ \E target \in 0 .. MaxPoints : LoadReorder(s, p, target)
          \/ LoadRemove(s, p)
          \/ \E pin \in Pin : LoadCapture(s, p, pin)
    BY <1>7
  <2>2. CASE \E target \in 0 .. MaxPoints : LoadReorder(s, p, target)
    <3>1. PICK target \in 0 .. MaxPoints : LoadReorder(s, p, target)
      BY <2>2
    <3> DEFINE list == MovedTo(points, p, target)
               q == [op |-> "reorder", seen |-> Minutes, point |-> p, list |-> list]
    <3>2. LineList(list) /\ DOMAIN list = DOMAIN points /\ Contiguous(list)
      BY <1>2, MovedToContiguous
    <3>3. Start(s, q) /\ IsOpen(meeting)
      BY <1>2, <3>1 DEF LoadReorder
    <3> HIDE DEF list
    <3>4. Carries(q, DOMAIN requirements, DOMAIN tickets)
      BY <1>2, <3>2, <3>3 DEF Carries
    <3> QED
      BY <3>3, <3>4
  <2>3. CASE LoadRemove(s, p)
    <3> DEFINE q == [op |-> "remove", seen |-> Minutes, point |-> p]
    <3>1. Start(s, q) /\ Carries(q, DOMAIN requirements, DOMAIN tickets)
      BY <1>2, <2>3 DEF LoadRemove, Carries
    <3> QED
      BY <3>1
  <2>4. CASE \E pin \in Pin : LoadCapture(s, p, pin)
    <3>1. PICK pin \in Pin : LoadCapture(s, p, pin)
      BY <2>4
    <3> DEFINE q == [op |-> "capture", seen |-> Minutes, point |-> p, pin |-> pin]
    <3>2. p \in Nat
      BY <1>2 DEF LineList
    <3>3. Start(s, q) /\ Carries(q, DOMAIN requirements, DOMAIN tickets)
      BY <3>1, <3>2 DEF LoadCapture, Carries
    <3> QED
      BY <3>3
  <2> QED
    BY <2>1, <2>2, <2>3, <2>4
<1> QED
  BY <1>4, <1>5, <1>6, <1>7 DEF LoadMeeting

LEMMA DropKeeps ==
  ASSUME IntakeInv, NEW s \in Slot, Drop(s)
  PROVE  IntakeInv'
<1>1. /\ UNCHANGED <<rowVars, fileVars, overlapped, meetingVars>> /\ Finish(s)
      /\ requirements' = requirements /\ tickets' = tickets
  BY DEF Drop, rowVars
<1>2. RequestsInv'
  BY <1>1, RequestEnds DEF IntakeInv
<1> QED
  BY <1>1, <1>2, OnlyRequests

-----------------------------------------------------------------------------
(* The steps of files                                                      *)

LEMMA FileStepKeeps ==
  ASSUME IntakeInv, UNCHANGED meetingVars, NEW s \in Slot, FileStep(s)
  PROVE  IntakeInv'
<1>1. UNCHANGED <<rowVars, overlapped>>
  BY DEF FileStep, Upload, ListTickets, Follow, Unlink, DeleteRow
<1>2. /\ RowsInv' /\ MinutesInv' /\ (~overlapped' => Terminal' /\ Chained' /\ Contiguous(points)')
      /\ Owner' = Owner
  BY <1>1, KeepsRows
<1>3. requirements' = requirements /\ tickets' = tickets
  BY <1>1 DEF rowVars
<1> DEFINE R == DOMAIN requirements
           T == DOMAIN tickets
           p == inflight[s]
<1>4. SUFFICES RequestsInv' /\ FilesInv'
  BY <1>2 DEF IntakeInv
<1>5. FilesInv /\ RequestsInv /\ Carries(p, R, T)
  BY DEF IntakeInv, RequestsInv
<1>6. ASSUME NEW owner \in Owner, NEW url \in Url, Upload(s, owner, url)
      PROVE  RequestsInv' /\ FilesInv'
  <2>1. files' = files (+) Rows(owner, {url}) /\ disk' = disk \cup {url}
    BY <1>6 DEF Upload
  <2>2. [owner |-> owner, url |-> url] \notin DOMAIN files
    BY <1>6 DEF Upload, Fresh, BagToSet
  <2>3. FilesInv'
    <3>1. disk' \subseteq Url
      BY <1>5, <2>1 DEF FilesInv
    <3> QED
      BY <1>2, <1>5, <2>1, <2>2, <3>1, FilesAdded
  <2>4. CASE owner.kind = "requirement"
    <3> DEFINE q == [op |-> "listing", of |-> owner.id, url |-> url]
    <3>1. Start(s, q)
      BY <1>6, <2>4 DEF Upload
    <3>2. owner.id \in R
      BY <2>4 DEF Owner, Meeting, OfRequirement, OfTicket
    <3>3. Carries(q, R, T)
      BY <3>2 DEF Carries
    <3> QED
      BY <1>1, <2>3, <3>1, <3>3, Starts
  <2>5. CASE owner.kind # "requirement"
    <3>1. inflight' = inflight
      BY <1>6, <2>5 DEF Upload
    <3> QED
      BY <1>3, <1>5, <2>3, <3>1 DEF RequestsInv
  <2> QED
    BY <2>4, <2>5
<1>7. CASE ListTickets(s)
  <2> DEFINE todo == { t \in DOMAIN tickets : tickets[t].requirement = p.of }
             q == [op |-> "follow", of |-> p.of, url |-> p.url, todo |-> todo]
             next == IF todo = {} THEN Idle ELSE q
  <2>1. p.op = "listing" /\ inflight' = [inflight EXCEPT ![s] = next] /\ UNCHANGED fileVars
    BY <1>7 DEF ListTickets, Is
  <2>2. Carries(q, R, T)
    BY <1>5, <2>1 DEF Carries
  <2> HIDE DEF q, todo
  <2>3. Carries(next, R, T)
    BY <2>2, IdleCarries
  <2>4. RequestsInv'
    BY <1>3, <1>5, <2>1, <2>3, OneRequest
  <2> QED
    BY <1>2, <1>5, <2>1, <2>4 DEF FilesInv, fileVars
<1>8. CASE Follow(s)
  <2>1. PICK t \in p.todo :
          /\ files' = files (+) Following(p, t)
          /\ inflight' = [inflight EXCEPT ![s] =
               IF p.todo = {t} THEN Idle ELSE [p EXCEPT !.todo = @ \ {t}]]
    BY <1>8 DEF Follow
  <2>2. p.op = "follow" /\ disk' = disk
    BY <1>8 DEF Follow, Is
  <2> DEFINE q == [p EXCEPT !.todo = @ \ {t}]
             urls == {p.url} \cap (Held(OfRequirement(p.of)) \ Held(OfTicket(t)))
  <2>3. t \in T /\ OfTicket(t) \in Owner /\ p.url \in Url
    BY <1>5, <2>2, OwnerOfRow DEF Carries
  <2>4. FilesInv'
    <3>1. files' = files (+) Rows(OfTicket(t), urls)
      BY <2>1 DEF Following
    <3>2. urls \subseteq Url /\ \A u \in urls : [owner |-> OfTicket(t), url |-> u] \notin DOMAIN files
      BY <1>5, <2>3, HeldFiles
    <3>3. disk' \subseteq Url
      BY <1>5, <2>2 DEF FilesInv
    <3> QED
      BY <1>2, <1>5, <2>3, <3>1, <3>2, <3>3, FilesAdded
  <2>5. q \in [op : {"follow"}, of : R, url : Url, todo : SUBSET T]
    BY <1>5, <2>2 DEF Carries
  <2>6. Carries(q, R, T)
    BY <2>5 DEF Carries
  <2> HIDE DEF q
  <2>7. RequestsInv'
    BY <1>3, <1>5, <2>1, <2>6, IdleCarries, OneRequest DEF q
  <2> QED
    BY <2>4, <2>7
<1>9. ASSUME NEW f \in BagToSet(files), Unlink(s, f)
      PROVE  RequestsInv' /\ FilesInv'
  <2> DEFINE q == [op |-> "unlink", file |-> f]
  <2>1. Start(s, q) /\ files' = files /\ disk' = disk \ {f.url}
    BY <1>9 DEF Unlink
  <2>2. Carries(q, R, T)
    BY DEF Carries
  <2>3. RequestsInv'
    BY <1>1, <2>1, <2>2, Starts
  <2> QED
    BY <1>2, <1>5, <2>1, <2>3 DEF FilesInv
<1>10. CASE DeleteRow(s)
  <2>1. files' = files (-) SetToBag({p.file}) /\ Finish(s) /\ disk' = disk
    BY <1>10 DEF DeleteRow
  <2>2. files' \in [DOMAIN files' -> {1}] /\ DOMAIN files' = DOMAIN files \ {p.file}
    BY <1>5, <2>1 DEF FilesInv, (-), SetToBag
  <2>3. RequestsInv'
    BY <1>3, <1>5, <2>1, RequestEnds
  <2> QED
    BY <1>2, <1>5, <2>1, <2>2, <2>3 DEF FilesInv
<1> QED
  BY <1>6, <1>7, <1>8, <1>9, <1>10 DEF FileStep

-----------------------------------------------------------------------------
(* The writes                                                              *)

\* Who notes no overlap found what was there, and so did all before.
LEMMA NoOverlap ==
  ASSUME NEW seen, NEW now, Noting(seen, now), ~overlapped'
  PROVE  ~overlapped /\ seen = now
BY DEF Noting

LEMMA FilesStay ==
  ASSUME FilesInv, UNCHANGED fileVars, Owner \subseteq Owner'
  PROVE  FilesInv'
<1>1. files' = files /\ disk' = disk
  BY DEF fileVars
<1>2. [owner : Owner, url : Url] \subseteq [owner : Owner', url : Url]
  OBVIOUS
<1> QED
  BY <1>1, <1>2 DEF FilesInv

(***************************************************************************)
(* The writes that open no requirement and move no status: the system of a *)
(* requirement with tickets is kept by those who saw its row, and a        *)
(* requirement is left on no line that is gone.                            *)
(***************************************************************************)
LEMMA RewrittenKeeps ==
  ASSUME IntakeInv, UNCHANGED <<moves, tickets, fileVars>>, NEW s \in Slot, Finish(s),
         meeting' \in MeetingRow, LineList(points'),
         DOMAIN requirements' = DOMAIN requirements,
         \A r \in DOMAIN requirements :
           /\ requirements'[r] \in Requirement /\ requirements'[r].status = requirements[r].status
           /\ requirements'[r].point \in DOMAIN points' \cup {0},
         ~overlapped' =>
           /\ ~overlapped
           /\ Contiguous(points) => Contiguous(points')
           /\ \A r \in DOMAIN requirements :
                requirements[r].status = "CONVERTED" =>
                  requirements'[r].system = requirements[r].system
  PROVE  IntakeInv'
<1>1. RowsInv' /\ (Chained => Chained')
  BY Rewritten DEF IntakeInv
<1>2. RequestsInv'
  BY RequestEnds DEF IntakeInv
<1>3. MinutesInv'
  BY DEF MinutesInv
<1>4. FilesInv'
  <2>1. Owner' = Owner
    BY DEF Owner
  <2> QED
    BY <2>1, FilesStay DEF IntakeInv
<1>5. ASSUME ~overlapped' PROVE Terminal' /\ Chained' /\ Contiguous(points)'
  <2>1. Terminal /\ Chained /\ Contiguous(points)
    BY <1>5 DEF IntakeInv
  <2>2. \A t \in DOMAIN tickets : tickets[t].requirement \in DOMAIN requirements
    BY DEF IntakeInv, RowsInv
  <2> QED
    BY <1>1, <1>5, <2>1, <2>2 DEF Terminal
<1> QED
  BY <1>1, <1>2, <1>3, <1>4, <1>5 DEF IntakeInv

LEMMA TriageKeeps ==
  ASSUME IntakeInv, UNCHANGED meetingVars, NEW s \in Slot, Triage(s)
  PROVE  IntakeInv'
<1> DEFINE q == inflight[s]
<1>1. /\ q.op = "triage" /\ Finish(s) /\ Noting(q.row, requirements[q.of])
      /\ requirements' = [requirements EXCEPT ![q.of].system = q.to]
      /\ UNCHANGED <<moves, tickets, fileVars>> /\ meeting' = meeting /\ points' = points
  BY DEF Triage, Is, Settle, meetingVars
<1>2. /\ q.of \in DOMAIN requirements /\ Editable(q.row) /\ q.to \in Pin
      /\ \A r \in DOMAIN requirements :
           requirements[r] \in Requirement /\ requirements[r].point \in DOMAIN points \cup {0}
      /\ meeting \in MeetingRow /\ LineList(points)
  BY <1>1 DEF IntakeInv, RequestsInv, Carries, RowsInv, OneStory, MinutesInv
<1> HIDE DEF q
<1>3. DOMAIN requirements' = DOMAIN requirements
  BY <1>1
<1>4. ASSUME NEW r \in DOMAIN requirements
      PROVE  /\ requirements'[r] \in Requirement
             /\ requirements'[r].status = requirements[r].status
             /\ requirements'[r].point = requirements[r].point
             /\ r # q.of => requirements'[r] = requirements[r]
  BY <1>1, <1>2 DEF Requirement
<1>5. ASSUME ~overlapped' PROVE ~overlapped /\ requirements[q.of].status # "CONVERTED"
  BY <1>1, <1>2, <1>5, NoOverlap DEF Editable
<1> QED
  BY <1>1, <1>2, <1>3, <1>4, <1>5, RewrittenKeeps

LEMMA ArchiveKeeps ==
  ASSUME IntakeInv, UNCHANGED meetingVars, NEW s \in Slot, Archive(s)
  PROVE  IntakeInv'
<1> DEFINE q == inflight[s]
<1>1. /\ q.op = "archive" /\ Finish(s) /\ Noting(q.row, requirements[q.of])
      /\ requirements' = [requirements EXCEPT ![q.of].archived = ~q.row.archived]
      /\ UNCHANGED <<moves, tickets, fileVars>> /\ meeting' = meeting /\ points' = points
  BY DEF Archive, Is, Settle, meetingVars
<1>2. /\ q.of \in DOMAIN requirements /\ q.row \in Requirement
      /\ \A r \in DOMAIN requirements :
           requirements[r] \in Requirement /\ requirements[r].point \in DOMAIN points \cup {0}
      /\ meeting \in MeetingRow /\ LineList(points)
  BY <1>1 DEF IntakeInv, RequestsInv, Carries, RowsInv, OneStory, MinutesInv
<1> HIDE DEF q
<1>3. DOMAIN requirements' = DOMAIN requirements
  BY <1>1
<1>4. ASSUME NEW r \in DOMAIN requirements
      PROVE  /\ requirements'[r] \in Requirement
             /\ requirements'[r].status = requirements[r].status
             /\ requirements'[r].point = requirements[r].point
             /\ requirements'[r].system = requirements[r].system
  BY <1>1, <1>2 DEF Requirement
<1>5. ASSUME ~overlapped' PROVE ~overlapped
  BY <1>1, <1>5, NoOverlap
<1> QED
  BY <1>1, <1>2, <1>3, <1>4, <1>5, RewrittenKeeps

LEMMA ChangeStatusKeeps ==
  ASSUME IntakeInv, UNCHANGED meetingVars, NEW s \in Slot, ChangeStatus(s)
  PROVE  IntakeInv'
<1>0. PICK q : q = inflight[s]
  OBVIOUS
<1>1. /\ q.op = "status" /\ Finish(s) /\ Noting(q.row, requirements[q.of]) /\ Moved(q, q.to)
      /\ UNCHANGED <<tickets, fileVars>> /\ tickets' = tickets /\ meeting' = meeting /\ points' = points
  BY <1>0 DEF ChangeStatus, Is, Settle, meetingVars
<1>2. /\ q.of \in DOMAIN requirements /\ q.row \in Requirement /\ Editable(q.row)
      /\ q.to \in RequirementStatus /\ q.to # "CONVERTED"
      /\ RowsInv /\ MinutesInv /\ FilesInv
  BY <1>0, <1>1 DEF IntakeInv, RequestsInv, Carries
<1>3. /\ DOMAIN requirements' = DOMAIN requirements /\ DOMAIN moves' = DOMAIN moves
      /\ \A r \in DOMAIN requirements :
           /\ requirements'[r] \in Requirement
           /\ requirements'[r].point = requirements[r].point
           /\ r # q.of => requirements'[r] = requirements[r] /\ moves'[r] = moves[r]
      /\ requirements'[q.of].status = q.to
      /\ LET h == moves'[q.of]
         IN  h \in Seq(Move) /\ h # <<>> /\ h[Len(h)].to = q.to
      /\ Conversions(q.of)' = Conversions(q.of)
      /\ Chained /\ q.row = requirements[q.of] => Chained'
  BY <1>1, <1>2, Moves
<1>4. Numbered'
  BY <1>1, <1>2, <1>3 DEF RowsInv, Numbered
<1>5. ASSUME NEW r \in DOMAIN requirements PROVE OneStory(r)'
  <2>1. TicketsOf(r)' = TicketsOf(r) /\ OneStory(r)
    BY <1>1, <1>2 DEF TicketsOf, RowsInv
  <2>2. CASE r = q.of
    <3>1. /\ Conversions(r)' = Conversions(r) /\ requirements'[r].status = q.to
          /\ moves'[r] \in Seq(Move) /\ moves'[r] # <<>> /\ moves'[r][Len(moves'[r])].to = q.to
      BY <1>3, <2>2
    <3> QED
      BY <1>3, <2>1, <3>1 DEF OneStory
  <2>3. CASE r # q.of
    <3>1. Conversions(r)' = Conversions(r)
      BY <1>3, <2>3 DEF Conversions
    <3> QED
      BY <1>3, <2>1, <2>3, <3>1 DEF OneStory
  <2> QED
    BY <2>2, <2>3
<1>6. RowsInv'
  BY <1>1, <1>2, <1>3, <1>4, <1>5 DEF RowsInv
<1>7. MinutesInv'
  BY <1>1, <1>2, <1>3 DEF MinutesInv
<1>8. FilesInv'
  <2>1. Owner' = Owner
    BY <1>1, <1>3 DEF Owner
  <2> QED
    BY <1>1, <1>2, <2>1, FilesStay
<1>9. RequestsInv'
  BY <1>1, <1>3, RequestEnds DEF IntakeInv
<1>10. ASSUME ~overlapped' PROVE Terminal' /\ Chained' /\ Contiguous(points)'
  <2>1. ~overlapped /\ q.row = requirements[q.of]
    BY <1>1, <1>10, NoOverlap
  <2>2. Terminal /\ Chained /\ Contiguous(points)
    BY <2>1 DEF IntakeInv
  <2>3. \A t \in DOMAIN tickets :
          tickets[t].requirement \in DOMAIN requirements /\ tickets[t].requirement # q.of
    BY <1>2, <2>1, <2>2 DEF Terminal, Editable, RowsInv
  <2> QED
    BY <1>1, <1>3, <2>1, <2>2, <2>3 DEF Terminal
<1> QED
  BY <1>6, <1>7, <1>8, <1>9, <1>10 DEF IntakeInv

\* Another ticket, another conversion.
LEMMA PromoteKeeps ==
  ASSUME IntakeInv, UNCHANGED meetingVars, NEW s \in Slot, Promote(s)
  PROVE  IntakeInv'
<1>0. PICK q : q = inflight[s]
  OBVIOUS
<1>1. PICK t : t = Next1(tickets)
  OBVIOUS
<1> DEFINE new == [requirement |-> q.of, system |-> q.row.system]
           urls == Held(OfRequirement(q.of))
<1>2. /\ q.op = "promote" /\ Finish(s) /\ Noting(q.row, requirements[q.of]) /\ Moved(q, "CONVERTED")
      /\ t <= MaxTickets /\ tickets' = Inserted(tickets, t, new)
      /\ files' = files (+) Rows(OfTicket(t), urls)
      /\ disk' = disk /\ meeting' = meeting /\ points' = points
  BY <1>0, <1>1 DEF Promote, Is, Settle, meetingVars
<1>3. /\ q.of \in DOMAIN requirements /\ q.row \in Requirement /\ q.row.system # None
      /\ RowsInv /\ MinutesInv /\ FilesInv
  BY <1>0, <1>2 DEF IntakeInv, RequestsInv, Carries
<1>4. /\ DOMAIN requirements' = DOMAIN requirements /\ DOMAIN moves' = DOMAIN moves
      /\ \A r \in DOMAIN requirements :
           /\ requirements'[r] \in Requirement
           /\ requirements'[r].point = requirements[r].point
           /\ requirements'[r].system = requirements[r].system
           /\ r # q.of => requirements'[r] = requirements[r] /\ moves'[r] = moves[r]
      /\ requirements'[q.of].status = "CONVERTED"
      /\ LET h == moves'[q.of]
         IN  h \in Seq(Move) /\ h # <<>> /\ h[Len(h)].to = "CONVERTED"
      /\ Cardinality(Conversions(q.of)') = Cardinality(Conversions(q.of)) + 1
      /\ Chained /\ q.row = requirements[q.of] => Chained'
  <2>1. "CONVERTED" \in RequirementStatus
    BY DEF RequirementStatus
  <2> QED
    BY <1>2, <1>3, <2>1, Moves
<1>5. PICK n \in 0 .. MaxTickets : DOMAIN tickets = 1 .. n
  BY <1>3 DEF RowsInv, Numbered
<1>6. new \in Ticket /\ new.requirement = q.of /\ new.system = q.row.system
  <2>1. q.of \in 1 .. MaxRequirements
    BY <1>3, BacklogAssumption DEF RowsInv, Numbered
  <2>2. q.row.system \in System
    BY <1>3 DEF Requirement, Pin
  <2> QED
    BY <2>1, <2>2 DEF Ticket
<1> HIDE DEF new
<1>7. /\ t \notin DOMAIN tickets /\ DOMAIN tickets' = DOMAIN tickets \cup {t}
      /\ IsFiniteSet(DOMAIN tickets)
      /\ tickets'[t] = new /\ \A k \in DOMAIN tickets : tickets'[k] = tickets[k]
      /\ \E m \in 0 .. MaxTickets : DOMAIN tickets' = 1 .. m
  <2>1. n \in Nat
    OBVIOUS
  <2>2. t = n + 1 /\ t \notin DOMAIN tickets /\ IsFiniteSet(DOMAIN tickets)
    BY <1>1, <1>5, <2>1, NextIsNew
  <2>3. /\ DOMAIN tickets' = 1 .. t
        /\ tickets'[t] = new /\ \A k \in DOMAIN tickets : tickets'[k] = tickets[k]
    BY <1>2, <1>5, <2>1, <2>2, NextIsNew
  <2>4. t \in 0 .. MaxTickets /\ 1 .. t = (1 .. n) \cup {t}
    BY <1>2, <2>1, <2>2, BacklogAssumption
  <2> QED
    BY <1>5, <2>2, <2>3, <2>4
<1>8. Numbered'
  BY <1>3, <1>4, <1>7 DEF RowsInv, Numbered
<1>9. ASSUME NEW r \in DOMAIN requirements PROVE OneStory(r)'
  <2>1. OneStory(r)
    BY <1>3 DEF RowsInv
  <2>2. CASE r = q.of
    <3>1. TicketsOf(r)' = TicketsOf(r) \cup {t} /\ t \notin TicketsOf(r)
      BY <1>6, <1>7, <2>2 DEF TicketsOf
    <3>2. IsFiniteSet(TicketsOf(r))
      BY <1>7, FS_Subset DEF TicketsOf
    <3>3. Cardinality(TicketsOf(r)') = Cardinality(TicketsOf(r)) + 1
      BY <3>1, <3>2, FS_AddElement
    <3>4. /\ Cardinality(Conversions(r)') = Cardinality(Conversions(r)) + 1
          /\ requirements'[r].status = "CONVERTED"
          /\ moves'[r] \in Seq(Move) /\ moves'[r] # <<>>
          /\ moves'[r][Len(moves'[r])].to = "CONVERTED"
      BY <1>4, <2>2
    <3> QED
      BY <1>4, <2>1, <3>3, <3>4 DEF OneStory
  <2>3. CASE r # q.of
    <3>1. TicketsOf(r)' = TicketsOf(r)
      BY <1>6, <1>7, <2>3 DEF TicketsOf
    <3>2. Conversions(r)' = Conversions(r)
      BY <1>4, <2>3 DEF Conversions
    <3> QED
      BY <1>4, <2>1, <2>3, <3>1, <3>2 DEF OneStory
  <2> QED
    BY <2>2, <2>3
<1>10. RowsInv'
  <2>1. \A k \in DOMAIN tickets' :
          tickets'[k] \in Ticket /\ tickets'[k].requirement \in DOMAIN requirements'
    BY <1>3, <1>4, <1>6, <1>7 DEF RowsInv
  <2> QED
    BY <1>4, <1>8, <1>9, <2>1 DEF RowsInv
<1>11. MinutesInv'
  BY <1>2, <1>3, <1>4 DEF MinutesInv
<1>12. FilesInv'
  <2>1. OfTicket(t) \in Owner' /\ Owner \subseteq Owner'
    BY <1>4, <1>7, OwnersGrow DEF Owner
  <2>2. OfTicket(t) \notin Owner
    BY <1>7, OwnerOfRow
  <2>3. urls \subseteq Url /\ \A u \in urls : [owner |-> OfTicket(t), url |-> u] \notin DOMAIN files
    BY <1>3, <2>2, HeldFiles
  <2>4. disk' \subseteq Url
    BY <1>2, <1>3 DEF FilesInv
  <2>5. PICK u : u = urls
    OBVIOUS
  <2> QED
    BY <1>2, <1>3, <2>1, <2>3, <2>4, <2>5, FilesAdded
<1>13. RequestsInv'
  BY <1>2, <1>4, <1>7, RequestEnds DEF IntakeInv
<1>14. ASSUME ~overlapped' PROVE Terminal' /\ Chained' /\ Contiguous(points)'
  <2>1. ~overlapped /\ q.row = requirements[q.of]
    BY <1>2, <1>14, NoOverlap
  <2>2. Terminal /\ Chained /\ Contiguous(points)
    BY <2>1 DEF IntakeInv
  <2>3. ASSUME NEW k \in DOMAIN tickets'
        PROVE  LET r == requirements'[tickets'[k].requirement]
               IN  r.status = "CONVERTED" /\ r.system = tickets'[k].system
    <3>1. CASE k = t
      BY <1>3, <1>4, <1>6, <1>7, <2>1, <3>1
    <3>2. CASE k \in DOMAIN tickets
      BY <1>3, <1>4, <1>7, <2>2, <3>2 DEF Terminal, RowsInv
    <3> QED
      BY <1>7, <3>1, <3>2
  <2> QED
    BY <1>2, <1>4, <2>1, <2>2, <2>3 DEF Terminal
<1> QED
  BY <1>10, <1>11, <1>12, <1>13, <1>14 DEF IntakeInv

LEMMA CreateKeeps ==
  ASSUME IntakeInv, UNCHANGED meetingVars, NEW pin \in Pin, Create(pin)
  PROVE  IntakeInv'
<1> DEFINE row == [status |-> "NEW", archived |-> FALSE, system |-> pin, point |-> 0]
<1>1. /\ Opened(row) /\ UNCHANGED tickets /\ UNCHANGED fileVars
      /\ inflight' = inflight /\ overlapped' = overlapped /\ meeting' = meeting /\ points' = points
  BY DEF Create, meetingVars
<1>2. RowsInv /\ MinutesInv /\ FilesInv /\ RequestsInv
  BY DEF IntakeInv
<1>3. row \in Requirement /\ row.status = "NEW" /\ row.point = 0
  BY DEF Requirement, RequirementStatus
<1> HIDE DEF row
<1>4. /\ RowsInv' /\ (Chained => Chained') /\ (Terminal => Terminal')
      /\ DOMAIN requirements' = DOMAIN requirements \cup {Next1(requirements)}
      /\ requirements'[Next1(requirements)] = row
      /\ \A r \in DOMAIN requirements : requirements'[r] = requirements[r]
  BY <1>1, <1>2, <1>3, Opens
<1>5. MinutesInv'
  BY <1>1, <1>2, <1>3, <1>4 DEF MinutesInv
<1>6. FilesInv'
  BY <1>1, <1>2, <1>4, OwnersGrow, FilesStay
<1>7. RequestsInv'
  <2>1. \A s \in Slot : Carries(inflight[s], DOMAIN requirements', DOMAIN tickets')
    BY <1>1, <1>2, <1>4, CarriesOn DEF RequestsInv
  <2> QED
    BY <1>1, <1>2, <2>1 DEF RequestsInv
<1> QED
  BY <1>1, <1>4, <1>5, <1>6, <1>7 DEF IntakeInv

LEMMA CapturePointKeeps ==
  ASSUME IntakeInv, NEW s \in Slot, CapturePoint(s)
  PROVE  IntakeInv'
<1>0. PICK q : q = inflight[s]
  OBVIOUS
<1>1. PICK r : r = Next1(requirements)
  OBVIOUS
<1> DEFINE row == [status |-> "NEW", archived |-> FALSE, system |-> q.pin, point |-> q.point]
<1>2. /\ q.op = "capture" /\ q.point \in DOMAIN points /\ Opened(row)
      /\ files' = files (+) Rows(OfRequirement(r), Held(Meeting))
      /\ Finish(s) /\ Noting(q.seen, Minutes)
      /\ tickets' = tickets /\ disk' = disk /\ meeting' = meeting /\ points' = points
  BY <1>0, <1>1 DEF CapturePoint, Is, NotedMinutes, meetingVars
<1>3. /\ RowsInv /\ MinutesInv /\ FilesInv /\ RequestsInv
      /\ q.pin \in Pin /\ q.point \in Nat
  BY <1>0, <1>2 DEF IntakeInv, RequestsInv, Carries
<1>4. row \in Requirement /\ row.status = "NEW" /\ row.point = q.point
  BY <1>3 DEF Requirement, RequirementStatus
<1> HIDE DEF row
<1>5. /\ RowsInv' /\ (Chained => Chained') /\ (Terminal => Terminal')
      /\ r \notin DOMAIN requirements
      /\ DOMAIN requirements' = DOMAIN requirements \cup {r}
      /\ requirements'[r] = row
      /\ \A k \in DOMAIN requirements : requirements'[k] = requirements[k]
  BY <1>1, <1>2, <1>3, <1>4, Opens
<1>6. MinutesInv'
  BY <1>2, <1>3, <1>4, <1>5 DEF MinutesInv
<1>7. FilesInv'
  <2>1. OfRequirement(r) \in Owner' /\ Owner \subseteq Owner'
    BY <1>2, <1>5, OwnersGrow DEF Owner
  <2>2. OfRequirement(r) \notin Owner
    BY <1>5, OwnerOfRow
  <2>3. PICK u : u = Held(Meeting)
    OBVIOUS
  <2>4. u \subseteq Url /\ \A x \in u : [owner |-> OfRequirement(r), url |-> x] \notin DOMAIN files
    BY <1>3, <2>2, <2>3, HeldFiles
  <2>5. disk' \subseteq Url
    BY <1>2, <1>3 DEF FilesInv
  <2> QED
    BY <1>2, <1>3, <2>1, <2>3, <2>4, <2>5, FilesAdded
<1>8. RequestsInv'
  BY <1>2, <1>3, <1>5, RequestEnds
<1>9. ASSUME ~overlapped' PROVE Terminal' /\ Chained' /\ Contiguous(points)'
  BY <1>2, <1>5, <1>9, NoOverlap DEF IntakeInv
<1> QED
  BY <1>5, <1>6, <1>7, <1>8, <1>9 DEF IntakeInv

\* The writes to the meeting leave the requirements alone.
LEMMA MeetingMovesKeeps ==
  ASSUME IntakeInv, NEW s \in Slot, MoveMeeting(s) \/ Shelve(s)
  PROVE  IntakeInv'
<1>1. /\ Finish(s) /\ Noting(inflight[s].seen, meeting) /\ points' = points
      /\ UNCHANGED <<moves, tickets, fileVars>> /\ requirements' = requirements
  BY DEF MoveMeeting, Shelve, rowVars, fileVars
<1>2. /\ MinutesInv /\ RequestsInv
      /\ \A r \in DOMAIN requirements : requirements[r] \in Requirement
  BY DEF IntakeInv, RowsInv, OneStory
<1>3. meeting' \in MeetingRow
  <2>1. CASE MoveMeeting(s)
    <3>1. inflight[s].to \in { "HELD", "CANCELLED" }
      BY <1>2, <2>1 DEF MoveMeeting, Is, RequestsInv, Carries
    <3> QED
      BY <1>2, <2>1, <3>1 DEF MoveMeeting, MinutesInv, MeetingRow, MeetingStatus
  <2>2. CASE Shelve(s)
    BY <1>2, <2>2 DEF Shelve, MinutesInv, MeetingRow
  <2> QED
    BY <2>1, <2>2
<1>4. ~overlapped' => ~overlapped
  BY <1>1, NoOverlap
<1> QED
  BY <1>1, <1>2, <1>3, <1>4, RewrittenKeeps DEF MinutesInv

LEMMA AddPointKeeps ==
  ASSUME IntakeInv, NEW s \in Slot, AddPoint(s)
  PROVE  IntakeInv'
<1>0. PICK q : q = inflight[s]
  OBVIOUS
<1>1. PICK p \in 1 .. MaxPoints :
        /\ \A k \in DOMAIN points : k < p
        /\ points' = Inserted(points, p, [order |-> q.order])
  BY <1>0 DEF AddPoint
<1>2. /\ q.op = "add" /\ Finish(s) /\ Noting(q.seen, Minutes) /\ meeting' = meeting
      /\ UNCHANGED <<moves, tickets, fileVars>> /\ requirements' = requirements
  BY <1>0 DEF AddPoint, Is, NotedMinutes, rowVars, fileVars
<1>3. /\ MinutesInv
      /\ \A r \in DOMAIN requirements : requirements[r] \in Requirement
      /\ q.order \in 0 .. MaxPoints
      /\ Contiguous(q.seen[2]) => q.order = Cardinality(DOMAIN q.seen[2])
  BY <1>0, <1>2 DEF IntakeInv, RequestsInv, Carries, RowsInv, OneStory
<1>4. /\ p \notin DOMAIN points /\ DOMAIN points' = DOMAIN points \cup {p}
      /\ points'[p] = [order |-> q.order] /\ points'[p].order = q.order
      /\ \A k \in DOMAIN points : points'[k] = points[k]
  <2>1. p \notin DOMAIN points
    BY <1>1
  <2> QED
    BY <1>1, <2>1 DEF Inserted
<1>5. LineList(points')
  <2>1. DOMAIN points' \subseteq 1 .. MaxPoints
    BY <1>3, <1>4 DEF MinutesInv, LineList
  <2>2. \A k \in DOMAIN points' : points'[k] \in Line
    BY <1>3, <1>4 DEF MinutesInv, LineList, Line
  <2>3. points' = [k \in DOMAIN points' |-> points'[k]]
    BY <1>1 DEF Inserted
  <2> QED
    BY <2>1, <2>2, <2>3 DEF LineList
<1>6. ASSUME ~overlapped', Contiguous(points) PROVE Contiguous(points')
  <2>1. q.seen[2] = points
    BY <1>2, <1>6, NoOverlap DEF Minutes
  <2>2. q.order = Cardinality(DOMAIN points)
    BY <1>3, <1>6, <2>1
  <2> QED
    BY <1>3, <1>4, <1>6, <2>2, AppendedContiguous DEF MinutesInv
<1>7. ~overlapped' => ~overlapped
  BY <1>2, NoOverlap
<1>8. \A r \in DOMAIN requirements : requirements[r].point \in DOMAIN points' \cup {0}
  BY <1>3, <1>4 DEF MinutesInv
<1> QED
  BY <1>2, <1>3, <1>5, <1>6, <1>7, <1>8, RewrittenKeeps DEF MinutesInv

LEMMA ReorderPointsKeeps ==
  ASSUME IntakeInv, NEW s \in Slot, ReorderPoints(s)
  PROVE  IntakeInv'
<1>0. PICK q : q = inflight[s]
  OBVIOUS
<1>1. /\ q.op = "reorder" /\ Finish(s) /\ Noting(q.seen, Minutes) /\ meeting' = meeting
      /\ UNCHANGED <<moves, tickets, fileVars>> /\ requirements' = requirements
      /\ points' = [k \in DOMAIN points |-> IF k \in DOMAIN q.list THEN q.list[k] ELSE points[k]]
  BY <1>0 DEF ReorderPoints, Is, NotedMinutes, rowVars, fileVars
<1>2. /\ MinutesInv
      /\ \A r \in DOMAIN requirements : requirements[r] \in Requirement
      /\ LineList(q.list) /\ DOMAIN q.list = DOMAIN q.seen[2] /\ Contiguous(q.list)
  BY <1>0, <1>1 DEF IntakeInv, RequestsInv, Carries, RowsInv, OneStory
<1>3. DOMAIN points' = DOMAIN points /\ LineList(points')
  BY <1>1, <1>2 DEF MinutesInv, LineList
<1>4. ASSUME ~overlapped' PROVE ~overlapped /\ Contiguous(points')
  <2>1. ~overlapped /\ q.seen[2] = points
    BY <1>1, <1>4, NoOverlap DEF Minutes
  <2>2. DOMAIN points' = DOMAIN q.list /\ \A k \in DOMAIN q.list : points'[k] = q.list[k]
    BY <1>1, <1>2, <1>3, <2>1
  <2>3. Contiguous(points') <=> Contiguous(q.list)
    BY <2>2, SameOrders
  <2> QED
    BY <1>2, <2>1, <2>3
<1>5. \A r \in DOMAIN requirements : requirements[r].point \in DOMAIN points' \cup {0}
  BY <1>2, <1>3 DEF MinutesInv
<1> QED
  BY <1>1, <1>2, <1>3, <1>4, <1>5, RewrittenKeeps DEF MinutesInv

\* The requirements captured off a line let go of it.
LEMMA RemovePointKeeps ==
  ASSUME IntakeInv, NEW s \in Slot, RemovePoint(s)
  PROVE  IntakeInv'
<1>0. PICK q : q = inflight[s]
  OBVIOUS
<1> DEFINE p == q.point
           rest == [k \in DOMAIN points \ {p} |-> points[k]]
<1>1. /\ q.op = "remove" /\ Finish(s) /\ Noting(q.seen, Minutes) /\ meeting' = meeting
      /\ UNCHANGED <<moves, tickets, fileVars>>
      /\ requirements' = Unlinked(p) /\ points' = Rebalanced(rest)
  BY <1>0 DEF RemovePoint, Is, NotedMinutes, fileVars
<1>2. /\ MinutesInv
      /\ \A r \in DOMAIN requirements : requirements[r] \in Requirement
  BY DEF IntakeInv, RowsInv, OneStory
<1>3. LineList(rest) /\ DOMAIN rest = DOMAIN points \ {p}
  BY <1>2 DEF MinutesInv, LineList
<1> HIDE DEF rest
<1>4. LineList(points') /\ DOMAIN points' = DOMAIN points \ {p} /\ Contiguous(points')
  BY <1>1, <1>3, RebalancedContiguous
<1>5. DOMAIN requirements' = DOMAIN requirements
  BY <1>1 DEF Unlinked
<1>6. ASSUME NEW r \in DOMAIN requirements
      PROVE  /\ requirements'[r] \in Requirement
             /\ requirements'[r].status = requirements[r].status
             /\ requirements'[r].system = requirements[r].system
             /\ requirements'[r].point \in DOMAIN points' \cup {0}
  <2>1. /\ requirements[r] \in Requirement
        /\ requirements'[r] = [requirements[r] EXCEPT !.point =
             IF requirements[r].point = p THEN 0 ELSE requirements[r].point]
    BY <1>1, <1>2 DEF Unlinked
  <2>2. requirements[r].point \in DOMAIN points \cup {0}
    BY <1>2 DEF MinutesInv
  <2> QED
    BY <1>4, <2>1, <2>2 DEF Requirement
<1>7. ~overlapped' => ~overlapped
  BY <1>1, NoOverlap
<1> QED
  BY <1>1, <1>2, <1>4, <1>5, <1>6, <1>7, RewrittenKeeps DEF MinutesInv

-----------------------------------------------------------------------------
(* The theorems                                                            *)

LEMMA IntakeStarts ==
  ASSUME IntakeInit
  PROVE  IntakeInv
<1>1. DOMAIN <<>> = {} /\ 1 .. 0 = {}
  OBVIOUS
<1>2. RequestsInv
  BY IdleCarries DEF IntakeInit, RequestsInv
<1>3. RowsInv
  <2>1. 0 \in 0 .. MaxRequirements /\ 0 \in 0 .. MaxTickets
    BY BacklogAssumption
  <2>2. DOMAIN requirements = {} /\ DOMAIN moves = {} /\ DOMAIN tickets = {}
    BY <1>1 DEF IntakeInit
  <2>3. Numbered
    BY <1>1, <2>1, <2>2 DEF Numbered
  <2> QED
    BY <2>2, <2>3 DEF RowsInv
<1>4. LineList(points)
  BY <1>1 DEF IntakeInit, LineList
<1>5. MinutesInv
  BY <1>1, <1>4 DEF IntakeInit, MinutesInv, MeetingRow, MeetingStatus
<1>6. FilesInv
  BY DEF IntakeInit, FilesInv, EmptyBag, SetToBag
<1>7. Terminal /\ Chained
  BY <1>1 DEF IntakeInit, Terminal, Chained
<1>8. Contiguous(points)
  <2>1. DOMAIN points = {} /\ Cardinality({}) = 0
    BY <1>1, FS_EmptySet DEF IntakeInit
  <2>2. LastPlace(points) = -1 /\ { points[i].order : i \in DOMAIN points } = {}
    BY <2>1 DEF LastPlace
  <2> QED
    BY <2>2 DEF Contiguous
<1> QED
  BY <1>2, <1>3, <1>5, <1>6, <1>7, <1>8 DEF IntakeInv

LEMMA IntakeStepKeeps ==
  ASSUME IntakeInv, [IntakeNext]_vars
  PROVE  IntakeInv'
<1>1. CASE IntakeNext
  <2>1. PICK s \in Slot : BacklogStep(s) \/ LoadMeeting(s) \/ WriteMeeting(s) \/ Drop(s)
    BY <1>1 DEF IntakeNext
  <2>2. CASE BacklogStep(s)
    <3>1. UNCHANGED meetingVars
      BY <2>2 DEF BacklogStep
    <3>2. CASE \E pin \in Pin : Create(pin)
      BY <3>1, <3>2, CreateKeeps
    <3>3. CASE LoadRequirement(s)
      BY <3>1, <3>3, LoadRequirementKeeps
    <3>4. CASE WriteRequirement(s)
      BY <3>1, <3>4, TriageKeeps, ChangeStatusKeeps, PromoteKeeps, ArchiveKeeps DEF WriteRequirement
    <3>5. CASE FileStep(s)
      BY <3>1, <3>5, FileStepKeeps
    <3> QED
      BY <2>2, <3>2, <3>3, <3>4, <3>5 DEF BacklogStep
  <2>3. CASE LoadMeeting(s)
    BY <2>3, LoadMeetingKeeps
  <2>4. CASE WriteMeeting(s)
    BY <2>4, MeetingMovesKeeps, AddPointKeeps, ReorderPointsKeeps, RemovePointKeeps, CapturePointKeeps
    DEF WriteMeeting
  <2>5. CASE Drop(s)
    BY <2>5, DropKeeps
  <2> QED
    BY <2>1, <2>2, <2>3, <2>4, <2>5
<1>2. CASE UNCHANGED vars
  <2>1. UNCHANGED <<rowVars, fileVars, overlapped, meetingVars>> /\ inflight' = inflight
        /\ requirements' = requirements /\ tickets' = tickets
    BY <1>2 DEF vars, rowVars
  <2>2. RequestsInv'
    BY <2>1 DEF IntakeInv, RequestsInv
  <2> QED
    BY <2>1, <2>2, OnlyRequests
<1> QED
  BY <1>1, <1>2

LEMMA IntakeInvAlways == IntakeSpec => []IntakeInv
BY IntakeStarts, IntakeStepKeeps, PTL DEF IntakeSpec

(***************************************************************************)
(* However requests overlap and fail, the rows are well formed and tell    *)
(* one story: what the history says last is the status, there is a ticket  *)
(* to each conversion, no requirement is left on a line that is gone, and  *)
(* no owner holds a file twice.                                            *)
(***************************************************************************)
THEOREM RecordsAlwaysAgree == IntakeSpec => []RecordsAgree
<1>1. IntakeInv => RecordsAgree
  <2> SUFFICES ASSUME IntakeInv PROVE RecordsAgree
    OBVIOUS
  <2>1. PICK n \in 0 .. MaxRequirements : DOMAIN requirements = 1 .. n /\ DOMAIN moves = 1 .. n
    BY DEF IntakeInv, RowsInv, Numbered
  <2>2. DOMAIN requirements = 1 .. Cardinality(DOMAIN requirements)
    <3>1. n \in Nat
      OBVIOUS
    <3> QED
      BY <2>1, <3>1, NextIsNew
  <2>3. files \in [DOMAIN files -> {1}] /\ disk \subseteq Url /\ IsABag(files)
    BY DEF IntakeInv, FilesInv, IsABag
  <2>4. /\ meeting \in [status : MeetingStatus, archived : BOOLEAN]
        /\ \A p \in DOMAIN points : points[p].order \in 0 .. MaxPoints
    BY DEF IntakeInv, MinutesInv, MeetingRow, LineList, Line
  <2>5. /\ \A r \in DOMAIN requirements : OneStory(r) /\ requirements[r].point \in DOMAIN points \cup {0}
        /\ \A t \in DOMAIN tickets : tickets[t] \in Ticket
    BY DEF IntakeInv, RowsInv, MinutesInv
  <2>6. IntakeTypeOK
    BY <2>1, <2>2, <2>3, <2>4, <2>5 DEF IntakeTypeOK, OneStory
  <2> QED
    BY <2>3, <2>5, <2>6 DEF RecordsAgree, OneStory, BagToSet
<1> QED
  BY <1>1, IntakeInvAlways, PTL

(***************************************************************************)
(* As long as no write was decided from a row that had changed since,      *)
(* CONVERTED is terminal and its tickets stay on its system, each row of   *)
(* history starts where the one before it ended, and the lines are         *)
(* contiguous.                                                             *)
(***************************************************************************)
THEOREM UndisturbedIntakeAlways == IntakeSpec => []UndisturbedIntake
<1>1. IntakeInv => UndisturbedIntake
  BY DEF IntakeInv, UndisturbedIntake, Terminal, Chained, Chain
<1> QED
  BY <1>1, IntakeInvAlways, PTL

(***************************************************************************)
(* And a meeting that was held or cancelled stays so, and the minutes of   *)
(* one that is archived or cancelled do not change.                        *)
(***************************************************************************)
THEOREM UndisturbedMeetingAlways == IntakeSpec => UndisturbedMeeting
<1> DEFINE Kept == ~overlapped' =>
                     /\ meeting.status # "SCHEDULED" => meeting'.status = meeting.status
                     /\ ~OpenMinutes => UNCHANGED points
<1>1. ASSUME IntakeInv, [IntakeNext]_vars PROVE [Kept]_vars
  <2>1. CASE UNCHANGED vars
    BY <2>1
  <2>2. CASE IntakeNext
    <3> SUFFICES ASSUME ~overlapped'
                 PROVE  /\ meeting.status # "SCHEDULED" => meeting'.status = meeting.status
                        /\ ~OpenMinutes => UNCHANGED points
      OBVIOUS
    <3>1. PICK s \in Slot : BacklogStep(s) \/ LoadMeeting(s) \/ WriteMeeting(s) \/ Drop(s)
      BY <2>2 DEF IntakeNext
    <3>2. Carries(inflight[s], DOMAIN requirements, DOMAIN tickets) /\ meeting \in MeetingRow
      BY <1>1 DEF IntakeInv, RequestsInv, MinutesInv
    <3>3. CASE BacklogStep(s) \/ LoadMeeting(s) \/ Drop(s)
      BY <3>3 DEF BacklogStep, LoadMeeting, Drop, meetingVars
    <3>4. CASE MoveMeeting(s)
      <4>1. inflight[s].seen = meeting /\ points' = points
        BY <3>4, NoOverlap DEF MoveMeeting
      <4>2. meeting.status = "SCHEDULED"
        BY <3>2, <3>4, <4>1 DEF MoveMeeting, Is, Carries
      <4> QED
        BY <4>1, <4>2
    <3>5. CASE Shelve(s)
      BY <3>2, <3>5 DEF Shelve, MeetingRow
    <3>6. CASE AddPoint(s) \/ ReorderPoints(s) \/ RemovePoint(s)
      <4>1. inflight[s].op \in { "add", "reorder", "remove" } /\ Noting(inflight[s].seen, Minutes)
            /\ meeting' = meeting
        BY <3>6 DEF AddPoint, ReorderPoints, RemovePoint, Is, NotedMinutes
      <4>2. inflight[s].seen[1] = meeting
        BY <4>1, NoOverlap DEF Minutes
      <4>3. OpenMinutes
        BY <3>2, <4>1, <4>2 DEF Carries, IsOpen, OpenMinutes
      <4> QED
        BY <4>1, <4>3
    <3>7. CASE CapturePoint(s)
      BY <3>7 DEF CapturePoint, meetingVars
    <3> QED
      BY <3>1, <3>3, <3>4, <3>5, <3>6, <3>7 DEF WriteMeeting
  <2> QED
    BY <1>1, <2>1, <2>2
<1> HIDE DEF Kept
<1>2. IntakeSpec => [][Kept]_vars
  BY <1>1, IntakeInvAlways, PTL DEF IntakeSpec
<1> QED
  BY <1>2 DEF UndisturbedMeeting, Kept

=============================================================================
