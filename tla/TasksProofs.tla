---------------------------- MODULE TasksProofs ----------------------------
(***************************************************************************)
(* Proofs about the task list of a ticket, for lists of any length: the    *)
(* place of a row is a numbering of the list, so that what rebalance and   *)
(* moveTo write is contiguous and in order, and from it the properties of  *)
(* Tasks.                                                                  *)
(***************************************************************************)
EXTENDS Tasks, FiniteSetTheorems, TLAPS

\* Lists whose order can be read: all the lemmas on places ask.
Ordered(list) ==
  /\ IsFiniteSet(DOMAIN list)
  /\ DOMAIN list \subseteq Int
  /\ \A i \in DOMAIN list : list[i].order \in Int

LEMMA OrderTotal ==
  ASSUME NEW list, Ordered(list)
  PROVE  /\ \A i \in DOMAIN list : ~Above(list, i, i)
         /\ \A i, j \in DOMAIN list : i # j => Above(list, i, j) \/ Above(list, j, i)
         /\ \A i, j, k \in DOMAIN list :
              Above(list, i, j) /\ Above(list, j, k) => Above(list, i, k)
BY DEF Ordered, Above

\* The rows above a row are fewer than the rows of the list.
LEMMA PlaceType ==
  ASSUME NEW list, Ordered(list), NEW i \in DOMAIN list
  PROVE  /\ LastPlace(list) \in Nat
         /\ Place(list, i) \in 0 .. LastPlace(list)
<1> DEFINE D == DOMAIN list
           A == { j \in D : Above(list, j, i) }
<1>1. IsFiniteSet(D)
  BY DEF Ordered
<1>2. /\ IsFiniteSet(D \ {i})
      /\ Cardinality(D \ {i}) = Cardinality(D) - 1
  BY <1>1, FS_RemoveElement
<1>3. A \in SUBSET (D \ {i})
  BY OrderTotal
<1>4. IsFiniteSet(A) /\ Cardinality(A) <= Cardinality(D \ {i})
  BY <1>2, <1>3, FS_Subset
<1>5. /\ Cardinality(A) \in Nat
      /\ Cardinality(D) \in Nat /\ Cardinality(D \ {i}) \in Nat
  BY <1>1, <1>2, <1>4, FS_CardinalityType
<1> QED
  BY <1>2, <1>4, <1>5 DEF Place, LastPlace

\* Whoever is above another has a smaller place.
LEMMA PlaceMonotone ==
  ASSUME NEW list, Ordered(list), NEW i \in DOMAIN list, NEW j \in DOMAIN list,
         Above(list, i, j)
  PROVE  Place(list, i) < Place(list, j)
<1> DEFINE A(k) == { l \in DOMAIN list : Above(list, l, k) }
<1>1. \A k \in DOMAIN list : A(k) \in SUBSET DOMAIN list
  OBVIOUS
<1>2. \A k \in DOMAIN list : IsFiniteSet(A(k))
  BY <1>1, FS_Subset DEF Ordered
<1>3. i \notin A(i)
  BY OrderTotal
<1>4. A(i) \cup {i} \in SUBSET A(j)
  BY OrderTotal
<1>5. Cardinality(A(i) \cup {i}) = Cardinality(A(i)) + 1
  BY <1>2, <1>3, FS_AddElement
<1>6. Cardinality(A(i) \cup {i}) <= Cardinality(A(j))
  BY <1>2, <1>4, FS_Subset
<1>7. Cardinality(A(i)) \in Nat /\ Cardinality(A(j)) \in Nat
  BY <1>2, FS_CardinalityType
<1> QED
  BY <1>5, <1>6, <1>7 DEF Place

(***************************************************************************)
(* Places number the list: in its order, and every place is taken.         *)
(***************************************************************************)
LEMMA PlacesNumber ==
  ASSUME NEW list, Ordered(list)
  PROVE  /\ \A i, j \in DOMAIN list :
              /\ Above(list, i, j) <=> Place(list, i) < Place(list, j)
              /\ Place(list, i) = Place(list, j) => i = j
         /\ \A p \in 0 .. LastPlace(list) : \E i \in DOMAIN list : Place(list, i) = p
<1> DEFINE D == DOMAIN list
           n == Cardinality(D)
           f == [i \in D |-> Place(list, i)]
<1>0. IsFiniteSet(D) /\ n \in Nat
  BY FS_CardinalityType DEF Ordered
<1>1. \A i \in D : Place(list, i) \in 0 .. LastPlace(list) /\ Place(list, i) \in Int
  BY PlaceType
<1>2. \A i, j \in D : Above(list, i, j) => Place(list, i) < Place(list, j)
  BY PlaceMonotone
<1>3. \A i, j \in D : /\ Above(list, i, j) <=> Place(list, i) < Place(list, j)
                      /\ Place(list, i) = Place(list, j) => i = j
  <2> SUFFICES ASSUME NEW i \in D, NEW j \in D
               PROVE  /\ Above(list, i, j) <=> Place(list, i) < Place(list, j)
                      /\ Place(list, i) = Place(list, j) => i = j
    OBVIOUS
  <2>1. Place(list, i) \in Int /\ Place(list, j) \in Int
    BY <1>1
  <2>2. CASE i = j
    BY <2>1, <2>2, OrderTotal
  <2>3. CASE Above(list, i, j)
    <3>1. Place(list, i) < Place(list, j)
      BY <1>2, <2>3
    <3> QED
      BY <2>1, <2>3, <3>1
  <2>4. CASE Above(list, j, i)
    <3>1. Place(list, j) < Place(list, i)
      BY <1>2, <2>4
    <3>2. ~Above(list, i, j)
      BY <2>4, OrderTotal
    <3> QED
      BY <2>1, <3>1, <3>2
  <2> QED
    BY <2>2, <2>3, <2>4, OrderTotal
<1>4. f \in Injection(D, 0 .. LastPlace(list))
  BY <1>1, <1>3 DEF Injection, IsInjective
<1>5. /\ IsFiniteSet(0 .. LastPlace(list))
      /\ Cardinality(0 .. LastPlace(list)) = n
  BY <1>0, FS_Interval DEF LastPlace
<1>6. f \in Surjection(D, 0 .. LastPlace(list))
  BY <1>0, <1>4, <1>5, FS_Injection
<1>7. \A p \in 0 .. LastPlace(list) : \E i \in D : f[i] = p
  BY <1>6 DEF Surjection
<1> QED
  BY <1>3, <1>7

-----------------------------------------------------------------------------
\* Task, with any position.
Row == [ order : Int, holder : User, creator : User, status : TaskStatus,
         started : BOOLEAN, completed : BOOLEAN, blocking : BOOLEAN ]

List(list) ==
  /\ IsFiniteSet(DOMAIN list)
  /\ DOMAIN list \subseteq Int
  /\ list \in [DOMAIN list -> Row]

LEMMA ListOrdered == ASSUME NEW list, List(list) PROVE Ordered(list)
BY DEF List, Ordered, Row

LEMMA RowMoved ==
  ASSUME NEW r \in Row, NEW o \in Int
  PROVE  [r EXCEPT !.order = o] \in Row /\ [r EXCEPT !.order = o].order = o
BY DEF Row

(***************************************************************************)
(* After rebalance the list is contiguous and in the order it had.         *)
(***************************************************************************)
LEMMA RebalancedRight ==
  ASSUME NEW list, List(list)
  PROVE  /\ List(Rebalanced(list))
         /\ DOMAIN Rebalanced(list) = DOMAIN list
         /\ Contiguous(Rebalanced(list))
         /\ \A i, j \in DOMAIN list :
              list[i].order < list[j].order => Rebalanced(list)[i].order < Rebalanced(list)[j].order
<1> DEFINE new == Rebalanced(list)
<1>1. Ordered(list)
  BY ListOrdered
<1>2. DOMAIN new = DOMAIN list
  BY DEF Rebalanced
<1>3. \A i \in DOMAIN list : /\ Place(list, i) \in 0 .. LastPlace(list)
                             /\ Place(list, i) \in Int
                             /\ new[i].order = Place(list, i) /\ new[i] \in Row
  BY <1>1, PlaceType DEF Rebalanced, List, Row
<1>4. List(new)
  BY <1>2, <1>3 DEF List, Rebalanced
<1>5. LastPlace(new) = LastPlace(list)
  BY <1>2 DEF LastPlace
<1>6. Contiguous(new)
  BY <1>1, <1>2, <1>3, <1>5, PlacesNumber DEF Contiguous
<1>7. \A i, j \in DOMAIN list : list[i].order < list[j].order => new[i].order < new[j].order
  BY <1>1, <1>3, PlaceMonotone DEF Above
<1> QED
  BY <1>2, <1>4, <1>6, <1>7

(***************************************************************************)
(* moveTo leaves the list contiguous, and all rows but the moved one in    *)
(* the order they had.                                                     *)
(***************************************************************************)
LEMMA MovedToRight ==
  ASSUME NEW list, List(list), NEW x \in DOMAIN list, NEW target \in Nat
  PROVE  LET new == MovedTo(list, x, target)
         IN  /\ List(new)
             /\ DOMAIN new = DOMAIN list
             /\ Contiguous(new)
             /\ \A i, j \in DOMAIN list \ {x} :
                  list[i].order < list[j].order => new[i].order < new[j].order
             /\ \A i \in DOMAIN list : new[i] = [list[i] EXCEPT !.order = new[i].order]
<1> DEFINE D   == DOMAIN list
           new == MovedTo(list, x, target)
           to  == Clamped(list, target)
           n   == LastPlace(list)
           P(i) == Place(list, i)
           W(i) == P(i) - (IF P(x) < P(i) THEN 1 ELSE 0)
           N(i) == IF i = x THEN to ELSE IF W(i) < to THEN W(i) ELSE W(i) + 1
<1>1. Ordered(list)
  BY ListOrdered
<1>2. n \in Nat /\ to \in 0 .. n
  BY <1>1, PlaceType DEF Clamped
<1>3. \A i \in D : P(i) \in 0 .. n
  BY <1>1, PlaceType
<1>4. \A i, j \in D : /\ Above(list, i, j) <=> P(i) < P(j)
                      /\ P(i) = P(j) => i = j
  BY <1>1, PlacesNumber
<1>5. \A p \in 0 .. n : \E i \in D : P(i) = p
  BY <1>1, PlacesNumber
<1> HIDE DEF P, n, to
<1>6. \A i \in D \ {x} : /\ P(i) # P(x)
                         /\ W(i) \in Int /\ 0 <= W(i) /\ W(i) < n
  <2> SUFFICES ASSUME NEW i \in D \ {x}
               PROVE  /\ P(i) # P(x)
                      /\ W(i) \in Int /\ 0 <= W(i) /\ W(i) < n
    OBVIOUS
  <2>1. P(i) # P(x) /\ P(i) \in 0 .. n /\ P(x) \in 0 .. n
    BY <1>3, <1>4
  <2> QED
    BY <1>2, <2>1
<1>7. \A i \in D : N(i) \in 0 .. n
  BY <1>2, <1>6
<1>8. \A i \in D : new[i] = [list[i] EXCEPT !.order = N(i)]
  <2> SUFFICES ASSUME NEW i \in D
               PROVE  new[i] = [list[i] EXCEPT !.order = N(i)]
    OBVIOUS
  <2> DEFINE V == P(i) - (IF Above(list, x, i) THEN 1 ELSE 0)
  <2>1. new[i] = [list[i] EXCEPT !.order =
                    IF i = x THEN to ELSE IF V < to THEN V ELSE V + 1]
    BY DEF MovedTo, P, to
  <2>2. V = W(i)
    <3>1. CASE Above(list, x, i)
      BY <1>4, <3>1
    <3>2. CASE ~Above(list, x, i)
      BY <1>4, <3>2
    <3> QED
      BY <3>1, <3>2
  <2> HIDE DEF V, W
  <2> QED
    BY <2>1, <2>2
<1>9. \A i \in D : new[i].order = N(i) /\ new[i] \in Row
  <2> SUFFICES ASSUME NEW i \in D
               PROVE  new[i].order = N(i) /\ new[i] \in Row
    OBVIOUS
  <2>1. N(i) \in Int
    BY <1>2, <1>7
  <2>2. list[i] \in Row
    BY DEF List
  <2>3. new[i] = [list[i] EXCEPT !.order = N(i)]
    BY <1>8
  <2> HIDE DEF N, new
  <2> QED
    BY <2>1, <2>2, <2>3, RowMoved
<1>10. DOMAIN new = D
  BY DEF MovedTo
<1>11. List(new)
  BY <1>9, <1>10 DEF List, MovedTo
<1>12. \A i, j \in D \ {x} : list[i].order < list[j].order => new[i].order < new[j].order
  <2> SUFFICES ASSUME NEW i \in D \ {x}, NEW j \in D \ {x}, list[i].order < list[j].order
               PROVE  N(i) < N(j)
    BY <1>9
  <2>1. P(i) < P(j)
    BY <1>4 DEF Above
  <2>2. P(i) # P(x) /\ P(j) # P(x)
    BY <1>6
  <2>3. P(i) \in 0 .. n /\ P(j) \in 0 .. n /\ P(x) \in 0 .. n
    BY <1>3
  <2> QED
    BY <1>2, <2>1, <2>2, <2>3
<1>13. \A p \in 0 .. n : \E i \in D : N(i) = p
  <2> SUFFICES ASSUME NEW p \in 0 .. n
               PROVE  \E i \in D : N(i) = p
    OBVIOUS
  <2>1. CASE p = to
    BY <2>1
  <2>2. CASE p # to
    <3> DEFINE w == IF p < to THEN p ELSE p - 1
               q == IF w < P(x) THEN w ELSE w + 1
    <3>0. P(x) \in 0 .. n
      BY <1>3
    <3>1. q \in 0 .. n /\ q # P(x)
      BY <1>2, <2>2, <3>0
    <3>2. PICK i \in D : P(i) = q
      BY <1>5, <3>1
    <3>3. i # x /\ W(i) = w
      BY <1>2, <2>2, <3>0, <3>1, <3>2
    <3>4. N(i) = p
      BY <1>2, <2>2, <3>3
    <3> QED
      BY <3>4
  <2> QED
    BY <2>1, <2>2
<1>14. Contiguous(new)
  <2>1. LastPlace(new) = n
    BY <1>10 DEF LastPlace, n
  <2> QED
    BY <1>7, <1>9, <1>10, <1>13, <2>1 DEF Contiguous
<1> QED
  BY <1>8, <1>9, <1>10, <1>11, <1>12, <1>14

-----------------------------------------------------------------------------
\* What a step leaves of the list, and what the action properties say of it.
ListInv ==
  /\ List(tasks) /\ DOMAIN tasks \subseteq 1 .. MaxTasks
  /\ PositionsContiguous
  /\ TaskClockMatches
  /\ roster \in Board!Rosters

OthersKept ==
  LET kept == DOMAIN tasks \cap DOMAIN tasks'
  IN  kept = {} \/ \E x \in kept : \A i, j \in kept \ {x} :
        tasks[i].order < tasks[j].order => tasks'[i].order < tasks'[j].order

NoBlockerPassed ==
  \A i, j \in DOMAIN tasks \cap DOMAIN tasks' :
    /\ tasks'[i].status \notin { "NEW", tasks[i].status }
    /\ tasks[j].order < tasks[i].order
    /\ tasks[j].blocking
    => tasks[j].status = "COMPLETED"

LEMMA KeptIfAllKept ==
  ASSUME \A i, j \in DOMAIN tasks \cap DOMAIN tasks' :
           tasks[i].order < tasks[j].order => tasks'[i].order < tasks'[j].order
  PROVE  OthersKept
<1> DEFINE kept == DOMAIN tasks \cap DOMAIN tasks'
<1>1. CASE kept = {}
  BY <1>1 DEF OthersKept
<1>2. ASSUME NEW x \in kept PROVE OthersKept
  BY <1>2 DEF OthersKept
<1> QED
  BY <1>1, <1>2

LEMMA SyncTyped ==
  ASSUME roster \in Board!Rosters, Holders' \in SUBSET User, Sync
  PROVE  roster' \in Board!Rosters
BY DEF Sync, Board!SyncFromTasks, Board!Reconciled, Board!SetLead, Board!ActiveLeads,
       Board!Rosters

LEMMA ListInitially == TaskInit => ListInv
<1> SUFFICES ASSUME TaskInit PROVE ListInv
  OBVIOUS
<1>1. DOMAIN tasks = {}
  BY DEF TaskInit
<1>2. List(tasks) /\ DOMAIN tasks \subseteq 1 .. MaxTasks
  BY <1>1, FS_EmptySet DEF List, TaskInit
<1>3. LastPlace(tasks) = -1
  BY <1>1, FS_EmptySet DEF LastPlace
<1>4. PositionsContiguous
  BY <1>1, <1>3 DEF PositionsContiguous, Contiguous
<1>5. TaskClockMatches
  BY <1>1 DEF TaskClockMatches
<1>6. roster \in Board!Rosters
  BY DEF TaskInit, Board!BoardInit, Board!EmptyRoster, Board!SetLead, Board!Rosters
<1> QED
  BY <1>2, <1>4, <1>5, <1>6 DEF ListInv

LEMMA CreateStep ==
  ASSUME ListInv, NEW u \in User, NEW holder \in User, NEW b \in BOOLEAN,
         Create(u, holder, b)
  PROVE  ListInv' /\ OthersKept /\ NoBlockerPassed
<1> DEFINE D == DOMAIN tasks
           n == Cardinality(D)
<1>1. PICK i \in 1 .. MaxTasks :
        /\ Newest(i)
        /\ tasks' = [ j \in D \cup {i} |->
             IF j # i THEN tasks[j]
             ELSE [ order |-> n, holder |-> holder, creator |-> u,
                    status |-> "NEW", started |-> FALSE, completed |-> FALSE,
                    blocking |-> b ] ]
  BY DEF Create
<1>2. IsFiniteSet(D) /\ n \in Nat /\ D \subseteq Int
  BY FS_CardinalityType DEF ListInv, List
<1>3. i \notin D
  BY <1>1, <1>2 DEF Newest
<1>4. /\ DOMAIN tasks' = D \cup {i}
      /\ IsFiniteSet(D \cup {i}) /\ Cardinality(D \cup {i}) = n + 1
  BY <1>1, <1>2, <1>3, FS_AddElement
<1>5. \A j \in D : tasks'[j] = tasks[j]
  BY <1>1, <1>3
<1>6. /\ tasks'[i] \in Row
      /\ tasks'[i].order = n /\ tasks'[i].status = "NEW"
      /\ ~tasks'[i].started /\ ~tasks'[i].completed
  BY <1>1, <1>2 DEF Row, TaskStatus
<1>7. List(tasks') /\ DOMAIN tasks' \subseteq 1 .. MaxTasks
  BY <1>1, <1>2, <1>4, <1>5, <1>6, MaxTasksAssumption DEF List, ListInv
<1>8. PositionsContiguous'
  <2>1. LastPlace(tasks) = n - 1 /\ LastPlace(tasks') = n
    BY <1>2, <1>4 DEF LastPlace
  <2>2. { tasks[j].order : j \in D } = 0 .. n - 1
    BY <2>1 DEF ListInv, PositionsContiguous, Contiguous
  <2>3. { tasks'[j].order : j \in D \cup {i} } = { tasks[j].order : j \in D } \cup {n}
    BY <1>3, <1>5, <1>6
  <2>4. { tasks'[j].order : j \in D \cup {i} } = 0 .. n
    BY <1>2, <2>2, <2>3
  <2> QED
    BY <1>4, <2>1, <2>4 DEF PositionsContiguous, Contiguous
<1>9. TaskClockMatches'
  BY <1>4, <1>5, <1>6 DEF ListInv, TaskClockMatches
<1>10. roster' \in Board!Rosters
  <2>1. Holders' \in SUBSET User
    BY <1>7 DEF List, Row, Holders
  <2> QED
    BY <2>1, SyncTyped DEF Create, ListInv
<1>11. OthersKept
  BY <1>5, KeptIfAllKept
<1>12. NoBlockerPassed
  BY <1>3, <1>4, <1>5 DEF NoBlockerPassed
<1> QED
  BY <1>7, <1>8, <1>9, <1>10, <1>11, <1>12 DEF ListInv

LEMMA ReorderStep ==
  ASSUME ListInv, NEW u \in User, NEW x \in DOMAIN tasks, NEW target \in Nat,
         Reorder(u, x, target)
  PROVE  ListInv' /\ OthersKept /\ NoBlockerPassed
<1>1. tasks' = MovedTo(tasks, x, target) /\ roster' = roster
  BY DEF Reorder
<1>2. /\ List(tasks')
      /\ DOMAIN tasks' = DOMAIN tasks
      /\ Contiguous(tasks')
      /\ \A i, j \in DOMAIN tasks \ {x} :
           tasks[i].order < tasks[j].order => tasks'[i].order < tasks'[j].order
      /\ \A i \in DOMAIN tasks : tasks'[i] = [tasks[i] EXCEPT !.order = tasks'[i].order]
  BY <1>1, MovedToRight DEF ListInv
<1>3. \A i \in DOMAIN tasks : /\ tasks'[i].status = tasks[i].status
                              /\ tasks'[i].started = tasks[i].started
                              /\ tasks'[i].completed = tasks[i].completed
  BY <1>2 DEF List, Row, ListInv
<1>4. TaskClockMatches'
  BY <1>2, <1>3 DEF ListInv, TaskClockMatches
<1>5. OthersKept
  BY <1>2 DEF OthersKept
<1>6. NoBlockerPassed
  BY <1>3 DEF NoBlockerPassed
<1> QED
  BY <1>1, <1>2, <1>4, <1>5, <1>6 DEF ListInv, PositionsContiguous

LEMMA UpdateStep ==
  ASSUME ListInv, NEW u \in User, NEW x \in DOMAIN tasks, NEW st \in TaskStatus,
         NEW holder \in User, NEW b \in BOOLEAN, Update(u, x, st, holder, b)
  PROVE  ListInv' /\ OthersKept /\ NoBlockerPassed
<1> DEFINE row == IF st = tasks[x].status THEN tasks[x] ELSE Stamped(tasks[x], tasks[x], st)
           new == [row EXCEPT !.holder = holder, !.blocking = b]
<1>1. tasks' = [tasks EXCEPT ![x] = new]
  BY DEF Update, Updated
<1>2. /\ tasks[x] \in Row
      /\ tasks[x].completed <=> tasks[x].status = "COMPLETED"
      /\ tasks[x].started <=> tasks[x].status # "NEW"
  BY DEF ListInv, List, TaskClockMatches
<1>3. /\ row \in Row
      /\ row.status = st /\ row.order = tasks[x].order
      /\ row.completed <=> st = "COMPLETED"
      /\ row.started <=> st # "NEW"
  <2>1. CASE st = tasks[x].status
    BY <1>2, <2>1 DEF Row
  <2>2. CASE st # tasks[x].status
    BY <1>2, <2>2 DEF Stamped, Row, TaskStatus
  <2> QED
    BY <2>1, <2>2
<1> HIDE DEF row
<1>4. /\ new \in Row
      /\ new.status = st /\ new.order = tasks[x].order
      /\ new.completed <=> st = "COMPLETED"
      /\ new.started <=> st # "NEW"
  BY <1>3 DEF Row
<1> HIDE DEF new
<1>5. /\ DOMAIN tasks' = DOMAIN tasks
      /\ tasks'[x] = new
      /\ \A i \in DOMAIN tasks \ {x} : tasks'[i] = tasks[i]
  BY <1>1 DEF ListInv, List
<1>6. List(tasks')
  BY <1>1, <1>4, <1>5 DEF ListInv, List
<1>7. \A i \in DOMAIN tasks : tasks'[i].order = tasks[i].order
  BY <1>4, <1>5
<1>8. PositionsContiguous'
  <2>1. LastPlace(tasks') = LastPlace(tasks)
    BY <1>5 DEF LastPlace
  <2> QED
    BY <1>5, <1>7, <2>1 DEF ListInv, PositionsContiguous, Contiguous
<1>9. TaskClockMatches'
  BY <1>4, <1>5 DEF ListInv, TaskClockMatches
<1>10. roster' \in Board!Rosters
  <2>1. Holders' \in SUBSET User
    BY <1>6 DEF List, Row, Holders
  <2> QED
    BY <2>1, SyncTyped DEF Update, ListInv
<1>11. OthersKept
  BY <1>5, <1>7, KeptIfAllKept
<1>12. NoBlockerPassed
  <2> SUFFICES ASSUME NEW i \in DOMAIN tasks, NEW j \in DOMAIN tasks,
                      tasks'[i].status \notin { "NEW", tasks[i].status },
                      tasks[j].order < tasks[i].order, tasks[j].blocking
               PROVE  tasks[j].status = "COMPLETED"
    BY <1>5 DEF NoBlockerPassed
  <2>1. i = x
    BY <1>5
  <2>2. Blockers(tasks, x) = {}
    BY <1>4, <1>5, <2>1 DEF Update
  <2> QED
    BY <2>1, <2>2 DEF Blockers
<1> QED
  BY <1>5, <1>6, <1>8, <1>9, <1>10, <1>11, <1>12 DEF ListInv

LEMMA RemoveStep ==
  ASSUME ListInv, NEW u \in User, NEW x \in DOMAIN tasks, Remove(u, x)
  PROVE  ListInv' /\ OthersKept /\ NoBlockerPassed
<1> DEFINE left == Without(x)
<1>1. tasks' = Rebalanced(left) /\ Sync
  BY DEF Remove
<1>2. /\ DOMAIN left = DOMAIN tasks \ {x}
      /\ \A i \in DOMAIN left : left[i] = tasks[i]
  BY DEF Without
<1>3. List(left)
  <2>1. IsFiniteSet(DOMAIN left)
    BY <1>2, FS_RemoveElement DEF ListInv, List
  <2> QED
    BY <1>2, <2>1 DEF ListInv, List, Without
<1>4. /\ List(tasks')
      /\ DOMAIN tasks' = DOMAIN left
      /\ Contiguous(tasks')
      /\ \A i, j \in DOMAIN left :
           left[i].order < left[j].order => tasks'[i].order < tasks'[j].order
  BY <1>1, <1>3, RebalancedRight
<1>5. \A i \in DOMAIN left : /\ tasks'[i].status = tasks[i].status
                             /\ tasks'[i].started = tasks[i].started
                             /\ tasks'[i].completed = tasks[i].completed
  <2> SUFFICES ASSUME NEW i \in DOMAIN left
               PROVE  /\ tasks'[i].status = tasks[i].status
                      /\ tasks'[i].started = tasks[i].started
                      /\ tasks'[i].completed = tasks[i].completed
    OBVIOUS
  <2>1. tasks'[i] = [left[i] EXCEPT !.order = Place(left, i)]
    BY <1>1 DEF Rebalanced
  <2>2. left[i] \in Row /\ left[i] = tasks[i]
    BY <1>2, <1>3 DEF List
  <2> QED
    BY <2>1, <2>2 DEF Row
<1>6. TaskClockMatches'
  BY <1>2, <1>4, <1>5 DEF ListInv, TaskClockMatches
<1>7. roster' \in Board!Rosters
  <2>1. Holders' \in SUBSET User
    BY <1>4 DEF List, Row, Holders
  <2> QED
    BY <1>1, <2>1, SyncTyped DEF ListInv
<1>8. OthersKept
  BY <1>2, <1>4, KeptIfAllKept
<1>9. NoBlockerPassed
  BY <1>4, <1>5 DEF NoBlockerPassed
<1> QED
  BY <1>2, <1>4, <1>6, <1>7, <1>8, <1>9 DEF ListInv, PositionsContiguous

LEMMA RosterStepKeeps ==
  ASSUME ListInv, NEW u \in User, NEW d \in User, RosterStep(u, d)
  PROVE  ListInv' /\ OthersKept /\ NoBlockerPassed
<1>1. tasks' = tasks
  BY DEF RosterStep
<1>2. roster' \in Board!Rosters
  BY DEF RosterStep, ListInv, Board!AddToRoster, Board!RemoveFromRoster, Board!HandOverLead,
         Board!AddAssignee, Board!RemoveAssignee, Board!SetLead, Board!Rosters
<1>3. OthersKept
  BY <1>1, KeptIfAllKept
<1> QED
  BY <1>1, <1>2, <1>3 DEF ListInv, PositionsContiguous, TaskClockMatches, NoBlockerPassed

LEMMA TasksStep ==
  ASSUME ListInv, TaskNext
  PROVE  ListInv' /\ OthersKept /\ NoBlockerPassed
<1>1. ASSUME NEW u \in User, NEW d \in User, RosterStep(u, d)
      PROVE  ListInv' /\ OthersKept /\ NoBlockerPassed
  BY <1>1, RosterStepKeeps
<1>2. ASSUME NEW u \in User, NEW d \in User, NEW b \in BOOLEAN, Create(u, d, b)
      PROVE  ListInv' /\ OthersKept /\ NoBlockerPassed
  BY <1>2, CreateStep
<1>3. ASSUME NEW u \in User, NEW i \in DOMAIN tasks, NEW target \in 0 .. MaxTasks,
             Reorder(u, i, target)
      PROVE  ListInv' /\ OthersKept /\ NoBlockerPassed
  BY <1>3, ReorderStep, MaxTasksAssumption
<1>4. ASSUME NEW u \in User, NEW i \in DOMAIN tasks, NEW st \in TaskStatus,
             NEW d \in User, NEW b \in BOOLEAN, Update(u, i, st, d, b)
      PROVE  ListInv' /\ OthersKept /\ NoBlockerPassed
  BY <1>4, UpdateStep
<1>5. ASSUME NEW u \in User, NEW i \in DOMAIN tasks, Remove(u, i)
      PROVE  ListInv' /\ OthersKept /\ NoBlockerPassed
  BY <1>5, RemoveStep
<1> QED
  BY <1>1, <1>2, <1>3, <1>4, <1>5 DEF TaskNext

LEMMA TasksStutter ==
  ASSUME ListInv, UNCHANGED taskVars PROVE ListInv'
BY DEF taskVars, ListInv, PositionsContiguous, TaskClockMatches

LEMMA ListInvariant == TaskSpec => []ListInv
<1>1. ListInv /\ [TaskNext]_taskVars => ListInv'
  BY TasksStep, TasksStutter
<1> QED
  BY <1>1, ListInitially, PTL DEF TaskSpec

-----------------------------------------------------------------------------
\* A contiguous list of at most n rows has positions below n.
LEMMA PositionsBounded ==
  ASSUME ListInv PROVE \A i \in DOMAIN tasks : tasks[i].order \in 0 .. MaxTasks - 1
<1>1. /\ IsFiniteSet(1 .. MaxTasks) /\ Cardinality(1 .. MaxTasks) = MaxTasks
  BY MaxTasksAssumption, FS_Interval
<1>2. /\ Cardinality(DOMAIN tasks) <= MaxTasks
      /\ Cardinality(DOMAIN tasks) \in Nat
  BY <1>1, FS_Subset, FS_CardinalityType DEF ListInv
<1>3. 0 .. LastPlace(tasks) \subseteq 0 .. MaxTasks - 1
  BY <1>2, MaxTasksAssumption DEF LastPlace
<1> QED
  BY <1>3 DEF ListInv, PositionsContiguous, Contiguous

(***************************************************************************)
(* The types of list and roster; a position never reaches the number of    *)
(* rows there may be, whatever target a reorder asks for.                  *)
(***************************************************************************)
THEOREM TasksTypeCorrect == TaskSpec => []TaskTypeOK
<1>1. ListInv => TaskTypeOK
  <2> SUFFICES ASSUME ListInv PROVE TaskTypeOK
    OBVIOUS
  <2>1. \A i \in DOMAIN tasks : tasks[i] \in Row /\ tasks[i].order \in 0 .. MaxTasks - 1
    BY PositionsBounded DEF ListInv, List
  <2>2. \A i \in DOMAIN tasks : tasks[i] \in Task
    BY <2>1 DEF Row, Task
  <2> QED
    BY <2>2 DEF ListInv, List, TaskTypeOK
<1> QED
  BY <1>1, ListInvariant, PTL

(***************************************************************************)
(* PositionsContiguous is an invariant for lists of any length: the count, *)
(* the rebalance and moveTo agree on what the positions are.               *)
(***************************************************************************)
THEOREM PositionsStayContiguous == TaskSpec => []PositionsContiguous
<1>1. ListInv => PositionsContiguous
  BY DEF ListInv
<1> QED
  BY <1>1, ListInvariant, PTL

(***************************************************************************)
(* TaskClockMatches is an invariant: the stamps tell the status of every   *)
(* task.                                                                   *)
(***************************************************************************)
THEOREM TaskClockAgrees == TaskSpec => []TaskClockMatches
<1>1. ListInv => TaskClockMatches
  BY DEF ListInv
<1> QED
  BY <1>1, ListInvariant, PTL

(***************************************************************************)
(* No step starts or completes a task below an unfinished blocking one.    *)
(***************************************************************************)
THEOREM NoTaskPassesBlocker == TaskSpec => BlockersHold
<1>1. ListInv /\ [TaskNext]_taskVars => [NoBlockerPassed]_taskVars
  BY TasksStep
<1> QED
  BY <1>1, ListInvariant, PTL DEF TaskSpec, BlockersHold, NoBlockerPassed

(***************************************************************************)
(* Every step moves one row at most against the others.                    *)
(***************************************************************************)
THEOREM OneRowMoves == TaskSpec => OthersKeepOrder
<1>1. ListInv /\ [TaskNext]_taskVars => [OthersKept]_taskVars
  BY TasksStep
<1> QED
  BY <1>1, ListInvariant, PTL DEF TaskSpec, OthersKeepOrder, OthersKept

-----------------------------------------------------------------------------
\* The second variable of Board.
Open == \E i \in DOMAIN tasks : tasks[i].status # "COMPLETED"

LEMMA CreateIsBoardStep ==
  ASSUME ListInv, NEW u \in User, NEW d \in User, NEW b \in BOOLEAN, Create(u, d, b)
  PROVE  Board!CreateTask(u, d)
<1>1. PICK i \in 1 .. MaxTasks :
        /\ Newest(i)
        /\ tasks' = [ j \in DOMAIN tasks \cup {i} |->
             IF j # i THEN tasks[j]
             ELSE [ order |-> Cardinality(DOMAIN tasks), holder |-> d, creator |-> u,
                    status |-> "NEW", started |-> FALSE, completed |-> FALSE,
                    blocking |-> b ] ]
  BY DEF Create
<1>2. /\ i \notin DOMAIN tasks
      /\ DOMAIN tasks' = DOMAIN tasks \cup {i}
      /\ tasks'[i].holder = d /\ tasks'[i].status = "NEW"
      /\ \A j \in DOMAIN tasks : tasks'[j] = tasks[j]
  BY <1>1 DEF Newest, ListInv
<1>3. Holders' = Holders \cup {d} /\ Open'
  BY <1>2 DEF Holders, Open
<1> QED
  BY <1>3 DEF Create, Sync, Manages, Board!CreateTask, Board!Sync, Open

LEMMA ReorderIsStutter ==
  ASSUME ListInv, NEW u \in User, NEW x \in DOMAIN tasks, NEW target \in Nat,
         Reorder(u, x, target)
  PROVE  UNCHANGED Board!boardVars
<1>1. tasks' = MovedTo(tasks, x, target) /\ roster' = roster
  BY DEF Reorder
<1>2. /\ DOMAIN tasks' = DOMAIN tasks
      /\ \A i \in DOMAIN tasks : tasks'[i] = [tasks[i] EXCEPT !.order = tasks'[i].order]
  BY <1>1, MovedToRight DEF ListInv
<1>3. \A i \in DOMAIN tasks : /\ tasks'[i].status = tasks[i].status
                              /\ tasks'[i].holder = tasks[i].holder
  BY <1>2 DEF ListInv, List, Row
<1>4. Holders' = Holders
  BY <1>2, <1>3 DEF Holders
<1>5. Open' = Open
  BY <1>2, <1>3 DEF Open
<1> QED
  BY <1>1, <1>4, <1>5 DEF Board!boardVars, Open

LEMMA UpdateIsBoardStep ==
  ASSUME ListInv, NEW u \in User, NEW x \in DOMAIN tasks, NEW st \in TaskStatus,
         NEW d \in User, NEW b \in BOOLEAN, Update(u, x, st, d, b)
  PROVE  \/ Board!SetTaskStatus(u)
         \/ \E from \in User : Board!ReassignTask(u, from, d)
<1> DEFINE from == tasks[x].holder
           row == IF st = tasks[x].status THEN tasks[x] ELSE Stamped(tasks[x], tasks[x], st)
           new == [row EXCEPT !.holder = d, !.blocking = b]
<1>1. tasks' = [tasks EXCEPT ![x] = new]
  BY DEF Update, Updated
<1>2. tasks[x] \in Row
  BY DEF ListInv, List
<1>3. row \in Row
  BY <1>2 DEF Stamped, Row, TaskStatus
<1> HIDE DEF row
<1>4. new.holder = d
  BY <1>3 DEF Row
<1> HIDE DEF new
<1>5. /\ DOMAIN tasks' = DOMAIN tasks
      /\ tasks'[x].holder = d
      /\ \A i \in DOMAIN tasks \ {x} : tasks'[i] = tasks[i]
  BY <1>1, <1>4 DEF ListInv, List
<1>6. from \in User /\ from \in Holders
  BY <1>2 DEF Row, Holders
<1>7. Open' \in BOOLEAN
  BY DEF Open
<1>8. CASE d = from
  <2>1. Holders' = Holders /\ roster' = roster
    BY <1>5, <1>8 DEF Holders, Update
  <2>2. Board!Can(u, "task:manage") \/ u \in Holders
    BY <1>6 DEF Update, MayUpdate, Manages
  <2> QED
    BY <1>6, <1>7, <2>1, <2>2 DEF Board!SetTaskStatus, Open
<1>9. CASE d # from
  <2>1. \E left \in { Holders, Holders \ {from} } : Holders' = left \cup {d}
    <3>1. CASE \E i \in DOMAIN tasks \ {x} : tasks[i].holder = from
      <4>1. Holders' = Holders \cup {d}
        BY <1>5, <3>1 DEF Holders
      <4> QED
        BY <4>1
    <3>2. CASE ~\E i \in DOMAIN tasks \ {x} : tasks[i].holder = from
      <4>1. Holders' = (Holders \ {from}) \cup {d}
        BY <1>5, <3>2 DEF Holders
      <4> QED
        BY <4>1
    <3> QED
      BY <3>1, <3>2
  <2>2. Board!Can(u, "task:manage") /\ d \in Board!Reachable /\ Sync
    BY <1>9 DEF Update, MayUpdate, Manages
  <2>3. Board!ReassignTask(u, from, d)
    BY <1>6, <1>7, <1>9, <2>1, <2>2 DEF Board!ReassignTask, Board!Without, Board!Sync, Sync, Open
  <2> QED
    BY <1>6, <2>3
<1> QED
  BY <1>8, <1>9

LEMMA RemoveIsBoardStep ==
  ASSUME ListInv, NEW u \in User, NEW x \in DOMAIN tasks, Remove(u, x),
         NEW from \in User, from = tasks[x].holder
  PROVE  Board!RemoveTask(u, from)
<1> DEFINE left == Without(x)
<1>1. tasks' = Rebalanced(left) /\ Sync
  BY DEF Remove
<1>2. DOMAIN tasks' = DOMAIN tasks \ {x}
  BY <1>1 DEF Rebalanced, Without
<1>3. \A i \in DOMAIN tasks \ {x} : /\ tasks'[i].status = tasks[i].status
                                   /\ tasks'[i].holder = tasks[i].holder
  <2> SUFFICES ASSUME NEW i \in DOMAIN tasks \ {x}
               PROVE  /\ tasks'[i].status = tasks[i].status
                      /\ tasks'[i].holder = tasks[i].holder
    OBVIOUS
  <2>1. tasks'[i] = [tasks[i] EXCEPT !.order = Place(left, i)]
    BY <1>1 DEF Rebalanced, Without
  <2>2. tasks[i] \in Row
    BY DEF ListInv, List
  <2> QED
    BY <2>1, <2>2 DEF Row
<1>4. from \in Holders
  BY DEF Holders
<1>5. Holders' \in { Holders, Holders \ {from} }
  <2>1. CASE \E i \in DOMAIN tasks \ {x} : tasks[i].holder = from
    <3>1. Holders' = Holders
      BY <1>2, <1>3, <2>1 DEF Holders
    <3> QED
      BY <3>1
  <2>2. CASE ~\E i \in DOMAIN tasks \ {x} : tasks[i].holder = from
    <3>1. Holders' = Holders \ {from}
      BY <1>2, <1>3, <2>2 DEF Holders
    <3> QED
      BY <3>1
  <2> QED
    BY <2>1, <2>2
<1>6. Open' \in BOOLEAN /\ (Open' => Open /\ Holders' # {})
  BY <1>2, <1>3 DEF Open, Holders
<1>7. Open' \in { FALSE, Open /\ Holders' # {} }
  BY <1>6 DEF Open
<1>8. \/ Board!Can(u, "task:manage")
      \/ u = from /\ Open /\ Board!Can(u, "task:create-own")
  BY DEF Remove, MayRemove, Manages, Open
<1> QED
  BY <1>1, <1>4, <1>5, <1>7, <1>8 DEF Board!RemoveTask, Board!Without, Board!Sync, Sync, Open

(***************************************************************************)
(* The task list implements TaskBoard: what was proved of the board, that  *)
(* holders are on the roster and that no task write moves the lead, holds  *)
(* of the rows.                                                            *)
(***************************************************************************)
THEOREM TasksImplementBoard == TaskSpec => ImplementsBoard
<1>1. TaskInit => Board!BoardInit
  <2> SUFFICES ASSUME TaskInit PROVE Board!BoardInit
    OBVIOUS
  <2>1. DOMAIN tasks = {}
    BY DEF TaskInit
  <2> QED
    BY <2>1 DEF TaskInit, Board!BoardInit, Holders
<1>2. ListInv /\ TaskNext => Board!BoardNext \/ UNCHANGED Board!boardVars
  <2> SUFFICES ASSUME ListInv, TaskNext
               PROVE  Board!BoardNext \/ UNCHANGED Board!boardVars
    OBVIOUS
  <2>0. \A i \in DOMAIN tasks : tasks[i].holder \in User
    BY DEF ListInv, List, Row
  <2>1. ASSUME NEW u \in User, NEW d \in User, RosterStep(u, d)
        PROVE  Board!BoardNext
    <3>1. Holders' = Holders /\ Open' = Open
      BY <2>1 DEF RosterStep, Holders, Open
    <3> QED
      BY <2>1 DEF RosterStep, Board!BoardNext
  <2>2. ASSUME NEW u \in User, NEW d \in User, NEW b \in BOOLEAN, Create(u, d, b)
        PROVE  Board!BoardNext
    BY <2>2, CreateIsBoardStep DEF Board!BoardNext
  <2>3. ASSUME NEW u \in User, NEW i \in DOMAIN tasks, NEW target \in 0 .. MaxTasks,
               Reorder(u, i, target)
        PROVE  UNCHANGED Board!boardVars
    BY <2>3, ReorderIsStutter, MaxTasksAssumption
  <2>4. ASSUME NEW u \in User, NEW i \in DOMAIN tasks, NEW st \in TaskStatus,
               NEW d \in User, NEW b \in BOOLEAN, Update(u, i, st, d, b)
        PROVE  Board!BoardNext
    BY <2>4, UpdateIsBoardStep DEF Board!BoardNext
  <2>5. ASSUME NEW u \in User, NEW i \in DOMAIN tasks, Remove(u, i)
        PROVE  Board!BoardNext
    <3>1. PICK d \in User : d = tasks[i].holder
      BY <2>0
    <3>2. Board!RemoveTask(u, d)
      BY <2>5, <3>1, RemoveIsBoardStep
    <3> QED
      BY <3>2 DEF Board!BoardNext
  <2> QED
    BY <2>1, <2>2, <2>3, <2>4, <2>5 DEF TaskNext
<1>3. UNCHANGED taskVars => UNCHANGED Board!boardVars
  BY DEF taskVars, Board!boardVars, Holders
<1> QED
  BY <1>1, <1>2, <1>3, ListInvariant, PTL DEF TaskSpec, ImplementsBoard, Board!BoardSpec

-----------------------------------------------------------------------------
(***************************************************************************)
(* What the roster of a board keeps (RequestsProofs proves it of a ticket  *)
(* that is only a board), said of the board the list implements.           *)
(***************************************************************************)
\* LeadOnRoster, of any roster.
WellLed(r) ==
  /\ r.lead \subseteq r.active
  /\ \A d, e \in r.lead : d = e

(***************************************************************************)
(* Every operation on a roster yields a roster with one lead, on it.       *)
(***************************************************************************)
LEMMA SetLeadWellLed ==
  ASSUME NEW r \in Board!Rosters, NEW d \in User
  PROVE  Board!SetLead(r, d) \in Board!Rosters /\ WellLed(Board!SetLead(r, d))
BY DEF Board!SetLead, Board!Rosters, WellLed

LEMMA AddAssigneeWellLed ==
  ASSUME NEW r \in Board!Rosters, NEW d \in User, WellLed(r)
  PROVE  Board!AddAssignee(r, d) \in Board!Rosters /\ WellLed(Board!AddAssignee(r, d))
BY DEF Board!AddAssignee, Board!ActiveLeads, Board!Rosters, WellLed

LEMMA RemoveAssigneeWellLed ==
  ASSUME NEW r \in Board!Rosters, NEW d \in User, WellLed(r)
  PROVE  Board!RemoveAssignee(r, d) \in Board!Rosters /\ WellLed(Board!RemoveAssignee(r, d))
BY DEF Board!RemoveAssignee, Board!Rosters, WellLed

(***************************************************************************)
(* The sync puts every holder on the roster, leaves the lead alone where   *)
(* there is one and finds one where there is none.                         *)
(***************************************************************************)
LEMMA SyncReconciles ==
  ASSUME NEW r \in Board!Rosters, NEW hs \in SUBSET User, WellLed(r),
         NEW s \in Board!SyncFromTasks(r, hs)
  PROVE  /\ s \in Board!Rosters /\ WellLed(s)
         /\ hs \subseteq s.active
         /\ Board!ActiveLeads(r) # {} => Board!ActiveLeads(s) = Board!ActiveLeads(r)
         /\ Board!ActiveLeads(r) = {} /\ hs # {} => Board!ActiveLeads(s) # {}
<1> DEFINE kept == Board!Reconciled(r, hs)
<1>1. /\ kept \in Board!Rosters /\ WellLed(kept)
      /\ hs \subseteq kept.active
      /\ Board!ActiveLeads(kept) = Board!ActiveLeads(r)
  BY DEF Board!Reconciled, Board!ActiveLeads, Board!Rosters, WellLed
<1>2. CASE Board!ActiveLeads(kept) = {} /\ hs # {}
  <2>1. PICK h \in hs : s = Board!SetLead(kept, h)
    BY <1>2 DEF Board!SyncFromTasks
  <2>2. s \in Board!Rosters /\ WellLed(s)
    BY <1>1, <2>1, SetLeadWellLed
  <2>3. s.active = kept.active \cup {h} /\ s.lead = {h}
    BY <2>1 DEF Board!SetLead
  <2> QED
    BY <1>1, <1>2, <2>2, <2>3 DEF Board!ActiveLeads
<1>3. CASE ~(Board!ActiveLeads(kept) = {} /\ hs # {})
  <2>1. s = kept
    BY <1>3 DEF Board!SyncFromTasks
  <2> QED
    BY <1>1, <1>3, <2>1
<1> QED
  BY <1>2, <1>3

-----------------------------------------------------------------------------
BoardInv == Board!BoardTypeOK /\ Board!LeadOnRoster

LEMMA BoardInitially == Board!BoardInit => BoardInv /\ Board!HoldersOnRoster
<1>1. Board!EmptyRoster \in Board!Rosters /\ WellLed(Board!EmptyRoster)
  BY DEF Board!EmptyRoster, Board!Rosters, WellLed
<1>2. \A d \in User : LET r == Board!SetLead(Board!EmptyRoster, d)
                     IN  r \in Board!Rosters /\ WellLed(r)
  BY <1>1, SetLeadWellLed
<1> QED
  BY <1>1, <1>2
  DEF Board!BoardInit, BoardInv, Board!BoardTypeOK, Board!LeadOnRoster, Board!HoldersOnRoster, WellLed

(***************************************************************************)
(* A step that ends in the sync: the facts TaskWriteKeepsLead and the      *)
(* invariants need of it.                                                  *)
(***************************************************************************)
LEMMA SyncStep ==
  ASSUME BoardInv, Board!Sync, Holders' \in SUBSET User, Open' \in BOOLEAN
  PROVE  /\ BoardInv' /\ Board!HoldersOnRoster'
         /\ Board!ActiveLeads(roster) # {} => Board!ActiveLeads(roster') = Board!ActiveLeads(roster)
         /\ Board!ActiveLeads(roster) = {} /\ Holders' # {} => Board!ActiveLeads(roster') # {}
<1>1. roster \in Board!Rosters /\ WellLed(roster)
  BY DEF BoardInv, Board!BoardTypeOK, Board!LeadOnRoster, WellLed
<1>2. roster' \in Board!SyncFromTasks(roster, Holders')
  BY DEF Board!Sync
<1>3. /\ roster' \in Board!Rosters /\ WellLed(roster')
      /\ Holders' \subseteq roster'.active
      /\ Board!ActiveLeads(roster) # {} => Board!ActiveLeads(roster') = Board!ActiveLeads(roster)
      /\ Board!ActiveLeads(roster) = {} /\ Holders' # {} => Board!ActiveLeads(roster') # {}
  BY <1>1, <1>2, SyncReconciles
<1> QED
  BY <1>3 DEF BoardInv, Board!BoardTypeOK, Board!LeadOnRoster, Board!HoldersOnRoster, WellLed

LEMMA RosterKept ==
  ASSUME BoardInv, UNCHANGED <<Holders, Open>>,
         roster' \in Board!Rosters, WellLed(roster')
  PROVE  BoardInv'
BY DEF BoardInv, Board!BoardTypeOK, Board!LeadOnRoster, WellLed

\* A task write either ends in the sync or leaves holders and roster alone.
LEMMA BoardStepKeeps ==
  ASSUME BoardInv, Board!BoardNext
  PROVE  /\ BoardInv'
         /\ Board!HoldersOnRoster => Board!HoldersOnRoster'
         /\ Holders' # Holders => Board!Sync /\ Holders' \in SUBSET User /\ Open' \in BOOLEAN
<1> USE DEF BoardInv
<1>0. /\ Holders \in SUBSET User /\ Open \in BOOLEAN /\ roster \in Board!Rosters
      /\ WellLed(roster)
      /\ Board!Reachable \subseteq User /\ Board!Assignable \subseteq User
  BY BoardAssumption
  DEF Board!BoardTypeOK, Board!LeadOnRoster, WellLed, Board!Reachable, Board!Assignable, Board!Rosters,
      Open
<1>1. ASSUME NEW u \in User, NEW d \in User, Board!CreateTask(u, d)
      PROVE  Board!Sync /\ Holders' \in SUBSET User /\ Open' \in BOOLEAN
  BY <1>0, <1>1 DEF Board!CreateTask, Open
<1>2. ASSUME NEW u \in User, NEW d \in User, Board!RemoveTask(u, d)
      PROVE  Board!Sync /\ Holders' \in SUBSET User /\ Open' \in BOOLEAN
  BY <1>0, <1>2 DEF Board!RemoveTask, Board!Without, Open
<1>3. ASSUME NEW u \in User, NEW d \in User, NEW e \in User, Board!ReassignTask(u, d, e)
      PROVE  Board!Sync /\ Holders' \in SUBSET User /\ Open' \in BOOLEAN
  BY <1>0, <1>3 DEF Board!ReassignTask, Board!Without, Open
<1>4. ASSUME NEW u \in User, NEW d \in User, Board!AddToRoster(u, d)
      PROVE  /\ BoardInv' /\ Holders' = Holders
             /\ Board!HoldersOnRoster => Board!HoldersOnRoster'
  <2>1. roster' = Board!AddAssignee(roster, d) /\ UNCHANGED <<Holders, Open>>
    BY <1>4 DEF Board!AddToRoster, Open
  <2>2. BoardInv'
    BY <1>0, <2>1, AddAssigneeWellLed, RosterKept
  <2>3. roster'.active = roster.active \cup {d}
    BY <2>1 DEF Board!AddAssignee
  <2> QED
    BY <2>1, <2>2, <2>3 DEF Board!HoldersOnRoster
<1>5. ASSUME NEW u \in User, NEW d \in User, Board!RemoveFromRoster(u, d)
      PROVE  /\ BoardInv' /\ Holders' = Holders
             /\ Board!HoldersOnRoster => Board!HoldersOnRoster'
  <2>1. /\ roster' = Board!RemoveAssignee(roster, d) /\ UNCHANGED <<Holders, Open>>
        /\ d \notin Holders
    BY <1>5 DEF Board!RemoveFromRoster, Open
  <2>2. BoardInv'
    BY <1>0, <2>1, RemoveAssigneeWellLed, RosterKept
  <2>3. roster'.active = roster.active \ {d}
    BY <2>1 DEF Board!RemoveAssignee
  <2> QED
    BY <2>1, <2>2, <2>3 DEF Board!HoldersOnRoster
<1>6. ASSUME NEW u \in User, NEW d \in User, Board!HandOverLead(u, d)
      PROVE  /\ BoardInv' /\ Holders' = Holders
             /\ Board!HoldersOnRoster => Board!HoldersOnRoster'
  <2>1. roster' = Board!SetLead(roster, d) /\ UNCHANGED <<Holders, Open>>
    BY <1>6 DEF Board!HandOverLead, Open
  <2>2. BoardInv'
    BY <1>0, <2>1, SetLeadWellLed, RosterKept
  <2>3. roster'.active = roster.active \cup {d}
    BY <2>1 DEF Board!SetLead
  <2> QED
    BY <2>1, <2>2, <2>3 DEF Board!HoldersOnRoster
<1>7. ASSUME NEW u \in User, Board!SetTaskStatus(u)
      PROVE  /\ BoardInv' /\ Holders' = Holders
             /\ Board!HoldersOnRoster => Board!HoldersOnRoster'
  BY <1>7 DEF Board!SetTaskStatus, Board!BoardTypeOK, Board!LeadOnRoster, Board!HoldersOnRoster
<1> QED
  BY <1>1, <1>2, <1>3, <1>4, <1>5, <1>6, <1>7, SyncStep DEF Board!BoardNext

LEMMA BoardStutter ==
  ASSUME UNCHANGED Board!boardVars
  PROVE  /\ BoardInv => BoardInv'
         /\ Board!HoldersOnRoster => Board!HoldersOnRoster'
BY DEF Board!boardVars, BoardInv, Board!BoardTypeOK, Board!LeadOnRoster, Board!HoldersOnRoster

LEMMA BoardKeeps == TaskSpec => [](BoardInv /\ Board!HoldersOnRoster)
<1> DEFINE Inv == BoardInv /\ Board!HoldersOnRoster
<1>1. Board!BoardInit => Inv
  BY BoardInitially
<1>2. Inv /\ [Board!BoardNext]_Board!boardVars => Inv'
  BY BoardStepKeeps, BoardStutter
<1> QED
  BY <1>1, <1>2, TasksImplementBoard, PTL DEF ImplementsBoard, Board!BoardSpec

(***************************************************************************)
(* Lists of any length, users and roles of any number: one lead at most,   *)
(* who is on the roster, and so is whoever holds a row.                    *)
(***************************************************************************)
THEOREM ListRosterAgrees == TaskSpec => []RosterAgrees
<1>1. BoardInv /\ Board!HoldersOnRoster => RosterAgrees
  BY DEF BoardInv, RosterAgrees
<1> QED
  BY <1>1, BoardKeeps, PTL

\* No write of the list moves the lead, or leaves holders without one.
THEOREM ListTaskWriteKeepsLead == TaskSpec => TaskWriteKeepsLead
<1> DEFINE Keeps == Holders' # Holders =>
                      IF Board!ActiveLeads(roster) # {}
                        THEN Board!ActiveLeads(roster') = Board!ActiveLeads(roster)
                        ELSE Holders' # {} => Board!ActiveLeads(roster') # {}
<1>1. BoardInv /\ [Board!BoardNext]_Board!boardVars => [Keeps]_Board!boardVars
  <2> SUFFICES ASSUME BoardInv, Board!BoardNext, Holders' # Holders
               PROVE  Keeps
    OBVIOUS
  <2>1. Board!Sync /\ Holders' \in SUBSET User /\ Open' \in BOOLEAN
    BY BoardStepKeeps
  <2> QED
    BY <2>1, SyncStep
<1> HIDE DEF Keeps
<1>2. TaskSpec => [][Keeps]_Board!boardVars
  BY <1>1, BoardKeeps, TasksImplementBoard, PTL DEF ImplementsBoard, Board!BoardSpec
<1> QED
  BY <1>2 DEF TaskWriteKeepsLead, Board!TaskWriteKeepsLead, Keeps, Open, Board!boardVars

=============================================================================
