---------------------------- MODULE WritesProofs ----------------------------
(***************************************************************************)
(* Proofs about TaskWrites, for any users, estimates and slots: whatever   *)
(* transactions overlap at READ COMMITTED, one active user at most leads,  *)
(* a ticket loses its lead only when he leaves, and a write that overlaps  *)
(* no other leaves in step what it recomputes and is, statement by         *)
(* statement, one step of TaskBoard.                                       *)
(*                                                                         *)
(* The first invariant is about the roster r and the rows each open        *)
(* transaction holds, h[s] for slot s; the second, further down, about     *)
(* what the requests that are alone leave in step; the third about what    *)
(* TaskBoard would say of them.                                            *)
(***************************************************************************)
EXTENDS TaskWrites, FiniteSetTheorems, TLAPS

\* A transaction that has left the flags of the rows it holds as they are.
LeavesFlags(r, rows) ==
  \A d \in User : d \in DOMAIN rows => (rows[d].lead <=> r[d].lead)

(***************************************************************************)
(* A transaction that has made a lead: it holds the rows of all who lead,  *)
(* its own lead is the only one it will leave, and no other transaction    *)
(* has one.                                                                *)
(***************************************************************************)
MakesLead(r, h, s) ==
  /\ \E x \in User : x \in DOMAIN h[s] /\ h[s][x].lead
  /\ \A e \in User : r[e].lead => e \in DOMAIN h[s]
  /\ \A d, e \in User : /\ d \in DOMAIN h[s] /\ h[s][d].lead
                        /\ e \in DOMAIN h[s] /\ h[s][e].lead
                        => d = e
  /\ \A t \in Slot : t # s => \A d \in User : d \in DOMAIN h[t] => ~h[t][d].lead

OneLead(r) ==
  /\ \A d \in User : r[d].lead => r[d].active
  /\ \A d, e \in User : r[d].lead /\ r[e].lead => d = e

\* A row is held by one transaction at most.
RowsHeld(h) ==
  \A s \in Slot, d \in User :
    d \in DOMAIN h[s] =>
      /\ h[s][d] \in Seat
      /\ h[s][d].lead => h[s][d].active
      /\ \A t \in Slot : t # s => d \notin DOMAIN h[t]

LeadInv(r, h) ==
  /\ r \in [User -> Seat] /\ DOMAIN h = Slot
  /\ OneLead(r) /\ RowsHeld(h)
  /\ \A s \in Slot : LeavesFlags(r, h[s]) \/ MakesLead(r, h, s)

Over(r, rows) == [d \in User |-> IF d \in DOMAIN rows THEN rows[d] ELSE r[d]]

Holding(h, s, rows) == [h EXCEPT ![s] = rows]

\* No row of d is held by another transaction, and none of them has a lead.
Free(h, s, d) == \A t \in Slot : t # s => d \notin DOMAIN h[t]
NoOtherLead(h, s) ==
  \A t \in Slot : t # s => \A d \in User : d \in DOMAIN h[t] => ~h[t][d].lead

-----------------------------------------------------------------------------
LEMMA Committed ==
  ASSUME NEW r, NEW h, LeadInv(r, h), NEW s \in Slot
  PROVE  LeadInv(Over(r, h[s]), Holding(h, s, << >>))
<1> DEFINE r2 == Over(r, h[s])
           h2 == Holding(h, s, << >>)
<1>1. /\ r \in [User -> Seat] /\ DOMAIN h = Slot /\ OneLead(r) /\ RowsHeld(h)
      /\ \A t \in Slot : LeavesFlags(r, h[t]) \/ MakesLead(r, h, t)
  BY DEF LeadInv
<1>2. /\ r2 \in [User -> Seat]
      /\ \A d \in User : r2[d] = IF d \in DOMAIN h[s] THEN h[s][d] ELSE r[d]
  BY <1>1 DEF Over, RowsHeld
<1>3. /\ DOMAIN h2 = Slot /\ DOMAIN h2[s] = {}
      /\ \A t \in Slot : t # s => h2[t] = h[t]
  BY <1>1 DEF Holding
<1> HIDE DEF r2, h2
<1>4. RowsHeld(h2)
  BY <1>1, <1>3 DEF RowsHeld
<1>5. CASE LeavesFlags(r, h[s])
  <2>1. \A d \in User : r2[d].lead <=> r[d].lead
    BY <1>2, <1>5 DEF LeavesFlags
  <2>2. OneLead(r2)
    BY <1>1, <1>2, <2>1 DEF OneLead, RowsHeld
  <2>3. ASSUME NEW t \in Slot
        PROVE  LeavesFlags(r2, h2[t]) \/ MakesLead(r2, h2, t)
    <3>1. CASE t = s
      BY <1>3, <3>1 DEF LeavesFlags
    <3>2. CASE t # s /\ LeavesFlags(r, h[t])
      BY <1>3, <2>1, <3>2 DEF LeavesFlags
    <3>3. CASE t # s /\ MakesLead(r, h, t)
      BY <1>3, <2>1, <3>3 DEF MakesLead
    <3> QED
      BY <1>1, <3>1, <3>2, <3>3
  <2> QED
    BY <1>2, <1>3, <1>4, <2>2, <2>3 DEF LeadInv, r2, h2
<1>6. CASE MakesLead(r, h, s)
  <2>1. OneLead(r2)
    BY <1>1, <1>2, <1>6 DEF OneLead, MakesLead, RowsHeld
  <2>2. ASSUME NEW t \in Slot
        PROVE  LeavesFlags(r2, h2[t])
    <3>1. CASE t = s
      BY <1>3, <3>1 DEF LeavesFlags
    <3>2. CASE t # s
      <4>1. \A d \in User : d \in DOMAIN h[t] => ~h[t][d].lead /\ ~r2[d].lead
        BY <1>1, <1>2, <1>6, <3>2 DEF MakesLead, RowsHeld
      <4> QED
        BY <1>3, <3>2, <4>1 DEF LeavesFlags
    <3> QED
      BY <3>1, <3>2
  <2> QED
    BY <1>2, <1>3, <1>4, <2>1, <2>2 DEF LeadInv, r2, h2
<1> QED
  BY <1>1, <1>5, <1>6

\* Rolled back, or done without having held a row.
LEMMA Released ==
  ASSUME NEW r, NEW h, LeadInv(r, h), NEW s \in Slot
  PROVE  LeadInv(r, Holding(h, s, << >>))
<1> DEFINE h2 == Holding(h, s, << >>)
<1>1. /\ r \in [User -> Seat] /\ DOMAIN h = Slot /\ OneLead(r) /\ RowsHeld(h)
      /\ \A t \in Slot : LeavesFlags(r, h[t]) \/ MakesLead(r, h, t)
  BY DEF LeadInv
<1>2. /\ DOMAIN h2 = Slot /\ DOMAIN h2[s] = {}
      /\ \A t \in Slot : t # s => h2[t] = h[t]
  BY <1>1 DEF Holding
<1> HIDE DEF h2
<1>3. RowsHeld(h2)
  BY <1>1, <1>2 DEF RowsHeld
<1>4. ASSUME NEW t \in Slot
      PROVE  LeavesFlags(r, h2[t]) \/ MakesLead(r, h2, t)
  <2>1. CASE t = s
    BY <1>2, <2>1 DEF LeavesFlags
  <2>2. CASE t # s
    BY <1>1, <1>2, <2>2 DEF LeavesFlags, MakesLead
  <2> QED
    BY <2>1, <2>2
<1> QED
  BY <1>1, <1>2, <1>3, <1>4 DEF LeadInv, h2

(***************************************************************************)
(* A transaction takes rows that are free and leaves their flags alone.    *)
(***************************************************************************)
LEMMA TakenAsTheyAre ==
  ASSUME NEW r, NEW h, LeadInv(r, h), NEW s \in Slot, NEW rows, LeavesFlags(r, rows),
         \A d \in User : d \in DOMAIN rows =>
           /\ rows[d] \in Seat
           /\ rows[d].lead => rows[d].active
           /\ Free(h, s, d)
  PROVE  LeadInv(r, Holding(h, s, rows))
<1> DEFINE h2 == Holding(h, s, rows)
<1>1. /\ r \in [User -> Seat] /\ DOMAIN h = Slot /\ OneLead(r) /\ RowsHeld(h)
      /\ \A t \in Slot : LeavesFlags(r, h[t]) \/ MakesLead(r, h, t)
  BY DEF LeadInv
<1>2. DOMAIN h2 = Slot /\ h2[s] = rows /\ \A t \in Slot : t # s => h2[t] = h[t]
  BY <1>1 DEF Holding
<1> HIDE DEF h2
<1>3. RowsHeld(h2)
  BY <1>1, <1>2 DEF RowsHeld, Free
<1>4. ASSUME NEW t \in Slot
      PROVE  LeavesFlags(r, h2[t]) \/ MakesLead(r, h2, t)
  <2>1. CASE t = s
    BY <1>2, <2>1
  <2>2. CASE t # s /\ LeavesFlags(r, h[t])
    BY <1>2, <2>2
  <2>3. CASE t # s /\ MakesLead(r, h, t)
    <3>1. \A d \in User : d \in DOMAIN rows => ~rows[d].lead
      BY <2>3 DEF MakesLead, Free, LeavesFlags
    <3>2. \A u \in Slot : u # t => \A d \in User : d \in DOMAIN h2[u] => ~h2[u][d].lead
      BY <1>2, <2>3, <3>1 DEF MakesLead
    <3> QED
      BY <1>2, <2>3, <3>2 DEF MakesLead
  <2> QED
    BY <1>1, <2>1, <2>2, <2>3
<1> QED
  BY <1>1, <1>2, <1>3, <1>4 DEF LeadInv, h2

(***************************************************************************)
(* A transaction makes x the lead, where no other has one and the rows of  *)
(* x and of all who lead are free: setLead.                                *)
(***************************************************************************)
LEMMA LeadMade ==
  ASSUME NEW r, NEW h, LeadInv(r, h), NEW s \in Slot, NEW x \in User, NEW rows,
         NoOtherLead(h, s), Free(h, s, x), \A e \in User : r[e].lead => Free(h, s, e),
         DOMAIN rows = DOMAIN h[s] \cup { f \in User : Over(r, h[s])[f].lead } \cup {x},
         rows[x] = [active |-> TRUE, lead |-> TRUE],
         \A d \in User : d \in DOMAIN rows /\ d # x => rows[d] \in Seat /\ ~rows[d].lead
  PROVE  LeadInv(r, Holding(h, s, rows))
<1> DEFINE h2 == Holding(h, s, rows)
<1>1. /\ r \in [User -> Seat] /\ DOMAIN h = Slot /\ OneLead(r) /\ RowsHeld(h)
  BY DEF LeadInv
<1>2. DOMAIN h2 = Slot /\ h2[s] = rows /\ \A t \in Slot : t # s => h2[t] = h[t]
  BY <1>1 DEF Holding
<1> HIDE DEF h2
<1>3. ASSUME NEW d \in User, d \in DOMAIN rows PROVE Free(h, s, d)
  <2>1. CASE d \in DOMAIN h[s]
    BY <1>1, <2>1 DEF RowsHeld, Free
  <2>2. CASE d \notin DOMAIN h[s] /\ d # x
    BY <1>3, <2>2 DEF Over
  <2> QED
    BY <2>1, <2>2
<1>4. [active |-> TRUE, lead |-> TRUE] \in Seat
  BY DEF Seat
<1>5. ASSUME NEW t \in Slot, NEW d \in User, d \in DOMAIN h2[t]
      PROVE  /\ h2[t][d] \in Seat /\ (h2[t][d].lead => h2[t][d].active)
             /\ \A u \in Slot : u # t => d \notin DOMAIN h2[u]
  <2>1. CASE t = s
    <3>1. h2[t][d] \in Seat /\ (h2[t][d].lead => h2[t][d].active)
      <4>1. h2[t] = rows /\ d \in DOMAIN rows
        BY <1>2, <1>5, <2>1
      <4>2. CASE d = x
        <5>1. h2[t][d] = [active |-> TRUE, lead |-> TRUE]
          BY <4>1, <4>2
        <5> QED
          BY <1>4, <5>1
      <4>3. CASE d # x
        BY <4>1, <4>3
      <4> QED
        BY <4>2, <4>3
    <3> QED
      BY <1>2, <1>3, <1>5, <2>1, <3>1 DEF Free
  <2>2. CASE t # s
    <3>1. d \in DOMAIN h[t] /\ d \notin DOMAIN rows
      BY <1>2, <1>3, <1>5, <2>2 DEF Free
    <3> QED
      BY <1>1, <1>2, <2>2, <3>1 DEF RowsHeld
  <2> QED
    BY <2>1, <2>2
<1>6. MakesLead(r, h2, s)
  <2>1. x \in DOMAIN h2[s] /\ h2[s][x].lead
    BY <1>2
  <2>2. ASSUME NEW e \in User, r[e].lead PROVE e \in DOMAIN h2[s]
    BY <1>2, <2>2 DEF Over
  <2>3. \A d \in User : d \in DOMAIN h2[s] /\ h2[s][d].lead => d = x
    BY <1>2
  <2> QED
    BY <1>2, <2>1, <2>2, <2>3 DEF MakesLead, NoOtherLead
<1>7. ASSUME NEW t \in Slot, t # s PROVE LeavesFlags(r, h2[t])
  <2>1. \A d \in User : d \in DOMAIN h[t] => ~h[t][d].lead /\ ~r[d].lead
    BY <1>7 DEF NoOtherLead, Free
  <2> QED
    BY <1>2, <1>7, <2>1 DEF LeavesFlags
<1> QED
  BY <1>1, <1>2, <1>5, <1>6, <1>7 DEF LeadInv, RowsHeld, h2

(***************************************************************************)
(* A statement of its own, on rows that are free, which leaves one lead at *)
(* most: with other flags it needs that no transaction has a lead.         *)
(***************************************************************************)
LEMMA RosterWritten ==
  ASSUME NEW r, NEW h, LeadInv(r, h), NEW s \in Slot, NEW r2 \in [User -> Seat], OneLead(r2),
         \A d \in User : r2[d] # r[d] => \A t \in Slot : d \notin DOMAIN h[t],
         \/ \A d \in User : r2[d].lead => r[d].lead
         \/ \A t \in Slot, d \in User : d \in DOMAIN h[t] => ~h[t][d].lead
  PROVE  LeadInv(r2, h)
<1>1. /\ DOMAIN h = Slot /\ RowsHeld(h)
      /\ \A t \in Slot : LeavesFlags(r, h[t]) \/ MakesLead(r, h, t)
  BY DEF LeadInv
<1>2. ASSUME NEW t \in Slot, LeavesFlags(r, h[t]) PROVE LeavesFlags(r2, h[t])
  BY <1>2 DEF LeavesFlags
<1>3. ASSUME NEW t \in Slot, MakesLead(r, h, t) PROVE MakesLead(r2, h, t)
  BY <1>3 DEF MakesLead
<1> QED
  BY <1>1, <1>2, <1>3 DEF LeadInv


\* The rows a request holds decide LeadInv by their values alone.
LEMMA SameRows ==
  ASSUME NEW r, NEW h, LeadInv(r, h), NEW h2, DOMAIN h2 = Slot,
         \A t \in Slot, d \in User :
           /\ d \in DOMAIN h2[t] <=> d \in DOMAIN h[t]
           /\ d \in DOMAIN h[t] => h2[t][d] = h[t][d]
  PROVE  LeadInv(r, h2)
<1>1. /\ r \in [User -> Seat] /\ DOMAIN h = Slot /\ OneLead(r) /\ RowsHeld(h)
      /\ \A t \in Slot : LeavesFlags(r, h[t]) \/ MakesLead(r, h, t)
  BY DEF LeadInv
<1>2. RowsHeld(h2)
  BY <1>1 DEF RowsHeld
<1>3. ASSUME NEW t \in Slot, LeavesFlags(r, h[t]) PROVE LeavesFlags(r, h2[t])
  BY <1>3 DEF LeavesFlags
<1>4. ASSUME NEW t \in Slot, MakesLead(r, h, t) PROVE MakesLead(r, h2, t)
  BY <1>4 DEF MakesLead
<1> QED
  BY <1>1, <1>2, <1>3, <1>4 DEF LeadInv

-----------------------------------------------------------------------------
Named(rows) == \A i \in DOMAIN rows : "holder" \in DOMAIN rows[i] /\ rows[i].holder \in User

\* What each kind of request carries.
Carries(q) ==
  /\ "op" \in DOMAIN q
  /\ "rows" \in DOMAIN q <=> q.op \in {"create", "update", "remove"}
  /\ "step" \in DOMAIN q <=> q.op \in {"create", "update", "remove"}
  /\ q.op \in {"create", "update", "remove"} =>
       /\ {"gone", "seats", "holders"} \subseteq DOMAIN q
       /\ q.holders \subseteq User
       /\ Named(q.rows)
  /\ q.op \in {"join", "leave", "lead"} => "user" \in DOMAIN q /\ q.user \in User

WritesCarry ==
  /\ DOMAIN inflight = Slot
  /\ \A t \in Slot : Carries(inflight[t])
  /\ Named(tasks)

HeldSeats == [t \in Slot |-> Seats(t)]

WritesInv == WritesCarry /\ LeadInv(roster, HeldSeats)

LEMMA InitInv == WritesInit => WritesInv
<1> SUFFICES ASSUME WritesInit PROVE WritesInv
  OBVIOUS
<1>1. \A t \in Slot : inflight[t] = [op |-> "idle"]
  BY DEF WritesInit, Idle
<1>2. WritesCarry
  BY <1>1 DEF WritesInit, WritesCarry, Carries, Named
<1>3. \A t \in Slot : DOMAIN HeldSeats[t] = {}
  BY <1>1 DEF HeldSeats, Seats
<1>4. LeadInv(roster, HeldSeats)
  BY <1>3 DEF LeadInv, OneLead, RowsHeld, LeavesFlags, HeldSeats, WritesInit, Seat
<1> QED
  BY <1>2, <1>4 DEF WritesInv

-----------------------------------------------------------------------------
LEMMA Starts ==
  ASSUME WritesInv, NEW s \in Slot, NEW q, Start(s, q), Carries(q), UNCHANGED <<tasks, roster>>,
         "rows" \in DOMAIN q => DOMAIN q.seats = {}
  PROVE  WritesInv'
<1>1. /\ DOMAIN inflight = Slot /\ Named(tasks) /\ inflight[s] = [op |-> "idle"]
      /\ \A t \in Slot : Carries(inflight[t])
  BY DEF WritesInv, WritesCarry, Start, Idle
<1>2. /\ DOMAIN inflight' = Slot
      /\ inflight'[s] = [q EXCEPT !.alone = Others(s) = {}]
      /\ \A t \in Slot : t # s =>
           inflight'[t] = IF t \in Others(s) THEN [inflight[t] EXCEPT !.alone = FALSE] ELSE Idle
  BY DEF Start
<1>3. ASSUME NEW p, NEW b, Carries(p)
      PROVE  /\ Carries([p EXCEPT !.alone = b])
             /\ DOMAIN [p EXCEPT !.alone = b] = DOMAIN p
             /\ "seats" \in DOMAIN p => [p EXCEPT !.alone = b].seats = p.seats
  <2> DEFINE p2 == [p EXCEPT !.alone = b]
  <2>1. DOMAIN p2 = DOMAIN p /\ \A f \in DOMAIN p : f # "alone" => p2[f] = p[f]
    OBVIOUS
  <2> HIDE DEF p2
  <2>2. Carries(p2)
    BY <1>3, <2>1 DEF Carries
  <2> QED
    BY <2>1, <2>2 DEF p2
<1>4. \A t \in Slot : t # s => inflight[t] = Idle \/ t \in Others(s)
  BY DEF Others
<1>5. ASSUME NEW t \in Slot
      PROVE  /\ Carries(inflight'[t])
             /\ \A d \in User : /\ d \in DOMAIN Seats(t)' <=> d \in DOMAIN Seats(t)
                                /\ d \in DOMAIN Seats(t) => Seats(t)'[d] = Seats(t)[d]
  <2>1. CASE t = s
    BY <1>1, <1>2, <1>3, <2>1 DEF Seats, Carries
  <2>2. CASE t \in Others(s)
    <3>1. t # s
      BY <2>2 DEF Others
    <3> QED
      BY <1>1, <1>2, <1>3, <2>2, <3>1 DEF Seats, Carries
  <2>3. CASE t # s /\ t \notin Others(s)
    BY <1>1, <1>2, <1>4, <2>3 DEF Seats, Carries
  <2> QED
    BY <2>1, <2>2, <2>3
<1>6. WritesCarry'
  BY <1>1, <1>2, <1>5 DEF WritesCarry
<1>7. LeadInv(roster, HeldSeats)'
  <2>1. /\ LeadInv(roster, HeldSeats) /\ DOMAIN HeldSeats' = Slot
        /\ \A t \in Slot : HeldSeats[t] = Seats(t) /\ HeldSeats'[t] = Seats(t)'
    BY DEF WritesInv, HeldSeats
  <2>2. LeadInv(roster, HeldSeats')
    BY <1>5, <2>1, SameRows
  <2> QED
    BY <2>2
<1> QED
  BY <1>6, <1>7 DEF WritesInv

\* A transaction's next statement, which writes rows of the roster or none.
LEMMA Seated ==
  ASSUME WritesInv, NEW s \in Slot, "step" \in DOMAIN inflight[s], UNCHANGED <<tasks, roster>>,
         DOMAIN inflight' = Slot, \A t \in Slot : t # s => inflight'[t] = inflight[t],
         DOMAIN inflight'[s] = DOMAIN inflight[s], inflight'[s].op = inflight[s].op,
         inflight'[s].holders \subseteq User, Named(inflight'[s].rows),
         LeadInv(roster, Holding(HeldSeats, s, inflight'[s].seats))
  PROVE  WritesInv'
<1>1. Named(tasks) /\ \A t \in Slot : Carries(inflight[t])
  BY DEF WritesInv, WritesCarry
<1>2. Carries(inflight'[s]) /\ "rows" \in DOMAIN inflight'[s]
  BY <1>1 DEF Carries
<1>3. WritesCarry'
  BY <1>1, <1>2 DEF WritesCarry
<1>4. /\ DOMAIN HeldSeats = Slot /\ \A t \in Slot : HeldSeats[t] = Seats(t)
      /\ DOMAIN HeldSeats' = Slot /\ \A t \in Slot : HeldSeats'[t] = Seats(t)'
  BY DEF HeldSeats
<1>5. \A t \in Slot :
        HeldSeats'[t] = IF t = s THEN inflight'[s].seats ELSE HeldSeats[t]
  BY <1>2, <1>4 DEF Seats
<1> DEFINE h == Holding(HeldSeats, s, inflight'[s].seats)
<1>6. \A t \in Slot : h[t] = HeldSeats'[t]
  BY <1>4, <1>5 DEF Holding
<1>7. LeadInv(roster, h)
  OBVIOUS
<1> HIDE DEF h
<1>8. LeadInv(roster, HeldSeats')
  BY <1>4, <1>6, <1>7, SameRows
<1> QED
  BY <1>3, <1>8 DEF WritesInv

LEMMA Onward ==
  ASSUME WritesInv, NEW s \in Slot, "step" \in DOMAIN inflight[s], UNCHANGED <<tasks, roster>>,
         DOMAIN inflight' = Slot, \A t \in Slot : t # s => inflight'[t] = inflight[t],
         DOMAIN inflight'[s] = DOMAIN inflight[s], inflight'[s].op = inflight[s].op,
         inflight'[s].holders \subseteq User, Named(inflight'[s].rows),
         inflight'[s].seats = inflight[s].seats
  PROVE  WritesInv'
<1>1. "rows" \in DOMAIN inflight[s]
  BY DEF WritesInv, WritesCarry, Carries
<1>2. /\ LeadInv(roster, HeldSeats) /\ DOMAIN HeldSeats = Slot
      /\ HeldSeats[s] = inflight[s].seats
  BY <1>1 DEF WritesInv, HeldSeats, Seats
<1> DEFINE h == Holding(HeldSeats, s, inflight'[s].seats)
<1>3. DOMAIN h = Slot /\ \A t \in Slot : h[t] = HeldSeats[t]
  BY <1>2 DEF Holding
<1> HIDE DEF h
<1>4. LeadInv(roster, h)
  BY <1>2, <1>3, SameRows
<1> QED
  BY <1>4, Seated DEF h

\* It is over: committed, refused or rolled back.
LEMMA Ends ==
  ASSUME WritesInv, NEW s \in Slot, inflight' = [inflight EXCEPT ![s] = Idle], Named(tasks'),
         LeadInv(roster', Holding(HeldSeats, s, << >>))
  PROVE  WritesInv'
<1>1. /\ DOMAIN inflight' = Slot /\ inflight'[s] = [op |-> "idle"]
      /\ \A t \in Slot : t # s => inflight'[t] = inflight[t]
  BY DEF WritesInv, WritesCarry, Idle
<1>2. WritesCarry'
  <2>1. Carries(inflight'[s])
    BY <1>1 DEF Carries
  <2> QED
    BY <1>1, <2>1 DEF WritesInv, WritesCarry
<1>3. /\ DOMAIN HeldSeats = Slot /\ \A t \in Slot : HeldSeats[t] = Seats(t)
      /\ DOMAIN HeldSeats' = Slot /\ \A t \in Slot : HeldSeats'[t] = Seats(t)'
  BY DEF HeldSeats
<1>4. DOMAIN HeldSeats'[s] = {} /\ \A t \in Slot : t # s => HeldSeats'[t] = HeldSeats[t]
  BY <1>1, <1>3 DEF Seats
<1> DEFINE h == Holding(HeldSeats, s, << >>)
<1>5. DOMAIN h[s] = {} /\ \A t \in Slot : t # s => h[t] = HeldSeats'[t]
  BY <1>3, <1>4 DEF Holding
<1>6. LeadInv(roster', h)
  OBVIOUS
<1> HIDE DEF h
<1>7. LeadInv(roster', HeldSeats')
  BY <1>3, <1>4, <1>5, <1>6, SameRows
<1> QED
  BY <1>2, <1>7 DEF WritesInv

\* What a request sees is named, and its roster is what it would commit.
LEMMA Sees ==
  ASSUME WritesInv, NEW s \in Slot
  PROVE  /\ Named(SeenTasks(s))
         /\ SeenRoster(s) = Over(roster, HeldSeats[s])
<1>1. /\ Named(tasks) /\ Carries(inflight[s])
      /\ HeldSeats[s] = Seats(s)
  BY DEF WritesInv, WritesCarry, HeldSeats
<1>2. Named(Wrote(s))
  BY <1>1 DEF Wrote, Carries, Named
<1>3. Named(SeenTasks(s))
  BY <1>1, <1>2 DEF SeenTasks, Named
<1> QED
  BY <1>1, <1>3 DEF SeenRoster, Over

\* No other request holds a row that is free.
LEMMA FreeSeats ==
  ASSUME WritesInv, NEW s \in Slot
  PROVE  /\ \A d \in User : SeatFree(s, d) => Free(HeldSeats, s, d)
         /\ \A d : LeadFree(s, d) => NoOtherLead(HeldSeats, s)
<1>1. \A t \in Slot : HeldSeats[t] = Seats(t)
  BY DEF HeldSeats
<1>2. ASSUME NEW t \in Slot, t # s, t \notin Others(s) PROVE DOMAIN Seats(t) = {}
  <2>1. inflight[t] = [op |-> "idle"]
    BY <1>2 DEF Others, Idle
  <2> QED
    BY <2>1 DEF Seats
<1>3. ASSUME NEW d \in User, SeatFree(s, d) PROVE Free(HeldSeats, s, d)
  BY <1>1, <1>2, <1>3 DEF SeatFree, Free
<1>4. ASSUME NEW d, LeadFree(s, d) PROVE NoOtherLead(HeldSeats, s)
  BY <1>1, <1>2, <1>4 DEF LeadFree, NoOtherLead
<1> QED
  BY <1>3, <1>4

-----------------------------------------------------------------------------
LEMMA InsertInv ==
  ASSUME WritesInv, NEW s \in Slot, NEW d \in User, NEW h \in Hours, Insert(s, d, h)
  PROVE  WritesInv'
<1>1. PICK i \in 1 .. MaxTasks :
        Start(s, [Transaction("create", i, TRUE, TRUE, "holders") EXCEPT
            !.rows = [j \in {i} |-> [holder |-> d, hours |-> h,
                                     order |-> Cardinality(DOMAIN tasks)]]])
  BY DEF Insert
<1> DEFINE row == [holder |-> d, hours |-> h, order |-> Cardinality(DOMAIN tasks)]
           p == Transaction("create", i, TRUE, TRUE, "holders")
           q == [p EXCEPT !.rows = [j \in {i} |-> row]]
<1>2. /\ DOMAIN q = DOMAIN p /\ q.op = "create" /\ q.holders = {} /\ DOMAIN q.seats = {}
      /\ q.rows = [j \in {i} |-> row]
      /\ {"op", "step", "rows", "gone", "seats", "holders"} \subseteq DOMAIN q
  BY DEF Transaction
<1>3. Named(q.rows)
  BY <1>2 DEF Named
<1> HIDE DEF q
<1>4. Carries(q)
  BY <1>2, <1>3 DEF Carries
<1>5. UNCHANGED <<tasks, roster>>
  BY DEF Insert, tables
<1> QED
  BY <1>1, <1>2, <1>4, <1>5, Starts DEF q

LEMMA LoadUpdateInv ==
  ASSUME WritesInv, NEW s \in Slot, NEW i, NEW d \in User, NEW h \in Hours,
         LoadUpdate(s, i, d, h)
  PROVE  WritesInv'
<1>1. PICK syncs, sums, to :
        Start(s, [Transaction("update", i, syncs, sums, "write") EXCEPT !.to = to])
  BY DEF LoadUpdate
<1> DEFINE q == [Transaction("update", i, syncs, sums, "write") EXCEPT !.to = to]
<1>2. /\ q.op = "update" /\ q.holders = {} /\ DOMAIN q.seats = {} /\ DOMAIN q.rows = {}
      /\ {"op", "step", "rows", "gone", "seats", "holders"} \subseteq DOMAIN q
  BY DEF Transaction
<1> HIDE DEF q
<1>3. Carries(q)
  BY <1>2 DEF Carries, Named
<1>4. UNCHANGED <<tasks, roster>>
  BY DEF LoadUpdate, tables
<1> QED
  BY <1>1, <1>2, <1>3, <1>4, Starts DEF q

LEMMA LoadRemoveInv ==
  ASSUME WritesInv, NEW s \in Slot, NEW i, LoadRemove(s, i)
  PROVE  WritesInv'
<1> DEFINE q == Transaction("remove", i, TRUE, TRUE, "delete")
<1>1. /\ q.op = "remove" /\ q.holders = {} /\ DOMAIN q.seats = {} /\ DOMAIN q.rows = {}
      /\ {"op", "step", "rows", "gone", "seats", "holders"} \subseteq DOMAIN q
  BY DEF Transaction
<1>2. Start(s, q) /\ UNCHANGED <<tasks, roster>>
  BY DEF LoadRemove, tables
<1> HIDE DEF q
<1>3. Carries(q)
  BY <1>1 DEF Carries, Named
<1> QED
  BY <1>1, <1>2, <1>3, Starts

LEMMA LoadsInv ==
  ASSUME WritesInv, NEW s \in Slot
  PROVE  /\ \A i, target : LoadReorder(s, i, target) => WritesInv'
         /\ \A d \in User : LoadJoin(s, d) \/ LoadLeave(s, d) \/ LoadHandOver(s, d) => WritesInv'
<1>1. ASSUME NEW i, NEW target, LoadReorder(s, i, target) PROVE WritesInv'
  <2>1. PICK to : Start(s, [op |-> "reorder", alone |-> TRUE, to |-> to])
    BY <1>1 DEF LoadReorder
  <2> DEFINE q == [op |-> "reorder", alone |-> TRUE, to |-> to]
  <2>2. Carries(q) /\ "rows" \notin DOMAIN q
    BY DEF Carries
  <2> HIDE DEF q
  <2>3. UNCHANGED <<tasks, roster>>
    BY <1>1 DEF LoadReorder, tables
  <2> QED
    BY <2>1, <2>2, <2>3, Starts DEF q
<1>2. ASSUME NEW d \in User, LoadJoin(s, d) PROVE WritesInv'
  <2> DEFINE q == [op |-> "join", user |-> d, leads |-> Leads(roster) = {}, alone |-> TRUE]
  <2>1. Start(s, q) /\ UNCHANGED <<tasks, roster>>
    BY <1>2 DEF LoadJoin, tables
  <2>2. Carries(q) /\ "rows" \notin DOMAIN q
    BY DEF Carries
  <2> HIDE DEF q
  <2> QED
    BY <2>1, <2>2, Starts
<1>3. ASSUME NEW d \in User, NEW op \in {"leave", "lead"},
             Start(s, [op |-> op, user |-> d, alone |-> TRUE]), UNCHANGED <<tasks, roster>>
      PROVE  WritesInv'
  <2> DEFINE q == [op |-> op, user |-> d, alone |-> TRUE]
  <2>1. Carries(q) /\ "rows" \notin DOMAIN q
    BY DEF Carries
  <2> HIDE DEF q
  <2> QED
    BY <1>3, <2>1, Starts DEF q
<1>4. ASSUME NEW d \in User, LoadLeave(s, d) \/ LoadHandOver(s, d) PROVE WritesInv'
  BY <1>3, <1>4 DEF LoadLeave, LoadHandOver, tables
<1> QED
  BY <1>1, <1>2, <1>4

-----------------------------------------------------------------------------
LEMMA WriteUpdateInv ==
  ASSUME WritesInv, NEW s \in Slot, WriteUpdate(s)
  PROVE  WritesInv'
<1> DEFINE i == inflight[s].task
           rows == [j \in {i} |-> Patched(tasks[j], inflight[s].to)]
           p == [inflight[s] EXCEPT !.rows = rows]
           p2 == [p EXCEPT !.step = AfterRows(inflight[s])]
<1>1. /\ DOMAIN inflight = Slot /\ Carries(inflight[s]) /\ Named(tasks)
      /\ inflight[s].op = "update" /\ i \in DOMAIN tasks
      /\ UNCHANGED <<tasks, roster>>
  BY DEF WritesInv, WritesCarry, WriteUpdate, tables
<1>2. {"op", "step", "rows", "seats", "holders"} \subseteq DOMAIN inflight[s]
  BY <1>1 DEF Carries
<1>3. /\ inflight'[s] = p2
      /\ DOMAIN inflight' = Slot /\ \A t \in Slot : t # s => inflight'[t] = inflight[t]
  BY <1>1 DEF WriteUpdate
<1>4. Named(rows)
  BY <1>1 DEF Named, Patched
<1> HIDE DEF rows
<1>5. DOMAIN p = DOMAIN inflight[s]
      /\ \A f \in DOMAIN inflight[s] : p[f] = IF f = "rows" THEN rows ELSE inflight[s][f]
  OBVIOUS
<1> HIDE DEF p
<1>6. DOMAIN p2 = DOMAIN p /\ \A f \in DOMAIN p : f # "step" => p2[f] = p[f]
  OBVIOUS
<1> HIDE DEF p2
<1>7. inflight[s].holders \subseteq User
  BY <1>1 DEF Carries
<1> QED
  BY <1>1, <1>2, <1>3, <1>4, <1>5, <1>6, <1>7, Onward

LEMMA DeleteInv ==
  ASSUME WritesInv, NEW s \in Slot, Delete(s)
  PROVE  WritesInv'
<1>1. /\ DOMAIN inflight = Slot /\ Carries(inflight[s])
      /\ inflight[s].op = "remove" /\ UNCHANGED <<tasks, roster>>
  BY DEF WritesInv, WritesCarry, Delete, tables
<1>2. {"op", "step", "rows", "seats", "holders"} \subseteq DOMAIN inflight[s]
  BY <1>1 DEF Carries
<1>3. PICK gone, to : inflight' = [inflight EXCEPT ![s].gone = gone, ![s].to = to,
                                                   ![s].step = "close"]
  BY DEF Delete
<1> DEFINE p == [inflight[s] EXCEPT !.gone = gone]
           p2 == [p EXCEPT !.to = to]
           p3 == [p2 EXCEPT !.step = "close"]
<1>4. /\ inflight'[s] = p3
      /\ DOMAIN inflight' = Slot /\ \A t \in Slot : t # s => inflight'[t] = inflight[t]
  BY <1>1, <1>3
<1>5. DOMAIN p = DOMAIN inflight[s]
      /\ \A f \in DOMAIN inflight[s] : f # "gone" => p[f] = inflight[s][f]
  OBVIOUS
<1> HIDE DEF p
<1>6. DOMAIN p2 = DOMAIN p /\ \A f \in DOMAIN p : f # "to" => p2[f] = p[f]
  OBVIOUS
<1> HIDE DEF p2
<1>7. DOMAIN p3 = DOMAIN p2 /\ \A f \in DOMAIN p2 : f # "step" => p3[f] = p2[f]
  OBVIOUS
<1> HIDE DEF p3
<1>8. inflight[s].holders \subseteq User /\ Named(inflight[s].rows)
  BY <1>1 DEF Carries
<1> QED
  BY <1>1, <1>2, <1>4, <1>5, <1>6, <1>7, <1>8, Onward

LEMMA CloseGapInv ==
  ASSUME WritesInv, NEW s \in Slot, CloseGap(s)
  PROVE  WritesInv'
<1> DEFINE rows == Placed(inflight[s].to)
           p == [inflight[s] EXCEPT !.rows = rows]
           p2 == [p EXCEPT !.step = "holders"]
<1>1. /\ DOMAIN inflight = Slot /\ Carries(inflight[s]) /\ Named(tasks)
      /\ inflight[s].op = "remove" /\ UNCHANGED <<tasks, roster>>
      /\ \A m \in inflight[s].to : m[1] \in DOMAIN tasks
  BY DEF WritesInv, WritesCarry, CloseGap, tables
<1>2. {"op", "step", "rows", "seats", "holders"} \subseteq DOMAIN inflight[s]
  BY <1>1 DEF Carries
<1>3. /\ inflight'[s] = p2
      /\ DOMAIN inflight' = Slot /\ \A t \in Slot : t # s => inflight'[t] = inflight[t]
  BY <1>1 DEF CloseGap
<1>4. Named(rows)
  BY <1>1 DEF Named, Placed
<1> HIDE DEF rows
<1>5. DOMAIN p = DOMAIN inflight[s]
      /\ \A f \in DOMAIN inflight[s] : p[f] = IF f = "rows" THEN rows ELSE inflight[s][f]
  OBVIOUS
<1> HIDE DEF p
<1>6. DOMAIN p2 = DOMAIN p /\ \A f \in DOMAIN p : f # "step" => p2[f] = p[f]
  OBVIOUS
<1> HIDE DEF p2
<1>7. inflight[s].holders \subseteq User
  BY <1>1 DEF Carries
<1> QED
  BY <1>1, <1>2, <1>3, <1>4, <1>5, <1>6, <1>7, Onward

LEMMA ReadHoldersInv ==
  ASSUME WritesInv, NEW s \in Slot, ReadHolders(s)
  PROVE  WritesInv'
<1> DEFINE p == [inflight[s] EXCEPT !.holders = HoldersSeen(s)]
           p2 == [p EXCEPT !.step = "reconcile"]
<1>1. /\ DOMAIN inflight = Slot /\ Carries(inflight[s])
      /\ "step" \in DOMAIN inflight[s] /\ UNCHANGED <<tasks, roster>>
  BY DEF WritesInv, WritesCarry, ReadHolders, In, tables
<1>2. {"op", "step", "rows", "seats", "holders"} \subseteq DOMAIN inflight[s]
  BY <1>1 DEF Carries
<1>3. /\ inflight'[s] = p2
      /\ DOMAIN inflight' = Slot /\ \A t \in Slot : t # s => inflight'[t] = inflight[t]
  BY <1>1 DEF ReadHolders
<1>4. HoldersSeen(s) \subseteq User
  BY Sees DEF HoldersSeen, Hold, Named
<1>5. DOMAIN p = DOMAIN inflight[s]
      /\ \A f \in DOMAIN inflight[s] :
           p[f] = IF f = "holders" THEN HoldersSeen(s) ELSE inflight[s][f]
  OBVIOUS
<1> HIDE DEF p
<1>6. DOMAIN p2 = DOMAIN p /\ \A f \in DOMAIN p : f # "step" => p2[f] = p[f]
  OBVIOUS
<1> HIDE DEF p2
<1>7. Named(inflight[s].rows)
  BY <1>1 DEF Carries
<1> QED
  BY <1>1, <1>2, <1>3, <1>4, <1>5, <1>6, <1>7, Onward

LEMMA ReconcileInv ==
  ASSUME WritesInv, NEW s \in Slot, Reconcile(s)
  PROVE  WritesInv'
<1> DEFINE holders == inflight[s].holders
           seats == [d \in holders \cup Retired(holders) |->
                       [roster[d] EXCEPT !.active = d \in holders]]
           p == [inflight[s] EXCEPT !.seats = seats]
           p2 == [p EXCEPT !.step = "leads"]
<1>1. /\ DOMAIN inflight = Slot /\ Carries(inflight[s])
      /\ "step" \in DOMAIN inflight[s] /\ UNCHANGED <<tasks, roster>>
      /\ LeadInv(roster, HeldSeats) /\ roster \in [User -> Seat] /\ OneLead(roster)
      /\ \A d \in holders \cup Retired(holders) : SeatFree(s, d)
  BY DEF WritesInv, WritesCarry, Reconcile, In, tables, LeadInv
<1>2. /\ {"op", "step", "rows", "seats", "holders"} \subseteq DOMAIN inflight[s]
      /\ holders \subseteq User /\ Named(inflight[s].rows)
  BY <1>1 DEF Carries
<1>3. /\ inflight'[s] = p2
      /\ DOMAIN inflight' = Slot /\ \A t \in Slot : t # s => inflight'[t] = inflight[t]
  BY <1>1 DEF Reconcile
<1>4. ASSUME NEW d \in User, d \in DOMAIN seats
      PROVE  /\ seats[d] \in Seat
             /\ seats[d].lead <=> roster[d].lead
             /\ seats[d].lead => seats[d].active
             /\ Free(HeldSeats, s, d)
  <2>1. /\ roster[d] \in Seat /\ d \in holders \cup Retired(holders)
        /\ seats[d] = [roster[d] EXCEPT !.active = d \in holders]
    BY <1>1, <1>4
  <2>2. seats[d] = [active |-> d \in holders, lead |-> roster[d].lead]
    BY <2>1 DEF Seat
  <2> HIDE DEF seats
  <2>3. seats[d].lead = roster[d].lead /\ roster[d].lead \in BOOLEAN
    BY <2>1, <2>2 DEF Seat
  <2>5. seats[d] \in Seat
    <3>1. \A a, b \in BOOLEAN : [active |-> a, lead |-> b] \in Seat
      BY DEF Seat
    <3>2. (d \in holders) \in BOOLEAN
      OBVIOUS
    <3> QED
      BY <2>2, <2>3, <3>1, <3>2
  <2>4. seats[d].lead => seats[d].active
    <3>1. roster[d].lead => d \in holders
      BY <2>1 DEF Retired
    <3>2. seats[d].active = (d \in holders)
      BY <2>2
    <3> QED
      BY <2>3, <3>1, <3>2
  <2> QED
    BY <1>1, <2>1, <2>3, <2>4, <2>5, FreeSeats
<1> HIDE DEF seats
<1>5. LeadInv(roster, Holding(HeldSeats, s, seats))
  BY <1>1, <1>4, TakenAsTheyAre DEF LeavesFlags
<1>6. DOMAIN p = DOMAIN inflight[s]
      /\ \A f \in DOMAIN inflight[s] : p[f] = IF f = "seats" THEN seats ELSE inflight[s][f]
  OBVIOUS
<1> HIDE DEF p
<1>7. DOMAIN p2 = DOMAIN p /\ \A f \in DOMAIN p : f # "step" => p2[f] = p[f]
  OBVIOUS
<1> HIDE DEF p2
<1>8. inflight'[s].seats = seats
  BY <1>2, <1>3, <1>6, <1>7
<1>9. LeadInv(roster, Holding(HeldSeats, s, inflight'[s].seats))
  BY <1>5, <1>8
<1> QED
  BY <1>1, <1>2, <1>3, <1>6, <1>7, <1>9, Seated

LEMMA CountLeadsInv ==
  ASSUME WritesInv, NEW s \in Slot, CountLeads(s)
  PROVE  WritesInv'
<1>1. /\ DOMAIN inflight = Slot /\ Carries(inflight[s])
      /\ "step" \in DOMAIN inflight[s] /\ UNCHANGED <<tasks, roster>>
  BY DEF WritesInv, WritesCarry, CountLeads, In, tables
<1>2. PICK step : inflight' = [inflight EXCEPT ![s].step = step]
  BY DEF CountLeads, GoTo
<1> DEFINE p == [inflight[s] EXCEPT !.step = step]
<1>3. /\ {"op", "step", "rows", "seats", "holders"} \subseteq DOMAIN inflight[s]
      /\ inflight[s].holders \subseteq User /\ Named(inflight[s].rows)
  BY <1>1 DEF Carries
<1>4. /\ inflight'[s] = p
      /\ DOMAIN inflight' = Slot /\ \A t \in Slot : t # s => inflight'[t] = inflight[t]
  BY <1>1, <1>2
<1>5. DOMAIN p = DOMAIN inflight[s]
      /\ \A f \in DOMAIN inflight[s] : f # "step" => p[f] = inflight[s][f]
  OBVIOUS
<1> HIDE DEF p
<1> QED
  BY <1>1, <1>3, <1>4, <1>5, Onward

LEMMA SumUpInv ==
  ASSUME WritesInv, NEW s \in Slot, SumUp(s)
  PROVE  WritesInv'
<1>1. /\ DOMAIN inflight = Slot /\ Carries(inflight[s])
      /\ "step" \in DOMAIN inflight[s] /\ UNCHANGED <<tasks, roster>>
  BY DEF WritesInv, WritesCarry, SumUp, In, tables
<1>2. PICK n : inflight' = [inflight EXCEPT ![s].total = n, ![s].step = "commit"]
  BY DEF SumUp
<1> DEFINE p == [inflight[s] EXCEPT !.total = n]
           p2 == [p EXCEPT !.step = "commit"]
<1>3. /\ {"op", "step", "rows", "seats", "holders"} \subseteq DOMAIN inflight[s]
      /\ inflight[s].holders \subseteq User /\ Named(inflight[s].rows)
  BY <1>1 DEF Carries
<1>4. /\ inflight'[s] = p2
      /\ DOMAIN inflight' = Slot /\ \A t \in Slot : t # s => inflight'[t] = inflight[t]
  BY <1>1, <1>2
<1>5. DOMAIN p = DOMAIN inflight[s]
      /\ \A f \in DOMAIN inflight[s] : f # "total" => p[f] = inflight[s][f]
  OBVIOUS
<1> HIDE DEF p
<1>6. DOMAIN p2 = DOMAIN p /\ \A f \in DOMAIN p : f # "step" => p2[f] = p[f]
  OBVIOUS
<1> HIDE DEF p2
<1> QED
  BY <1>1, <1>3, <1>4, <1>5, <1>6, Onward

LEMMA PromoteInv ==
  ASSUME WritesInv, NEW s \in Slot, Promote(s)
  PROVE  WritesInv'
<1>1. /\ DOMAIN inflight = Slot /\ Carries(inflight[s])
      /\ "step" \in DOMAIN inflight[s] /\ UNCHANGED <<tasks, roster>>
      /\ LeadInv(roster, HeldSeats) /\ roster \in [User -> Seat] /\ RowsHeld(HeldSeats)
  BY DEF WritesInv, WritesCarry, Promote, In, tables, LeadInv
<1>2. /\ {"op", "step", "rows", "seats", "holders"} \subseteq DOMAIN inflight[s]
      /\ inflight[s].holders \subseteq User /\ Named(inflight[s].rows)
  BY <1>1 DEF Carries
<1>3. PICK x \in inflight[s].holders :
        /\ LeadFree(s, x)
        /\ inflight' = [inflight EXCEPT
             ![s].seats = [e \in DOMAIN @ \cup DOMAIN Handed(SeenRoster(s), x) |->
                             IF e \in DOMAIN Handed(SeenRoster(s), x)
                               THEN Handed(SeenRoster(s), x)[e] ELSE @[e]],
             ![s].step = AfterSync(inflight[s])]
  BY DEF Promote
<1> DEFINE seen == SeenRoster(s)
           made == Handed(seen, x)
           held == inflight[s].seats
           seats == [e \in DOMAIN held \cup DOMAIN made |->
                       IF e \in DOMAIN made THEN made[e] ELSE held[e]]
           p == [inflight[s] EXCEPT !.seats = seats]
           p2 == [p EXCEPT !.step = AfterSync(inflight[s])]
<1>4. /\ inflight'[s] = p2
      /\ DOMAIN inflight' = Slot /\ \A t \in Slot : t # s => inflight'[t] = inflight[t]
  BY <1>1, <1>2, <1>3
<1>5. held = HeldSeats[s] /\ seen = Over(roster, HeldSeats[s])
  BY <1>2, Sees DEF HeldSeats, Seats
<1>6. seen \in [User -> Seat]
  BY <1>1, <1>5 DEF Over, RowsHeld
<1>7. x \in User /\ DOMAIN made = { f \in User : seen[f].lead } \cup {x}
  BY <1>2, <1>3 DEF Handed
<1>8. made[x] = [active |-> TRUE, lead |-> TRUE]
  BY <1>7 DEF Handed
<1>9. ASSUME NEW d \in User, d \in DOMAIN made, d # x
      PROVE  made[d] \in Seat /\ ~made[d].lead
  <2>1. made[d] = [seen[d] EXCEPT !.lead = FALSE]
    BY <1>7, <1>9 DEF Handed
  <2>2. seen[d] \in Seat
    BY <1>6
  <2> QED
    BY <2>1, <2>2 DEF Seat
<1> HIDE DEF seen, made, held
<1>10. /\ DOMAIN seats = DOMAIN HeldSeats[s] \cup { f \in User : Over(roster, HeldSeats[s])[f].lead }
                          \cup {x}
       /\ seats[x] = [active |-> TRUE, lead |-> TRUE]
  BY <1>5, <1>7, <1>8
<1>11. ASSUME NEW d \in User, d \in DOMAIN seats, d # x
       PROVE  seats[d] \in Seat /\ ~seats[d].lead
  <2>1. CASE d \in DOMAIN made
    BY <1>9, <1>11, <2>1
  <2>2. CASE d \notin DOMAIN made
    <3>1. d \in DOMAIN held /\ seats[d] = held[d] /\ ~seen[d].lead
      BY <1>7, <1>11, <2>2
    <3>2. seen[d] = held[d]
      BY <1>5, <3>1 DEF Over
    <3> QED
      BY <1>6, <3>1, <3>2
  <2> QED
    BY <2>1, <2>2
<1> HIDE DEF seats
<1>12. /\ NoOtherLead(HeldSeats, s) /\ Free(HeldSeats, s, x)
       /\ \A e \in User : roster[e].lead => Free(HeldSeats, s, e)
  BY <1>3, <1>7, FreeSeats DEF LeadFree
<1>13. LeadInv(roster, Holding(HeldSeats, s, seats))
  BY <1>1, <1>7, <1>10, <1>11, <1>12, LeadMade
<1>14. DOMAIN p = DOMAIN inflight[s]
      /\ \A f \in DOMAIN inflight[s] : p[f] = IF f = "seats" THEN seats ELSE inflight[s][f]
  OBVIOUS
<1> HIDE DEF p
<1>15. DOMAIN p2 = DOMAIN p /\ \A f \in DOMAIN p : f # "step" => p2[f] = p[f]
  OBVIOUS
<1> HIDE DEF p2
<1>16. inflight'[s].seats = seats
  BY <1>2, <1>4, <1>14, <1>15
<1>17. LeadInv(roster, Holding(HeldSeats, s, inflight'[s].seats))
  BY <1>13, <1>16
<1> QED
  BY <1>1, <1>2, <1>4, <1>14, <1>15, <1>17, Seated

-----------------------------------------------------------------------------
LEMMA CommitInv ==
  ASSUME WritesInv, NEW s \in Slot, Commit(s)
  PROVE  WritesInv'
<1>1. /\ inflight' = [inflight EXCEPT ![s] = Idle] /\ tasks' = SeenTasks(s)
      /\ roster' = Over(roster, HeldSeats[s]) /\ Named(SeenTasks(s))
      /\ LeadInv(roster, HeldSeats)
  BY Sees DEF WritesInv, Commit, Ended
<1>2. LeadInv(roster', Holding(HeldSeats, s, << >>))
  BY <1>1, Committed
<1> QED
  BY <1>1, <1>2, Ends

LEMMA AbortInv ==
  ASSUME WritesInv, NEW s \in Slot, Abort(s)
  PROVE  WritesInv'
<1>1. /\ inflight' = [inflight EXCEPT ![s] = Idle] /\ UNCHANGED <<tasks, roster>>
      /\ LeadInv(roster, HeldSeats) /\ Named(tasks)
  BY DEF WritesInv, WritesCarry, Abort, tables
<1>2. LeadInv(roster, Holding(HeldSeats, s, << >>))
  BY <1>1, Released
<1> QED
  BY <1>1, <1>2, Ends

LEMMA WriteReorderInv ==
  ASSUME WritesInv, NEW s \in Slot, WriteReorder(s)
  PROVE  WritesInv'
<1>1. /\ inflight' = [inflight EXCEPT ![s] = Idle] /\ roster' = roster
      /\ tasks' = [i \in DOMAIN tasks |->
           IF i \in DOMAIN Placed(inflight[s].to) THEN Placed(inflight[s].to)[i] ELSE tasks[i]]
      /\ LeadInv(roster, HeldSeats) /\ Named(tasks)
  BY DEF WritesInv, WritesCarry, WriteReorder, Ended
<1>2. Named(tasks')
  BY <1>1 DEF Named, Placed
<1>3. LeadInv(roster, Holding(HeldSeats, s, << >>))
  BY <1>1, Released
<1> QED
  BY <1>1, <1>2, <1>3, Ends

\* The three statements that write the roster on their own.
LEMMA RosterStatement ==
  ASSUME WritesInv, NEW s \in Slot, inflight[s].op \in {"join", "leave", "lead"},
         inflight' = [inflight EXCEPT ![s] = Idle], tasks' = tasks,
         roster' \in [User -> Seat], OneLead(roster'),
         \A d \in User : roster'[d] # roster[d] => SeatFree(s, d),
         \/ \A d \in User : roster'[d].lead => roster[d].lead
         \/ \E d : LeadFree(s, d)
  PROVE  WritesInv'
<1>1. LeadInv(roster, HeldSeats) /\ Named(tasks) /\ Carries(inflight[s])
  BY DEF WritesInv, WritesCarry
<1>2. DOMAIN HeldSeats[s] = {}
  <2>1. HeldSeats[s] = IF "rows" \in DOMAIN inflight[s] THEN inflight[s].seats ELSE << >>
    BY DEF HeldSeats, Seats
  <2>2. "rows" \notin DOMAIN inflight[s]
    BY <1>1 DEF Carries
  <2> QED
    BY <2>1, <2>2
<1>3. \A d \in User : roster'[d] # roster[d] => \A t \in Slot : d \notin DOMAIN HeldSeats[t]
  BY <1>2, FreeSeats DEF Free
<1>4. \/ \A d \in User : roster'[d].lead => roster[d].lead
      \/ \A t \in Slot, d \in User : d \in DOMAIN HeldSeats[t] => ~HeldSeats[t][d].lead
  BY <1>2, FreeSeats DEF NoOtherLead
<1>5. LeadInv(roster', HeldSeats)
  BY <1>1, <1>3, <1>4, RosterWritten
<1>6. LeadInv(roster', Holding(HeldSeats, s, << >>))
  BY <1>5, Released
<1> QED
  BY <1>1, <1>6, Ends

LEMMA WriteJoinInv ==
  ASSUME WritesInv, NEW s \in Slot, WriteJoin(s)
  PROVE  WritesInv'
<1> DEFINE d == inflight[s].user
           q == inflight[s]
<1>1. /\ Carries(q) /\ roster \in [User -> Seat] /\ OneLead(roster)
  BY DEF WritesInv, WritesCarry, LeadInv
<1>2. /\ q.op = "join" /\ SeatFree(s, d) /\ tasks' = tasks
      /\ inflight' = [inflight EXCEPT ![s] = Idle]
      /\ q.leads => LeadFree(s, d) /\ Leads(roster) \subseteq {d}
  BY DEF WriteJoin, Ended
<1>3. d \in User
  BY <1>1, <1>2 DEF Carries
<1>4. PICK lead \in BOOLEAN : /\ roster' = [roster EXCEPT ![d] = [active |-> TRUE, lead |-> lead]]
                              /\ lead <=> roster[d].lead \/ q.leads
  BY DEF WriteJoin
<1>5. [active |-> TRUE, lead |-> lead] \in Seat
  BY DEF Seat
<1>6. /\ roster' \in [User -> Seat] /\ roster'[d] = [active |-> TRUE, lead |-> lead]
      /\ \A e \in User : e # d => roster'[e] = roster[e]
  BY <1>1, <1>3, <1>4, <1>5
<1>7. OneLead(roster')
  <2>1. \A e \in User : roster'[e].lead => roster'[e].active
    BY <1>1, <1>6 DEF OneLead
  <2>2. CASE q.leads
    <3>1. \A e \in User : roster[e].lead => e = d
      BY <1>1, <1>2, <2>2 DEF Leads, OneLead
    <3> QED
      BY <1>6, <2>1, <3>1 DEF OneLead
  <2>3. CASE ~q.leads
    <3>1. \A e \in User : roster'[e].lead => roster[e].lead
      BY <1>4, <1>6, <2>3
    <3> QED
      BY <1>1, <2>1, <3>1 DEF OneLead
  <2> QED
    BY <2>2, <2>3
<1>8. \A e \in User : roster'[e] # roster[e] => SeatFree(s, e)
  BY <1>2, <1>6
<1>9. (\A e \in User : roster'[e].lead => roster[e].lead) \/ \E e : LeadFree(s, e)
  BY <1>2, <1>4, <1>6
<1> QED
  BY <1>2, <1>6, <1>7, <1>8, <1>9, RosterStatement

LEMMA WriteLeaveInv ==
  ASSUME WritesInv, NEW s \in Slot, WriteLeave(s)
  PROVE  WritesInv'
<1> DEFINE d == inflight[s].user
<1>1. /\ Carries(inflight[s]) /\ roster \in [User -> Seat] /\ OneLead(roster)
  BY DEF WritesInv, WritesCarry, LeadInv
<1>2. /\ inflight[s].op = "leave" /\ SeatFree(s, d) /\ tasks' = tasks
      /\ inflight' = [inflight EXCEPT ![s] = Idle]
      /\ roster' = [roster EXCEPT ![d] = [active |-> FALSE, lead |-> FALSE]]
  BY DEF WriteLeave, Ended
<1>3. d \in User
  BY <1>1, <1>2 DEF Carries
<1>4. [active |-> FALSE, lead |-> FALSE] \in Seat
  BY DEF Seat
<1>5. /\ roster' \in [User -> Seat] /\ roster'[d] = [active |-> FALSE, lead |-> FALSE]
      /\ \A e \in User : e # d => roster'[e] = roster[e]
  BY <1>1, <1>2, <1>3, <1>4
<1>6. \A e \in User : roster'[e].lead => roster[e].lead
  BY <1>5
<1>7. OneLead(roster')
  BY <1>1, <1>5, <1>6 DEF OneLead
<1>8. \A e \in User : roster'[e] # roster[e] => SeatFree(s, e)
  BY <1>2, <1>5
<1> QED
  BY <1>2, <1>5, <1>6, <1>7, <1>8, RosterStatement

LEMMA WriteHandOverInv ==
  ASSUME WritesInv, NEW s \in Slot, WriteHandOver(s)
  PROVE  WritesInv' /\ inflight[s].user \in Leads(roster')
<1> DEFINE x == inflight[s].user
           made == Handed(roster, x)
<1>1. /\ Carries(inflight[s]) /\ roster \in [User -> Seat] /\ OneLead(roster)
  BY DEF WritesInv, WritesCarry, LeadInv
<1>2. /\ inflight[s].op = "lead" /\ LeadFree(s, x) /\ tasks' = tasks
      /\ inflight' = [inflight EXCEPT ![s] = Idle]
      /\ roster' = [d \in User |-> IF d \in DOMAIN made THEN made[d] ELSE roster[d]]
  BY DEF WriteHandOver, Ended
<1>3. x \in User
  BY <1>1, <1>2 DEF Carries
<1>4. DOMAIN made = { f \in User : roster[f].lead } \cup {x}
      /\ made[x] = [active |-> TRUE, lead |-> TRUE]
  BY DEF Handed
<1>5. ASSUME NEW d \in User, roster[d].lead, d # x
      PROVE  made[d] \in Seat /\ ~made[d].lead
  <2>1. made[d] = [roster[d] EXCEPT !.lead = FALSE] /\ roster[d] \in Seat
    BY <1>1, <1>5 DEF Handed
  <2> QED
    BY <2>1 DEF Seat
<1> HIDE DEF made
<1>6. [active |-> TRUE, lead |-> TRUE] \in Seat
  BY DEF Seat
<1>7. roster'[x] = [active |-> TRUE, lead |-> TRUE]
  BY <1>2, <1>3, <1>4
<1>8. ASSUME NEW d \in User, d # x
      PROVE  roster'[d] \in Seat /\ ~roster'[d].lead /\ (~roster[d].lead => roster'[d] = roster[d])
  <2>1. CASE roster[d].lead
    BY <1>2, <1>4, <1>5, <1>8, <2>1
  <2>2. CASE ~roster[d].lead
    BY <1>1, <1>2, <1>4, <1>8, <2>2
  <2> QED
    BY <2>1, <2>2
<1>9. roster' \in [User -> Seat]
  <2>1. \A d \in User : roster'[d] \in Seat
    BY <1>6, <1>7, <1>8
  <2> QED
    BY <1>2, <2>1
<1>10. OneLead(roster')
  BY <1>7, <1>8 DEF OneLead
<1>11. \A d \in User : roster'[d] # roster[d] => SeatFree(s, d)
  <2>1. SeatFree(s, x)
    BY <1>2 DEF LeadFree
  <2>2. \A d \in User : roster[d].lead => SeatFree(s, d)
    BY <1>2 DEF LeadFree
  <2> QED
    BY <1>8, <2>1, <2>2
<1>12. WritesInv'
  BY <1>2, <1>9, <1>10, <1>11, RosterStatement
<1>13. x \in Leads(roster')
  BY <1>3, <1>7 DEF Leads
<1> QED
  BY <1>12, <1>13

-----------------------------------------------------------------------------
LEMMA NextInv ==
  ASSUME WritesInv, [WritesNext]_vars
  PROVE  WritesInv'
<1>1. CASE UNCHANGED vars
  BY <1>1 DEF WritesInv, WritesCarry, HeldSeats, Seats, vars, tables
<1>2. ASSUME NEW s \in Slot, TaskWrite(s) PROVE WritesInv'
  BY <1>2, InsertInv, LoadUpdateInv, LoadRemoveInv, WriteUpdateInv, DeleteInv, CloseGapInv,
     ReadHoldersInv, ReconcileInv, CountLeadsInv, PromoteInv, SumUpInv, CommitInv DEF TaskWrite
<1>3. ASSUME NEW s \in Slot, RosterWrite(s) PROVE WritesInv'
  BY <1>3, LoadsInv, WriteJoinInv, WriteLeaveInv, WriteHandOverInv DEF RosterWrite
<1>4. ASSUME NEW s \in Slot, Reordering(s) PROVE WritesInv'
  BY <1>4, LoadsInv, WriteReorderInv DEF Reordering
<1> QED
  BY <1>1, <1>2, <1>3, <1>4, AbortInv DEF WritesNext

(***************************************************************************)
(* However many task and roster writes overlap, whoever has the lead flag  *)
(* is active and there is one lead at most.                                *)
(***************************************************************************)
THEOREM LeadFlags == WritesSpec => []FlagOnlyWhileActive
<1>1. WritesInv => FlagOnlyWhileActive
  BY DEF WritesInv, LeadInv, OneLead, FlagOnlyWhileActive, Leads
<1> QED
  BY <1>1, InitInv, NextInv, PTL DEF WritesSpec

\* A transaction commits a roster that has a lead if it found one.
LEMMA CommitKeepsLead ==
  ASSUME NEW r, NEW h, LeadInv(r, h), NEW s \in Slot, NEW d \in Leads(r)
  PROVE  Leads(Over(r, h[s])) # {}
<1>1. /\ r \in [User -> Seat] /\ RowsHeld(h)
      /\ LeavesFlags(r, h[s]) \/ MakesLead(r, h, s)
      /\ d \in User /\ r[d].active /\ r[d].lead
  BY DEF LeadInv, Leads
<1> DEFINE r2 == Over(r, h[s])
<1>2. \A e \in User : r2[e] = IF e \in DOMAIN h[s] THEN h[s][e] ELSE r[e]
  BY DEF Over
<1> HIDE DEF r2
<1>3. CASE LeavesFlags(r, h[s])
  <2>1. r2[d].lead /\ r2[d].active
    BY <1>1, <1>2, <1>3 DEF LeavesFlags, RowsHeld
  <2>2. d \in Leads(r2)
    BY <1>1, <2>1 DEF Leads
  <2> QED
    BY <2>2 DEF r2
<1>4. CASE MakesLead(r, h, s)
  <2>1. PICK x \in User : x \in DOMAIN h[s] /\ h[s][x].lead
    BY <1>4 DEF MakesLead
  <2>2. r2[x].lead /\ r2[x].active
    BY <1>1, <1>2, <2>1 DEF RowsHeld
  <2>3. x \in Leads(r2)
    BY <2>2 DEF Leads
  <2> QED
    BY <2>3 DEF r2
<1> QED
  BY <1>1, <1>3, <1>4

LEMMA LeadKept ==
  ASSUME WritesInv, [WritesNext]_vars, Leads(roster) # {}, Leads(roster') = {}
  PROVE  \E s \in Slot : inflight[s].op = "leave" /\ inflight[s].user \in Leads(roster)
<1>1. PICK d \in Leads(roster) : TRUE
  OBVIOUS
<1>2. /\ d \in User /\ roster[d].active /\ roster[d].lead
      /\ LeadInv(roster, HeldSeats) /\ roster \in [User -> Seat]
  BY <1>1 DEF WritesInv, LeadInv, Leads
<1>3. roster' # roster
  OBVIOUS
<1>4. PICK s \in Slot : Commit(s) \/ WriteJoin(s) \/ WriteLeave(s) \/ WriteHandOver(s)
  BY <1>3 DEF WritesNext, vars, tables, TaskWrite, RosterWrite, Reordering, Abort, Insert, LoadUpdate,
     LoadRemove, WriteUpdate, Delete, CloseGap, ReadHolders, Reconcile, CountLeads, Promote, SumUp,
     LoadReorder, WriteReorder, LoadJoin, LoadLeave, LoadHandOver
<1>5. ~Commit(s)
  <2> SUFFICES ASSUME Commit(s) PROVE FALSE
    OBVIOUS
  <2>1. roster' = Over(roster, HeldSeats[s])
    BY Sees DEF Commit
  <2> QED
    BY <1>1, <1>2, <2>1, CommitKeepsLead
<1>6. ~WriteHandOver(s)
  BY WriteHandOverInv
<1>7. ~WriteJoin(s)
  <2> SUFFICES ASSUME WriteJoin(s) PROVE FALSE
    OBVIOUS
  <2>1. /\ DOMAIN roster = User
        /\ \E lead : /\ roster' = [roster EXCEPT ![inflight[s].user] = [active |-> TRUE, lead |-> lead]]
                     /\ roster[inflight[s].user].lead => lead
    BY <1>2 DEF WriteJoin
  <2>2. roster'[d].lead /\ roster'[d].active
    BY <1>2, <2>1
  <2> QED
    BY <1>2, <2>2 DEF Leads
<1>8. ASSUME WriteLeave(s) PROVE inflight[s].op = "leave" /\ inflight[s].user = d
  <2>1. /\ inflight[s].op = "leave"
        /\ roster' = [roster EXCEPT ![inflight[s].user] = [active |-> FALSE, lead |-> FALSE]]
    BY <1>8 DEF WriteLeave
  <2>2. inflight[s].user # d => roster'[d] = roster[d]
    BY <1>2, <2>1
  <2> QED
    BY <1>2, <2>1, <2>2 DEF Leads
<1> QED
  BY <1>1, <1>4, <1>5, <1>6, <1>7, <1>8

(***************************************************************************)
(* A ticket loses its lead only when he is taken off the roster.           *)
(***************************************************************************)
THEOREM LeadStays == WritesSpec => LeadLostOnlyByLeaving
<1>1. WritesInv /\ [WritesNext]_vars =>
        [ Leads(roster) # {} /\ Leads(roster') = {} =>
            \E s \in Slot : inflight[s].op = "leave" /\ inflight[s].user \in Leads(roster) ]_vars
  BY LeadKept
<1> QED
  BY <1>1, InitInv, NextInv, PTL DEF WritesSpec, LeadLostOnlyByLeaving

-----------------------------------------------------------------------------
(* Places in a list, as in TasksProofs for its rows.                       *)

\* Lists whose order can be read: all the lemmas on places ask.
Ordered(list) ==
  /\ IsFiniteSet(DOMAIN list)
  /\ DOMAIN list \subseteq Int
  /\ \A i \in DOMAIN list : list[i].order \in Int

LEMMA OrderTotal ==
  ASSUME NEW list, Ordered(list)
  PROVE  /\ \A i \in DOMAIN list : ~Above(list, i, i)
         /\ \A i, j \in DOMAIN list : i # j => Above(list, i, j) \/ Above(list, j, i)
         /\ \A i, j, k \in DOMAIN list :
              Above(list, i, j) /\ Above(list, j, k) => Above(list, i, k)
BY DEF Ordered, Above

\* The rows above a row are fewer than the rows of the list.
LEMMA PlaceType ==
  ASSUME NEW list, Ordered(list), NEW i \in DOMAIN list
  PROVE  /\ LastPlace(list) \in Nat
         /\ Place(list, i) \in 0 .. LastPlace(list)
<1> DEFINE D == DOMAIN list
           A == { j \in D : Above(list, j, i) }
<1>1. IsFiniteSet(D)
  BY DEF Ordered
<1>2. /\ IsFiniteSet(D \ {i})
      /\ Cardinality(D \ {i}) = Cardinality(D) - 1
  BY <1>1, FS_RemoveElement
<1>3. A \in SUBSET (D \ {i})
  BY OrderTotal
<1>4. IsFiniteSet(A) /\ Cardinality(A) <= Cardinality(D \ {i})
  BY <1>2, <1>3, FS_Subset
<1>5. /\ Cardinality(A) \in Nat
      /\ Cardinality(D) \in Nat /\ Cardinality(D \ {i}) \in Nat
  BY <1>1, <1>2, <1>4, FS_CardinalityType
<1> QED
  BY <1>2, <1>4, <1>5 DEF Place, LastPlace

\* Whoever is above another has a smaller place.
LEMMA PlaceMonotone ==
  ASSUME NEW list, Ordered(list), NEW i \in DOMAIN list, NEW j \in DOMAIN list,
         Above(list, i, j)
  PROVE  Place(list, i) < Place(list, j)
<1> DEFINE A(k) == { l \in DOMAIN list : Above(list, l, k) }
<1>1. \A k \in DOMAIN list : A(k) \in SUBSET DOMAIN list
  OBVIOUS
<1>2. \A k \in DOMAIN list : IsFiniteSet(A(k))
  BY <1>1, FS_Subset DEF Ordered
<1>3. i \notin A(i)
  BY OrderTotal
<1>4. A(i) \cup {i} \in SUBSET A(j)
  BY OrderTotal
<1>5. Cardinality(A(i) \cup {i}) = Cardinality(A(i)) + 1
  BY <1>2, <1>3, FS_AddElement
<1>6. Cardinality(A(i) \cup {i}) <= Cardinality(A(j))
  BY <1>2, <1>4, FS_Subset
<1>7. Cardinality(A(i)) \in Nat /\ Cardinality(A(j)) \in Nat
  BY <1>2, FS_CardinalityType
<1> QED
  BY <1>5, <1>6, <1>7 DEF Place

(***************************************************************************)
(* Places number the list: in its order, and every place is taken.         *)
(***************************************************************************)
LEMMA PlacesNumber ==
  ASSUME NEW list, Ordered(list)
  PROVE  /\ \A i, j \in DOMAIN list :
              /\ Above(list, i, j) <=> Place(list, i) < Place(list, j)
              /\ Place(list, i) = Place(list, j) => i = j
         /\ \A p \in 0 .. LastPlace(list) : \E i \in DOMAIN list : Place(list, i) = p
<1> DEFINE D == DOMAIN list
           n == Cardinality(D)
           f == [i \in D |-> Place(list, i)]
<1>0. IsFiniteSet(D) /\ n \in Nat
  BY FS_CardinalityType DEF Ordered
<1>1. \A i \in D : Place(list, i) \in 0 .. LastPlace(list) /\ Place(list, i) \in Int
  BY PlaceType
<1>2. \A i, j \in D : Above(list, i, j) => Place(list, i) < Place(list, j)
  BY PlaceMonotone
<1>3. \A i, j \in D : /\ Above(list, i, j) <=> Place(list, i) < Place(list, j)
                      /\ Place(list, i) = Place(list, j) => i = j
  <2> SUFFICES ASSUME NEW i \in D, NEW j \in D
               PROVE  /\ Above(list, i, j) <=> Place(list, i) < Place(list, j)
                      /\ Place(list, i) = Place(list, j) => i = j
    OBVIOUS
  <2>1. Place(list, i) \in Int /\ Place(list, j) \in Int
    BY <1>1
  <2>2. CASE i = j
    BY <2>1, <2>2, OrderTotal
  <2>3. CASE Above(list, i, j)
    <3>1. Place(list, i) < Place(list, j)
      BY <1>2, <2>3
    <3> QED
      BY <2>1, <2>3, <3>1
  <2>4. CASE Above(list, j, i)
    <3>1. Place(list, j) < Place(list, i)
      BY <1>2, <2>4
    <3>2. ~Above(list, i, j)
      BY <2>4, OrderTotal
    <3> QED
      BY <2>1, <3>1, <3>2
  <2> QED
    BY <2>2, <2>3, <2>4, OrderTotal
<1>4. f \in Injection(D, 0 .. LastPlace(list))
  BY <1>1, <1>3 DEF Injection, IsInjective
<1>5. /\ IsFiniteSet(0 .. LastPlace(list))
      /\ Cardinality(0 .. LastPlace(list)) = n
  BY <1>0, FS_Interval DEF LastPlace
<1>6. f \in Surjection(D, 0 .. LastPlace(list))
  BY <1>0, <1>4, <1>5, FS_Injection
<1>7. \A p \in 0 .. LastPlace(list) : \E i \in D : f[i] = p
  BY <1>6 DEF Surjection
<1> QED
  BY <1>3, <1>7

-----------------------------------------------------------------------------
(***************************************************************************)
(* A lone write.  Nobody else is under way from its first read to its      *)
(* commit, so what it has read and means to write can be said of the       *)
(* tables as they are.                                                     *)
(***************************************************************************)
TxOp == { "create", "update", "remove" }

RowList(list) == DOMAIN list \subseteq 1 .. MaxTasks /\ list \in [DOMAIN list -> Row]

\* What a request carries, whoever else is under way.
Typed(q) ==
  /\ q.op \in TxOp =>
       /\ {"task", "syncs", "sums", "total", "to"} \subseteq DOMAIN q
       /\ RowList(q.rows)
       /\ q.op # "update" => q.syncs /\ q.sums
       /\ ~q.syncs => DOMAIN q.seats = {}
       /\ q.step \in { "holders", "reconcile", "leads", "promote" } => q.syncs
  /\ q.op = "update" =>
       /\ ~q.syncs => \A d \in User : <<"holder", d>> \notin q.to
       /\ ~q.sums => \A h \in Hours : <<"hours", h>> \notin q.to
  /\ q.op \in { "remove", "reorder" } =>
       "to" \in DOMAIN q /\ q.to \subseteq (1 .. MaxTasks) \X (0 .. MaxTasks)
  /\ IF q.op = "idle" THEN q = Idle ELSE "alone" \in DOMAIN q

\* The tasks as a transaction with these rows sees them, and as these moves leave them.
AsSeen(list, q) ==
  [i \in (DOMAIN list \cup DOMAIN q.rows) \ q.gone |->
     IF i \in DOMAIN q.rows THEN q.rows[i] ELSE list[i]]

Moved(list, moves, i) == [list[i] EXCEPT !.order = CHOOSE o \in 0 .. MaxTasks : <<i, o>> \in moves]

After(list, moves, left) ==
  [i \in left |-> IF i \in { m[1] : m \in moves } THEN Moved(list, moves, i) ELSE list[i]]

\* The rows of a lone transaction,
LoneRows(list, q) ==
  /\ q.op = "create" =>
       \E i \in 1 .. MaxTasks :
         /\ DOMAIN q.rows = {i} /\ i \notin DOMAIN list /\ q.gone = {}
         /\ q.rows[i].order = Cardinality(DOMAIN list)
  /\ q.op = "update" =>
       /\ q.gone = {}
       /\ \A i \in DOMAIN q.rows :
            /\ i \in DOMAIN list /\ q.rows[i].order = list[i].order
            /\ ~q.syncs => q.rows[i].holder = list[i].holder
            /\ ~q.sums => q.rows[i].hours = list[i].hours
  /\ q.op = "remove" =>
       /\ q.step = "close" => Contiguous(After(list, q.to, DOMAIN list \ q.gone))
       /\ q.step \notin { "delete", "close" } => Contiguous(AsSeen(list, q))

\* and what it has recomputed from them.
LoneSums(list, q) ==
  q.op \in TxOp =>
    /\ q.syncs /\ q.step \in { "reconcile", "leads", "promote", "sum", "commit" } =>
         q.holders = Hold(AsSeen(list, q))
    /\ q.syncs /\ q.step \in { "leads", "promote", "sum", "commit" } =>
         \A d \in q.holders : d \in DOMAIN q.seats /\ q.seats[d].active
    /\ q.sums /\ q.step = "commit" => q.total = Sum(AsSeen(list, q))

LoneSound(list, q) ==
  /\ LoneRows(list, q) /\ LoneSums(list, q)
  /\ q.op = "reorder" => Contiguous(After(list, q.to, DOMAIN list))
  /\ q.op = "leave" => q.user \notin Hold(list)

Alone(s) == inflight[s].op # "idle" /\ inflight[s].alone

LoneInv ==
  /\ RowList(tasks)
  /\ \A s \in Slot : Typed(inflight[s])
  /\ \A s, t \in Slot : Alone(s) /\ s # t => inflight[t] = Idle
  /\ \A s \in Slot : Alone(s) => LoneSound(tasks, inflight[s])
  /\ LoneWritesRepair

-----------------------------------------------------------------------------
LEMMA RowsOrdered ==
  ASSUME NEW list, RowList(list)
  PROVE  /\ Ordered(list)
         /\ Cardinality(DOMAIN list) \in 0 .. MaxTasks
<1>1. /\ IsFiniteSet(1 .. MaxTasks) /\ Cardinality(1 .. MaxTasks) = MaxTasks /\ MaxTasks \in Nat
  BY WritesAssumption, FS_Interval
<1>2. IsFiniteSet(DOMAIN list) /\ Cardinality(DOMAIN list) <= MaxTasks
  BY <1>1, FS_Subset DEF RowList
<1>3. \A i \in DOMAIN list : list[i].order \in Int
  BY DEF RowList, Row
<1> QED
  BY <1>2, <1>3, FS_CardinalityType DEF Ordered, RowList

LEMMA RowMoved ==
  ASSUME NEW r \in Row, NEW o \in 0 .. MaxTasks
  PROVE  LET new == [r EXCEPT !.order = o]
         IN  new \in Row /\ new.order = o /\ new.holder = r.holder /\ new.hours = r.hours
BY DEF Row

\* The orders alone decide.
LEMMA SameOrders ==
  ASSUME NEW list, NEW new, DOMAIN new = DOMAIN list,
         \A i \in DOMAIN list : new[i].order = list[i].order
  PROVE  Contiguous(new) <=> Contiguous(list)
BY DEF Contiguous, LastPlace

\* Each row to its place.
LEMMA RebalancedContiguous ==
  ASSUME NEW list, RowList(list)
  PROVE  /\ RowList(Rebalanced(list)) /\ DOMAIN Rebalanced(list) = DOMAIN list
         /\ Contiguous(Rebalanced(list))
<1> DEFINE new == Rebalanced(list)
<1>1. Ordered(list) /\ LastPlace(list) < MaxTasks
  BY RowsOrdered, WritesAssumption DEF LastPlace
<1>2. DOMAIN new = DOMAIN list /\ LastPlace(new) = LastPlace(list)
  BY DEF Rebalanced, LastPlace
<1>3. ASSUME NEW i \in DOMAIN list
      PROVE  /\ Place(list, i) \in 0 .. LastPlace(list)
             /\ new[i].order = Place(list, i) /\ new[i] \in Row
  <2>1. Place(list, i) \in 0 .. LastPlace(list) /\ LastPlace(list) \in Nat
    BY <1>1, PlaceType
  <2>2. list[i] \in Row /\ Place(list, i) \in 0 .. MaxTasks
    BY <1>1, <2>1, WritesAssumption DEF RowList
  <2>3. new[i] = [list[i] EXCEPT !.order = Place(list, i)]
    BY DEF Rebalanced
  <2> HIDE DEF new
  <2> QED
    BY <2>1, <2>2, <2>3, RowMoved
<1>4. RowList(new)
  BY <1>2, <1>3 DEF RowList, Rebalanced
<1> QED
  BY <1>1, <1>2, <1>3, <1>4, PlacesNumber DEF Contiguous

\* A row put after the last.
LEMMA AppendedContiguous ==
  ASSUME NEW list, RowList(list), NEW new, NEW x, x \notin DOMAIN list, DOMAIN new = DOMAIN list \cup {x},
         \A i \in DOMAIN list : new[i].order = list[i].order,
         new[x].order = Cardinality(DOMAIN list), Contiguous(list)
  PROVE  Contiguous(new)
<1> DEFINE n == Cardinality(DOMAIN list)
<1>1. n \in Nat /\ IsFiniteSet(DOMAIN list)
  BY RowsOrdered DEF Ordered
<1>2. Cardinality(DOMAIN new) = n + 1
  BY <1>1, FS_AddElement
<1>3. { list[i].order : i \in DOMAIN list } = 0 .. n - 1
  BY DEF Contiguous, LastPlace
<1>4. { new[i].order : i \in DOMAIN new } = { list[i].order : i \in DOMAIN list } \cup {n}
  OBVIOUS
<1> HIDE DEF n
<1>5. (0 .. n - 1) \cup {n} = 0 .. (n + 1) - 1
  BY <1>1
<1> QED
  BY <1>2, <1>3, <1>4, <1>5 DEF Contiguous, LastPlace

\* A row taken to a place, the others closing up around it.
LEMMA MovedToContiguous ==
  ASSUME NEW list, RowList(list), NEW x \in DOMAIN list, NEW target \in Nat
  PROVE  LET new == MovedTo(list, x, target)
         IN  /\ RowList(new) /\ DOMAIN new = DOMAIN list
             /\ Contiguous(new)
<1> DEFINE D   == DOMAIN list
           new == MovedTo(list, x, target)
           to  == Clamped(list, target)
           n   == LastPlace(list)
           P(i) == Place(list, i)
           W(i) == P(i) - (IF P(x) < P(i) THEN 1 ELSE 0)
           N(i) == IF i = x THEN to ELSE IF W(i) < to THEN W(i) ELSE W(i) + 1
<1>1. Ordered(list) /\ LastPlace(list) < MaxTasks
  BY RowsOrdered, WritesAssumption DEF LastPlace
<1>2. n \in Nat /\ to \in 0 .. n
  BY <1>1, PlaceType DEF Clamped
<1>3. \A i \in D : P(i) \in 0 .. n
  BY <1>1, PlaceType
<1>4. \A i, j \in D : /\ Above(list, i, j) <=> P(i) < P(j)
                      /\ P(i) = P(j) => i = j
  BY <1>1, PlacesNumber
<1>5. \A p \in 0 .. n : \E i \in D : P(i) = p
  BY <1>1, PlacesNumber
<1> HIDE DEF P, n, to
<1>6. \A i \in D \ {x} : /\ P(i) # P(x)
                         /\ W(i) \in Int /\ 0 <= W(i) /\ W(i) < n
  <2> SUFFICES ASSUME NEW i \in D \ {x}
               PROVE  /\ P(i) # P(x)
                      /\ W(i) \in Int /\ 0 <= W(i) /\ W(i) < n
    OBVIOUS
  <2>1. P(i) # P(x) /\ P(i) \in 0 .. n /\ P(x) \in 0 .. n
    BY <1>3, <1>4
  <2> QED
    BY <1>2, <2>1
<1>7. \A i \in D : N(i) \in 0 .. n
  BY <1>2, <1>6
<1>8. \A i \in D : new[i] = [list[i] EXCEPT !.order = N(i)]
  <2> SUFFICES ASSUME NEW i \in D
               PROVE  new[i] = [list[i] EXCEPT !.order = N(i)]
    OBVIOUS
  <2> DEFINE V == P(i) - (IF Above(list, x, i) THEN 1 ELSE 0)
  <2>1. new[i] = [list[i] EXCEPT !.order =
                    IF i = x THEN to ELSE IF V < to THEN V ELSE V + 1]
    BY DEF MovedTo, P, to
  <2>2. V = W(i)
    <3>1. CASE Above(list, x, i)
      BY <1>4, <3>1
    <3>2. CASE ~Above(list, x, i)
      BY <1>4, <3>2
    <3> QED
      BY <3>1, <3>2
  <2> HIDE DEF V, W
  <2> QED
    BY <2>1, <2>2
<1>9. \A i \in D : new[i].order = N(i) /\ new[i] \in Row
  <2> SUFFICES ASSUME NEW i \in D
               PROVE  new[i].order = N(i) /\ new[i] \in Row
    OBVIOUS
  <2>1. N(i) \in 0 .. MaxTasks
    BY <1>1, <1>2, <1>7, WritesAssumption DEF n
  <2>2. list[i] \in Row
    BY DEF RowList
  <2>3. new[i] = [list[i] EXCEPT !.order = N(i)]
    BY <1>8
  <2> HIDE DEF N, new
  <2> QED
    BY <2>1, <2>2, <2>3, RowMoved
<1>10. DOMAIN new = D
  BY DEF MovedTo
<1>11. RowList(new)
  BY <1>9, <1>10 DEF RowList, MovedTo
<1>13. \A p \in 0 .. n : \E i \in D : N(i) = p
  <2> SUFFICES ASSUME NEW p \in 0 .. n
               PROVE  \E i \in D : N(i) = p
    OBVIOUS
  <2>1. CASE p = to
    BY <2>1
  <2>2. CASE p # to
    <3> DEFINE w == IF p < to THEN p ELSE p - 1
               q == IF w < P(x) THEN w ELSE w + 1
    <3>0. P(x) \in 0 .. n
      BY <1>3
    <3>1. q \in 0 .. n /\ q # P(x)
      BY <1>2, <2>2, <3>0
    <3>2. PICK i \in D : P(i) = q
      BY <1>5, <3>1
    <3>3. i # x /\ W(i) = w
      BY <1>2, <2>2, <3>0, <3>1, <3>2
    <3>4. N(i) = p
      BY <1>2, <2>2, <3>3
    <3> QED
      BY <3>4
  <2> QED
    BY <2>1, <2>2
<1>14. Contiguous(new)
  <2>1. LastPlace(new) = n
    BY <1>10 DEF LastPlace, n
  <2> QED
    BY <1>7, <1>9, <1>10, <1>13, <2>1 DEF Contiguous
<1> QED
  BY <1>10, <1>11, <1>14

-----------------------------------------------------------------------------
(* What a request writes                                                   *)

LEMMA AfterTyped ==
  ASSUME NEW list, RowList(list), NEW moves, moves \subseteq (1 .. MaxTasks) \X (0 .. MaxTasks),
         NEW left, left \subseteq DOMAIN list
  PROVE  LET new == After(list, moves, left)
         IN  /\ RowList(new) /\ DOMAIN new = left
             /\ \A i \in left : new[i].holder = list[i].holder /\ new[i].hours = list[i].hours
<1> DEFINE new == After(list, moves, left)
<1>1. DOMAIN new = left
  BY DEF After
<1>2. ASSUME NEW i \in left
      PROVE  new[i] \in Row /\ new[i].holder = list[i].holder /\ new[i].hours = list[i].hours
  <2>1. list[i] \in Row
    BY DEF RowList
  <2>2. CASE i \in { m[1] : m \in moves }
    <3>1. PICK o \in 0 .. MaxTasks : <<i, o>> \in moves
      BY <2>2
    <3> DEFINE p == CHOOSE p \in 0 .. MaxTasks : <<i, p>> \in moves
    <3>2. p \in 0 .. MaxTasks
      BY <3>1
    <3>3. new[i] = [list[i] EXCEPT !.order = p]
      BY <2>2 DEF After, Moved
    <3> HIDE DEF new, p
    <3> QED
      BY <2>1, <3>2, <3>3, RowMoved
  <2>3. CASE i \notin { m[1] : m \in moves }
    BY <2>1, <2>3 DEF After
  <2> QED
    BY <2>2, <2>3
<1>3. RowList(new)
  BY <1>1, <1>2 DEF RowList, After
<1> QED
  BY <1>1, <1>2, <1>3

\* Writing the rows whose order changes gives all of them the new order.
LEMMA AfterAs ==
  ASSUME NEW list, RowList(list), NEW new, DOMAIN new \subseteq DOMAIN list,
         \A i \in DOMAIN new : new[i].order \in 0 .. MaxTasks, Contiguous(new),
         NEW moves,
         \A m \in moves : \E j \in DOMAIN new :
           m = <<j, new[j].order>> /\ new[j].order # list[j].order,
         \A j \in DOMAIN new : new[j].order # list[j].order => <<j, new[j].order>> \in moves
  PROVE  /\ moves \subseteq (1 .. MaxTasks) \X (0 .. MaxTasks)
         /\ Contiguous(After(list, moves, DOMAIN new))
<1>1. moves \subseteq (1 .. MaxTasks) \X (0 .. MaxTasks)
  BY DEF RowList
<1> DEFINE after == After(list, moves, DOMAIN new)
<1>2. ASSUME NEW i \in DOMAIN new PROVE after[i].order = new[i].order
  <2>1. list[i] \in Row
    BY DEF RowList
  <2>2. CASE new[i].order # list[i].order
    <3> DEFINE o == CHOOSE o \in 0 .. MaxTasks : <<i, o>> \in moves
    <3>1. \A p : <<i, p>> \in moves <=> p = new[i].order
      BY <2>2
    <3>2. o = new[i].order /\ o \in 0 .. MaxTasks
      BY <3>1
    <3>3. i \in { m[1] : m \in moves }
      <4>1. <<i, new[i].order>> \in moves /\ <<i, new[i].order>>[1] = i
        BY <3>1
      <4> QED
        BY <4>1
    <3>4. after[i] = [list[i] EXCEPT !.order = o]
      BY <3>3 DEF After, Moved
    <3> HIDE DEF after, o
    <3> QED
      BY <2>1, <3>2, <3>4, RowMoved
  <2>3. CASE new[i].order = list[i].order
    <3>1. i \notin { m[1] : m \in moves }
      BY <2>3
    <3> QED
      BY <2>3, <3>1 DEF After
  <2> QED
    BY <2>2, <2>3
<1>3. DOMAIN after = DOMAIN new
  BY DEF After
<1> HIDE DEF after
<1>4. Contiguous(after)
  BY <1>2, <1>3, SameOrders
<1> QED
  BY <1>1, <1>4 DEF after

\* A transaction sees the tasks with its own rows.
LEMMA SeenAs ==
  ASSUME NEW s \in Slot, "rows" \in DOMAIN inflight[s]
  PROVE  SeenTasks(s) = AsSeen(tasks, inflight[s])
BY DEF SeenTasks, AsSeen, Wrote, Gone

LEMMA SeenTyped ==
  ASSUME NEW list, RowList(list), NEW q, RowList(q.rows)
  PROVE  RowList(AsSeen(list, q))
BY DEF RowList, AsSeen

-----------------------------------------------------------------------------
(* Beginning, going on, ending                                             *)

\* Whether it is alone is not told by the rest of what it carries.
LEMMA SameButAlone ==
  ASSUME NEW p, NEW q, DOMAIN q = DOMAIN p, \A f \in DOMAIN p : f # "alone" => q[f] = p[f],
         Carries(p), Typed(p), p.op # "idle", NEW list
  PROVE  Typed(q) /\ (LoneSound(list, p) => LoneSound(list, q))
<1>1. q.op = p.op
  BY DEF Carries
<1>2. p.op \in TxOp =>
        /\ q.rows = p.rows /\ q.step = p.step /\ q.gone = p.gone /\ q.seats = p.seats
        /\ q.holders = p.holders /\ q.task = p.task /\ q.syncs = p.syncs /\ q.sums = p.sums
        /\ q.total = p.total /\ q.to = p.to
  BY DEF Carries, Typed, TxOp
<1>3. p.op \in { "remove", "reorder" } => q.to = p.to
  BY DEF Typed
<1>4. p.op = "leave" => q.user = p.user
  BY DEF Carries
<1>5. Typed(q)
  BY <1>1, <1>2, <1>3 DEF Typed, TxOp
<1>6. p.op \in TxOp => AsSeen(list, q) = AsSeen(list, p)
  BY <1>2 DEF AsSeen
<1>7. LoneRows(list, p) => LoneRows(list, q)
  BY <1>1, <1>2, <1>6 DEF LoneRows, TxOp
<1>8. LoneSums(list, p) => LoneSums(list, q)
  BY <1>1, <1>2, <1>6 DEF LoneSums
<1>9. LoneSound(list, p) => LoneSound(list, q)
  BY <1>1, <1>3, <1>4, <1>7, <1>8 DEF LoneSound
<1> QED
  BY <1>5, <1>9

LEMMA Begins ==
  ASSUME LoneInv, WritesCarry, NEW s \in Slot, NEW q, Start(s, q), Carries(q), Typed(q),
         LoneSound(tasks, q), q.op # "idle", UNCHANGED <<tables, settled>>
  PROVE  LoneInv'
<1>1. /\ DOMAIN inflight' = Slot
      /\ inflight'[s] = [q EXCEPT !.alone = Others(s) = {}]
      /\ \A t \in Slot : t # s =>
           inflight'[t] = IF t \in Others(s) THEN [inflight[t] EXCEPT !.alone = FALSE] ELSE Idle
  BY DEF Start
<1>2. /\ \A t \in Slot : Carries(inflight[t]) /\ Typed(inflight[t])
      /\ "alone" \in DOMAIN q /\ tasks' = tasks
  BY DEF LoneInv, WritesCarry, Typed, tables
<1>3. Idle.op = "idle" /\ Typed(Idle)
  BY DEF Idle, Typed, TxOp
<1>4. ASSUME NEW p, NEW b, Carries(p), Typed(p), p.op # "idle"
      PROVE  LET new == [p EXCEPT !.alone = b]
             IN  /\ Typed(new) /\ new.op = p.op /\ new.alone = b
                 /\ LoneSound(tasks, p) => LoneSound(tasks, new)
  <2> DEFINE new == [p EXCEPT !.alone = b]
  <2>1. /\ DOMAIN new = DOMAIN p /\ \A f \in DOMAIN p : f # "alone" => new[f] = p[f]
        /\ new.alone = b
    BY <1>4 DEF Typed
  <2> HIDE DEF new
  <2>2. new.op = p.op
    BY <1>4, <2>1 DEF Carries
  <2> QED
    BY <1>4, <2>1, <2>2, SameButAlone DEF new
<1>5. ASSUME NEW t \in Slot, t # s PROVE Typed(inflight'[t]) /\ ~Alone(t)'
  <2>1. CASE t \in Others(s)
    <3>1. inflight[t].op # "idle"
      BY <1>2, <2>1 DEF Others, Typed
    <3>2. inflight'[t] = [inflight[t] EXCEPT !.alone = FALSE]
      BY <1>1, <1>5, <2>1
    <3>3. Typed(inflight'[t]) /\ inflight'[t].alone = FALSE
      BY <1>2, <1>4, <3>1, <3>2
    <3> QED
      BY <3>3 DEF Alone
  <2>2. CASE t \notin Others(s)
    BY <1>1, <1>3, <1>5, <2>2 DEF Alone
  <2> QED
    BY <2>1, <2>2
<1>6. /\ Typed(inflight'[s]) /\ LoneSound(tasks, inflight'[s])
      /\ inflight'[s].alone = (Others(s) = {})
  BY <1>1, <1>2, <1>4
<1>7. Alone(s)' => \A t \in Slot : t # s => inflight'[t] = Idle
  BY <1>1, <1>6 DEF Alone
<1>8. LoneWritesRepair'
  BY DEF LoneInv, LoneWritesRepair, tables
<1> QED
  BY <1>2, <1>5, <1>6, <1>7, <1>8 DEF LoneInv

\* On to the next statement, the tables as they were.
LEMMA Advances ==
  ASSUME LoneInv, NEW s \in Slot, inflight[s].op # "idle", UNCHANGED <<tables, settled>>,
         \A t \in Slot : t # s => inflight'[t] = inflight[t],
         inflight'[s].op = inflight[s].op, inflight'[s].alone = inflight[s].alone,
         Typed(inflight'[s]), LoneSound(tasks, inflight[s]) => LoneSound(tasks, inflight'[s])
  PROVE  LoneInv'
<1>1. tasks' = tasks /\ LoneWritesRepair'
  BY DEF LoneInv, LoneWritesRepair, tables
<1>2. \A t \in Slot : Typed(inflight'[t])
  BY DEF LoneInv
<1>3. \A t \in Slot : Alone(t)' <=> Alone(t)
  BY DEF Alone
<1>4. ASSUME NEW r \in Slot, NEW t \in Slot, Alone(r)', r # t PROVE inflight'[t] = Idle
  <2>1. inflight[t] = Idle
    BY <1>3, <1>4 DEF LoneInv
  <2>2. t # s
    BY <2>1 DEF Idle
  <2> QED
    BY <2>1, <2>2
<1>5. ASSUME NEW t \in Slot, Alone(t)' PROVE LoneSound(tasks, inflight'[t])
  BY <1>3, <1>5 DEF LoneInv
<1> QED
  BY <1>1, <1>2, <1>4, <1>5 DEF LoneInv

(***************************************************************************)
(* It is over.  Alone, it must leave in step what it has recomputed and    *)
(* what was; otherwise nothing is said to be.                              *)
(***************************************************************************)
LEMMA Finishes ==
  ASSUME LoneInv, WritesCarry, NEW s \in Slot, inflight[s].op # "idle",
         inflight' = [inflight EXCEPT ![s] = Idle], RowList(tasks'),
         LoneWritesRepair'
  PROVE  LoneInv'
<1>1. /\ inflight'[s] = Idle /\ \A t \in Slot : t # s => inflight'[t] = inflight[t]
  BY DEF WritesCarry
<1>2. Idle.op = "idle" /\ Typed(Idle)
  BY DEF Idle, Typed, TxOp
<1>3. ASSUME NEW t \in Slot PROVE Typed(inflight'[t])
  BY <1>1, <1>2 DEF LoneInv
<1>4. ASSUME NEW t \in Slot PROVE ~Alone(t)'
  <2>1. CASE t = s
    BY <1>1, <1>2, <2>1 DEF Alone
  <2>2. CASE t # s
    <3>1. Alone(t) => inflight[s] = Idle
      BY <2>2 DEF LoneInv
    <3> QED
      BY <1>1, <1>2, <2>2, <3>1 DEF Alone
  <2> QED
    BY <2>1, <2>2
<1> QED
  BY <1>3, <1>4 DEF LoneInv

-----------------------------------------------------------------------------
(* The requests, as they begin                                             *)

LEMMA InsertLone ==
  ASSUME WritesCarry, LoneInv, NEW s \in Slot, NEW d \in User, NEW h \in Hours, Insert(s, d, h)
  PROVE  LoneInv'
<1>1. PICK i \in 1 .. MaxTasks :
        /\ Unused(i)
        /\ Start(s, [Transaction("create", i, TRUE, TRUE, "holders") EXCEPT
            !.rows = [j \in {i} |-> [holder |-> d, hours |-> h,
                                     order |-> Cardinality(DOMAIN tasks)]]])
  BY DEF Insert
<1> DEFINE row == [holder |-> d, hours |-> h, order |-> Cardinality(DOMAIN tasks)]
           p == Transaction("create", i, TRUE, TRUE, "holders")
           q == [p EXCEPT !.rows = [j \in {i} |-> row]]
<1>2. /\ q.op = "create" /\ q.holders = {} /\ q.step = "holders" /\ q.syncs = TRUE /\ q.sums = TRUE
      /\ q.gone = {} /\ q.rows = [j \in {i} |-> row]
      /\ DOMAIN q = DOMAIN p
      /\ {"op", "step", "rows", "gone", "seats", "holders", "task", "syncs", "sums", "total", "to",
          "alone"} \subseteq DOMAIN p
  BY DEF Transaction
<1> HIDE DEF q, p
<1>3. row \in Row
  BY RowsOrdered DEF LoneInv, Row
<1>4. i \notin DOMAIN tasks
  <2>1. i < i => FALSE
    OBVIOUS
  <2> QED
    BY <1>1, <2>1 DEF Unused
<1>5. RowList(q.rows) /\ DOMAIN q.rows = {i} /\ q.rows[i].order = Cardinality(DOMAIN tasks)
  BY <1>2, <1>3 DEF RowList
<1>6. Carries(q)
  BY <1>2 DEF Carries, Named
<1>7. Typed(q)
  BY <1>2, <1>5 DEF Typed
<1>8. LoneRows(tasks, q)
  BY <1>2, <1>4, <1>5 DEF LoneRows
<1>9. LoneSums(tasks, q)
  BY <1>2 DEF LoneSums
<1>10. LoneSound(tasks, q)
  BY <1>2, <1>8, <1>9 DEF LoneSound
<1>11. UNCHANGED <<tables, settled>> /\ Start(s, q)
  BY <1>1 DEF Insert, q, p
<1> QED
  BY <1>2, <1>6, <1>7, <1>10, <1>11, Begins

LEMMA LoadUpdateLone ==
  ASSUME WritesCarry, LoneInv, NEW s \in Slot, NEW i, NEW d \in User, NEW h \in Hours,
         LoadUpdate(s, i, d, h)
  PROVE  LoneInv'
<1> DEFINE syncs == d # tasks[i].holder
           sums == h # tasks[i].hours
           to == (IF syncs THEN {<<"holder", d>>} ELSE {}) \cup (IF sums THEN {<<"hours", h>>} ELSE {})
           q == [Transaction("update", i, syncs, sums, "write") EXCEPT !.to = to]
<1>1. Start(s, q) /\ UNCHANGED <<tables, settled>>
  BY DEF LoadUpdate
<1>2. /\ q.op = "update" /\ q.holders = {} /\ DOMAIN q.seats = {} /\ DOMAIN q.rows = {}
      /\ q.step = "write" /\ q.syncs = syncs /\ q.sums = sums /\ q.to = to /\ q.gone = {}
      /\ q.rows = [j \in {} |-> {}]
      /\ {"op", "step", "rows", "gone", "seats", "holders", "task", "syncs", "sums", "total", "to",
          "alone"} \subseteq DOMAIN q
  BY DEF Transaction
<1>3. /\ ~syncs => \A e \in User : <<"holder", e>> \notin to
      /\ ~sums => \A e \in Hours : <<"hours", e>> \notin to
  OBVIOUS
<1> HIDE DEF q, to, syncs, sums
<1>4. Carries(q)
  BY <1>2 DEF Carries, Named
<1>5. RowList(q.rows)
  BY <1>2 DEF RowList
<1>6. Typed(q)
  BY <1>2, <1>3, <1>5 DEF Typed
<1>7. LoneSound(tasks, q)
  BY <1>2 DEF LoneSound, LoneRows, LoneSums
<1> QED
  BY <1>1, <1>2, <1>4, <1>6, <1>7, Begins

LEMMA LoadRemoveLone ==
  ASSUME WritesCarry, LoneInv, NEW s \in Slot, NEW i, LoadRemove(s, i)
  PROVE  LoneInv'
<1> DEFINE q == Transaction("remove", i, TRUE, TRUE, "delete")
<1>1. Start(s, q) /\ UNCHANGED <<tables, settled>>
  BY DEF LoadRemove
<1>2. /\ q.op = "remove" /\ q.holders = {} /\ DOMAIN q.seats = {} /\ q.rows = [j \in {} |-> {}]
      /\ q.step = "delete" /\ q.syncs = TRUE /\ q.sums = TRUE /\ q.to = {} /\ q.gone = {}
      /\ {"op", "step", "rows", "gone", "seats", "holders", "task", "syncs", "sums", "total", "to",
          "alone"} \subseteq DOMAIN q
  BY DEF Transaction
<1> HIDE DEF q
<1>3. Carries(q)
  BY <1>2 DEF Carries, Named
<1>4. RowList(q.rows)
  BY <1>2 DEF RowList
<1>5. Typed(q)
  BY <1>2, <1>4 DEF Typed
<1>6. LoneSound(tasks, q)
  BY <1>2 DEF LoneSound, LoneRows, LoneSums
<1> QED
  BY <1>1, <1>2, <1>3, <1>5, <1>6, Begins

LEMMA LoadReorderLone ==
  ASSUME WritesCarry, LoneInv, NEW s \in Slot, NEW i \in DOMAIN tasks, NEW target \in Nat,
         LoadReorder(s, i, target)
  PROVE  LoneInv'
<1> DEFINE list == MovedTo(tasks, i, target)
           to == { <<j, list[j].order>> : j \in
                     { k \in DOMAIN tasks : list[k].order # tasks[k].order } }
           q == [op |-> "reorder", alone |-> TRUE, to |-> to]
<1>1. Start(s, q) /\ UNCHANGED <<tables, settled>>
  BY DEF LoadReorder
<1>2. RowList(tasks)
  BY DEF LoneInv
<1>3. RowList(list) /\ DOMAIN list = DOMAIN tasks /\ Contiguous(list)
  BY <1>2, MovedToContiguous
<1> HIDE DEF list
<1>4. \A j \in DOMAIN list : list[j].order \in 0 .. MaxTasks
  BY <1>3 DEF RowList, Row
<1>5. /\ to \subseteq (1 .. MaxTasks) \X (0 .. MaxTasks)
      /\ Contiguous(After(tasks, to, DOMAIN tasks))
  <2>1. /\ \A m \in to : \E j \in DOMAIN list :
               m = <<j, list[j].order>> /\ list[j].order # tasks[j].order
        /\ \A j \in DOMAIN list : list[j].order # tasks[j].order => <<j, list[j].order>> \in to
    BY <1>3
  <2> HIDE DEF to
  <2> QED
    BY <1>2, <1>3, <1>4, <2>1, AfterAs
<1> HIDE DEF to
<1>6. Carries(q)
  BY DEF Carries
<1>7. Typed(q)
  BY <1>5 DEF Typed, TxOp
<1>8. LoneSound(tasks, q)
  BY <1>5 DEF LoneSound, LoneRows, LoneSums, TxOp
<1>9. q.op # "idle"
  OBVIOUS
<1> HIDE DEF q
<1> QED
  BY <1>1, <1>6, <1>7, <1>8, <1>9, Begins

LEMMA RosterLoadsLone ==
  ASSUME WritesCarry, LoneInv, NEW s \in Slot, NEW d \in User,
         LoadJoin(s, d) \/ LoadLeave(s, d) \/ LoadHandOver(s, d)
  PROVE  LoneInv'
<1>1. ASSUME NEW q, Start(s, q), q.op \in { "join", "leave", "lead" }, q.user = d,
             {"op", "user", "alone"} \subseteq DOMAIN q,
             {"rows", "step"} \cap DOMAIN q = {},
             q.op = "leave" => d \notin Hold(tasks)
      PROVE  LoneInv'
  <2>1. Carries(q)
    BY <1>1 DEF Carries
  <2>2. Typed(q)
    BY <1>1 DEF Typed, TxOp
  <2>3. LoneSound(tasks, q)
    BY <1>1 DEF LoneSound, LoneRows, LoneSums, TxOp
  <2>4. UNCHANGED <<tables, settled>>
    BY DEF LoadJoin, LoadLeave, LoadHandOver
  <2>5. q.op # "idle"
    BY <1>1
  <2> QED
    BY <1>1, <2>1, <2>2, <2>3, <2>4, <2>5, Begins
<1>2. CASE LoadJoin(s, d)
  <2> DEFINE q == [op |-> "join", user |-> d, leads |-> Leads(roster) = {}, alone |-> TRUE]
  <2>1. /\ q.op = "join" /\ q.user = d /\ {"op", "user", "alone"} \subseteq DOMAIN q
        /\ {"rows", "step"} \cap DOMAIN q = {} /\ Start(s, q)
    BY <1>2 DEF LoadJoin
  <2> HIDE DEF q
  <2> QED
    BY <1>1, <2>1
<1>3. CASE LoadLeave(s, d)
  <2> DEFINE q == [op |-> "leave", user |-> d, alone |-> TRUE]
  <2>1. /\ q.op = "leave" /\ q.user = d /\ {"op", "user", "alone"} \subseteq DOMAIN q
        /\ {"rows", "step"} \cap DOMAIN q = {} /\ Start(s, q) /\ d \notin Hold(tasks)
    BY <1>3 DEF LoadLeave
  <2> HIDE DEF q
  <2> QED
    BY <1>1, <2>1
<1>4. CASE LoadHandOver(s, d)
  <2> DEFINE q == [op |-> "lead", user |-> d, alone |-> TRUE]
  <2>1. /\ q.op = "lead" /\ q.user = d /\ {"op", "user", "alone"} \subseteq DOMAIN q
        /\ {"rows", "step"} \cap DOMAIN q = {} /\ Start(s, q)
    BY <1>4 DEF LoadHandOver
  <2> HIDE DEF q
  <2> QED
    BY <1>1, <2>1
<1> QED
  BY <1>2, <1>3, <1>4

-----------------------------------------------------------------------------
(* A transaction's statements                                              *)

LEMMA Fields ==
  ASSUME WritesCarry, LoneInv, NEW s \in Slot,
         "step" \in DOMAIN inflight[s] \/ inflight[s].op \in TxOp
  PROVE  /\ inflight[s].op \in TxOp /\ inflight[s].op # "idle"
         /\ {"op", "step", "rows", "gone", "seats", "holders", "task", "syncs", "sums", "total", "to",
             "alone"} \subseteq DOMAIN inflight[s]
         /\ Carries(inflight[s]) /\ Typed(inflight[s]) /\ RowList(inflight[s].rows)
         /\ SeenTasks(s) = AsSeen(tasks, inflight[s])
<1>1. Carries(inflight[s]) /\ Typed(inflight[s])
  BY DEF WritesCarry, LoneInv
<1>2. inflight[s].op \in TxOp /\ inflight[s].op # "idle"
  BY <1>1 DEF Carries, TxOp
<1>3. /\ {"op", "step", "rows", "gone", "seats", "holders", "task", "syncs", "sums", "total", "to",
          "alone"} \subseteq DOMAIN inflight[s]
      /\ RowList(inflight[s].rows)
  BY <1>1, <1>2 DEF Carries, Typed, TxOp
<1> QED
  BY <1>1, <1>2, <1>3, SeenAs

\* A statement after the task rows are written, which leaves them alone.
LEMMA GoesOn ==
  ASSUME WritesCarry, LoneInv, NEW s \in Slot, "step" \in DOMAIN inflight[s],
         UNCHANGED <<tables, settled>>, \A t \in Slot : t # s => inflight'[t] = inflight[t],
         DOMAIN inflight'[s] = DOMAIN inflight[s],
         \A f \in { "op", "task", "syncs", "sums", "to", "rows", "gone", "alone" } :
           inflight'[s][f] = inflight[s][f],
         {inflight[s].step, inflight'[s].step} \cap { "delete", "close" } = {},
         \/ inflight[s].syncs
         \/ /\ inflight'[s].step \notin { "holders", "reconcile", "leads", "promote" }
            /\ inflight'[s].seats = inflight[s].seats,
         LoneSums(tasks, inflight[s]) => LoneSums(tasks, inflight'[s])
  PROVE  LoneInv'
<1> DEFINE p == inflight[s]
           q == inflight'[s]
<1>1. /\ p.op \in TxOp /\ Typed(p) /\ p.op # "idle" /\ RowList(p.rows)
      /\ {"op", "step", "rows", "gone", "seats", "holders", "task", "syncs", "sums", "total", "to",
          "alone"} \subseteq DOMAIN p
  BY Fields
<1>2. /\ q.op = p.op /\ q.task = p.task /\ q.syncs = p.syncs /\ q.sums = p.sums /\ q.to = p.to
      /\ q.rows = p.rows /\ q.gone = p.gone /\ q.alone = p.alone
      /\ DOMAIN q = DOMAIN p
      /\ p.step \notin { "delete", "close" } /\ q.step \notin { "delete", "close" }
  OBVIOUS
<1>3. q.op \in TxOp =>
        /\ {"task", "syncs", "sums", "total", "to"} \subseteq DOMAIN q
        /\ RowList(q.rows)
        /\ q.op # "update" => q.syncs /\ q.sums
        /\ ~q.syncs => DOMAIN q.seats = {}
        /\ q.step \in { "holders", "reconcile", "leads", "promote" } => q.syncs
  BY <1>1, <1>2 DEF Typed
<1>4. Typed(q)
  BY <1>1, <1>2, <1>3 DEF Typed
<1>5. AsSeen(tasks, q) = AsSeen(tasks, p)
  BY <1>2 DEF AsSeen
<1>6. LoneRows(tasks, p) => LoneRows(tasks, q)
  BY <1>2, <1>5 DEF LoneRows
<1>7. LoneSound(tasks, p) => LoneSound(tasks, q)
  BY <1>1, <1>2, <1>6 DEF LoneSound, TxOp
<1> QED
  BY <1>1, <1>2, <1>4, <1>7, Advances

LEMMA PatchedRight ==
  ASSUME NEW row \in Row, NEW to
  PROVE  LET new == Patched(row, to)
         IN  /\ new \in Row /\ new.order = row.order
             /\ (\A d \in User : <<"holder", d>> \notin to) => new.holder = row.holder
             /\ (\A h \in Hours : <<"hours", h>> \notin to) => new.hours = row.hours
<1> DEFINE holder == IF \E d \in User : <<"holder", d>> \in to
                       THEN CHOOSE d \in User : <<"holder", d>> \in to ELSE row.holder
           hours == IF \E h \in Hours : <<"hours", h>> \in to
                       THEN CHOOSE h \in Hours : <<"hours", h>> \in to ELSE row.hours
<1>1. holder \in User /\ hours \in Hours
  BY DEF Row
<1>2. /\ (\A d \in User : <<"holder", d>> \notin to) => holder = row.holder
      /\ (\A h \in Hours : <<"hours", h>> \notin to) => hours = row.hours
  OBVIOUS
<1>3. Patched(row, to) = [holder |-> holder, hours |-> hours, order |-> row.order]
  BY DEF Patched
<1> HIDE DEF holder, hours
<1> QED
  BY <1>1, <1>2, <1>3 DEF Row

LEMMA WriteUpdateLone ==
  ASSUME WritesCarry, LoneInv, NEW s \in Slot, WriteUpdate(s)
  PROVE  LoneInv'
<1> DEFINE i == inflight[s].task
           p == inflight[s]
           q == inflight'[s]
           rows == [j \in {i} |-> Patched(tasks[j], p.to)]
           p1 == [p EXCEPT !.rows = rows]
           p2 == [p1 EXCEPT !.step = AfterRows(p)]
<1>1. /\ p.op = "update" /\ i \in DOMAIN tasks /\ UNCHANGED <<tables, settled>>
      /\ RowList(tasks) /\ DOMAIN inflight = Slot
  BY DEF WriteUpdate, LoneInv, WritesCarry
<1>2. /\ p.op # "idle" /\ Typed(p) /\ Carries(p)
      /\ {"op", "step", "rows", "gone", "seats", "holders", "task", "syncs", "sums", "total", "to",
          "alone"} \subseteq DOMAIN p
  BY <1>1, Fields DEF TxOp
<1>3. q = p2 /\ \A t \in Slot : t # s => inflight'[t] = inflight[t]
  BY <1>1 DEF WriteUpdate
<1>4. /\ p2.rows = rows /\ p2.step = AfterRows(p) /\ DOMAIN p2 = DOMAIN p
      /\ \A f \in DOMAIN p : f \notin {"rows", "step"} => p2[f] = p[f]
  BY <1>2
<1> HIDE DEF p2, p1, rows
<1>5. /\ q.rows = rows /\ q.step = AfterRows(p) /\ q.op = p.op /\ q.syncs = p.syncs
      /\ q.sums = p.sums /\ q.to = p.to /\ q.gone = p.gone /\ q.seats = p.seats
      /\ q.alone = p.alone /\ DOMAIN q = DOMAIN p
  BY <1>2, <1>3, <1>4
<1>6. /\ tasks[i] \in Row /\ DOMAIN rows = {i} /\ rows[i] = Patched(tasks[i], p.to)
      /\ i \in 1 .. MaxTasks
  BY <1>1 DEF RowList, rows
<1>7. RowList(rows)
  BY <1>6, PatchedRight DEF RowList, rows
<1>8. /\ rows[i].order = tasks[i].order
      /\ ~p.syncs => rows[i].holder = tasks[i].holder
      /\ ~p.sums => rows[i].hours = tasks[i].hours
  BY <1>1, <1>2, <1>6, PatchedRight DEF Typed
<1>9. /\ p.syncs => q.step = "holders"
      /\ ~p.syncs => q.step \in { "sum", "commit" } /\ (q.step = "commit" => ~p.sums)
  BY <1>5 DEF AfterRows, AfterSync
<1>10. Typed(q)
  BY <1>1, <1>2, <1>5, <1>7, <1>9 DEF Typed, TxOp
<1>11. ASSUME LoneSound(tasks, p) PROVE LoneSound(tasks, q)
  <2>1. p.gone = {}
    BY <1>1, <1>11 DEF LoneSound, LoneRows
  <2>2. LoneRows(tasks, q)
    BY <1>1, <1>5, <1>6, <1>8, <2>1 DEF LoneRows
  <2>3. LoneSums(tasks, q)
    BY <1>5, <1>9 DEF LoneSums
  <2> QED
    BY <1>1, <1>5, <2>2, <2>3 DEF LoneSound
<1> QED
  BY <1>1, <1>2, <1>3, <1>5, <1>10, <1>11, Advances

\* The row goes; the places of the others are decided from what is left.
LEMMA DeleteLone ==
  ASSUME WritesCarry, LoneInv, NEW s \in Slot, Delete(s)
  PROVE  LoneInv'
<1> DEFINE p == inflight[s]
           q == inflight'[s]
           left == [j \in DOMAIN tasks \ {p.task} |-> tasks[j]]
           list == Rebalanced(left)
           to == { <<i, list[i].order>> : i \in Movers(left) }
           p1 == [p EXCEPT !.gone = {p.task}]
           p2 == [p1 EXCEPT !.to = to]
           p3 == [p2 EXCEPT !.step = "close"]
<1>1. /\ p.op = "remove" /\ p.step = "delete" /\ UNCHANGED <<tables, settled>>
      /\ RowList(tasks) /\ DOMAIN inflight = Slot
  BY DEF Delete, LoneInv, WritesCarry
<1>2. /\ p.op # "idle" /\ Typed(p)
      /\ {"op", "step", "rows", "gone", "seats", "holders", "task", "syncs", "sums", "total", "to",
          "alone"} \subseteq DOMAIN p
  BY <1>1, Fields DEF TxOp
<1>3. q = p3 /\ \A t \in Slot : t # s => inflight'[t] = inflight[t]
  BY <1>1 DEF Delete
<1>4. /\ p3.gone = {p.task} /\ p3.to = to /\ p3.step = "close" /\ DOMAIN p3 = DOMAIN p
      /\ \A f \in DOMAIN p : f \notin {"gone", "to", "step"} => p3[f] = p[f]
  BY <1>2
<1>5. RowList(left) /\ DOMAIN left = DOMAIN tasks \ {p.task}
  BY <1>1 DEF RowList
<1>6. RowList(list) /\ DOMAIN list = DOMAIN left /\ Contiguous(list)
  BY <1>5, RebalancedContiguous
<1>7. /\ \A m \in to : \E j \in DOMAIN list :
           m = <<j, list[j].order>> /\ list[j].order # tasks[j].order
      /\ \A j \in DOMAIN list : list[j].order # tasks[j].order => <<j, list[j].order>> \in to
  BY <1>5, <1>6 DEF Movers
<1> HIDE DEF p3, p2, p1, to, list, left
<1>8. \A j \in DOMAIN list : list[j].order \in 0 .. MaxTasks
  BY <1>6 DEF RowList, Row
<1>9. /\ to \subseteq (1 .. MaxTasks) \X (0 .. MaxTasks)
      /\ Contiguous(After(tasks, to, DOMAIN tasks \ {p.task}))
  <2>1. DOMAIN list = DOMAIN tasks \ {p.task} /\ DOMAIN list \subseteq DOMAIN tasks
    BY <1>5, <1>6
  <2>2. /\ to \subseteq (1 .. MaxTasks) \X (0 .. MaxTasks)
        /\ Contiguous(After(tasks, to, DOMAIN list))
    BY <1>1, <1>6, <1>7, <1>8, <2>1, AfterAs
  <2> QED
    BY <2>1, <2>2
<1>10. /\ q.op = p.op /\ q.alone = p.alone /\ q.rows = p.rows /\ q.syncs = p.syncs
       /\ q.sums = p.sums /\ q.seats = p.seats /\ q.gone = {p.task} /\ q.to = to
       /\ q.step = "close" /\ DOMAIN q = DOMAIN p
  BY <1>2, <1>3, <1>4
<1>11. Typed(q)
  BY <1>1, <1>2, <1>9, <1>10 DEF Typed, TxOp
<1>12. LoneSound(tasks, q)
  BY <1>1, <1>9, <1>10 DEF LoneSound, LoneRows, LoneSums
<1> QED
  BY <1>1, <1>2, <1>3, <1>10, <1>11, <1>12, Advances

\* The others take the places decided.
LEMMA CloseGapLone ==
  ASSUME WritesCarry, LoneInv, NEW s \in Slot, CloseGap(s)
  PROVE  LoneInv'
<1> DEFINE p == inflight[s]
           q == inflight'[s]
           named == { m[1] : m \in p.to }
           rows == Placed(p.to)
           p1 == [p EXCEPT !.rows = rows]
           p2 == [p1 EXCEPT !.step = "holders"]
<1>1. /\ p.op = "remove" /\ p.step = "close" /\ UNCHANGED <<tables, settled>>
      /\ RowList(tasks) /\ DOMAIN inflight = Slot
      /\ \A m \in p.to : m[1] \in DOMAIN tasks
  BY DEF CloseGap, LoneInv, WritesCarry
<1>2. /\ p.op # "idle" /\ Typed(p)
      /\ {"op", "step", "rows", "gone", "seats", "holders", "task", "syncs", "sums", "total", "to",
          "alone"} \subseteq DOMAIN p
  BY <1>1, Fields DEF TxOp
<1>3. q = p2 /\ \A t \in Slot : t # s => inflight'[t] = inflight[t]
  BY <1>1 DEF CloseGap
<1>4. /\ p2.rows = rows /\ p2.step = "holders" /\ DOMAIN p2 = DOMAIN p
      /\ \A f \in DOMAIN p : f \notin {"rows", "step"} => p2[f] = p[f]
  BY <1>2
<1>5. named \subseteq DOMAIN tasks
  BY <1>1
<1>6. rows = After(tasks, p.to, named)
  BY DEF Placed, After, Moved
<1>7. p.to \subseteq (1 .. MaxTasks) \X (0 .. MaxTasks)
  BY <1>1, <1>2 DEF Typed
<1>8. RowList(rows)
  BY <1>1, <1>5, <1>6, <1>7, AfterTyped
<1> HIDE DEF p2, p1
<1>9. /\ q.op = p.op /\ q.alone = p.alone /\ q.rows = rows /\ q.syncs = p.syncs
      /\ q.sums = p.sums /\ q.seats = p.seats /\ q.gone = p.gone /\ q.to = p.to
      /\ q.step = "holders" /\ DOMAIN q = DOMAIN p
  BY <1>2, <1>3, <1>4
<1>10. Typed(q)
  BY <1>1, <1>2, <1>7, <1>8, <1>9 DEF Typed, TxOp
<1>11. AsSeen(tasks, q) = After(tasks, p.to, DOMAIN tasks \ p.gone)
  BY <1>5, <1>9 DEF AsSeen, After, Placed, Moved
<1>12. LoneSound(tasks, p) => LoneSound(tasks, q)
  BY <1>1, <1>9, <1>11 DEF LoneSound, LoneRows, LoneSums
<1> QED
  BY <1>1, <1>2, <1>3, <1>9, <1>10, <1>12, Advances

\* A statement that sets one field of its request, and what comes next.
LEMMA OneField ==
  ASSUME WritesCarry, LoneInv, NEW s \in Slot, "step" \in DOMAIN inflight[s],
         NEW f \in { "holders", "seats", "total" },
         DOMAIN inflight'[s] = DOMAIN inflight[s],
         \A g \in DOMAIN inflight[s] : g # f /\ g # "step" => inflight'[s][g] = inflight[s][g]
  PROVE  /\ \A g \in { "holders", "seats", "total" } : g # f => inflight'[s][g] = inflight[s][g]
         /\ \A g \in { "op", "task", "syncs", "sums", "to", "rows", "gone", "alone" } :
              inflight'[s][g] = inflight[s][g]
         /\ AsSeen(tasks, inflight'[s]) = AsSeen(tasks, inflight[s])
<1> DEFINE p == inflight[s]
           q == inflight'[s]
<1>1. {"op", "step", "rows", "gone", "seats", "holders", "task", "syncs", "sums", "total", "to",
       "alone"} \subseteq DOMAIN p
  BY Fields
<1>2. /\ \A g \in { "op", "task", "syncs", "sums", "to", "rows", "gone", "alone" } : q[g] = p[g]
      /\ \A g \in { "holders", "seats", "total" } : g # f => q[g] = p[g]
  BY <1>1
<1>3. AsSeen(tasks, q) = AsSeen(tasks, p)
  BY <1>2 DEF AsSeen
<1> QED
  BY <1>2, <1>3

LEMMA ReadHoldersLone ==
  ASSUME WritesCarry, LoneInv, NEW s \in Slot, ReadHolders(s)
  PROVE  LoneInv'
<1> DEFINE p == inflight[s]
           q == inflight'[s]
           p1 == [p EXCEPT !.holders = HoldersSeen(s)]
           p2 == [p1 EXCEPT !.step = "reconcile"]
<1>1. /\ "step" \in DOMAIN p /\ p.step = "holders" /\ UNCHANGED <<tables, settled>>
      /\ inflight' = [inflight EXCEPT ![s] = p2]
  BY DEF ReadHolders, In
<1>2. p.op \in TxOp /\ Typed(p) /\ SeenTasks(s) = AsSeen(tasks, p)
  BY <1>1, Fields
<1>3. p.syncs
  BY <1>1, <1>2 DEF Typed
<1>4. /\ \A t \in Slot : t # s => inflight'[t] = inflight[t]
      /\ DOMAIN q = DOMAIN p /\ q.holders = HoldersSeen(s) /\ q.step = "reconcile"
      /\ \A g \in { "holders", "seats", "total" } : g # "holders" => q[g] = p[g]
      /\ \A g \in { "op", "task", "syncs", "sums", "to", "rows", "gone", "alone" } : q[g] = p[g]
      /\ AsSeen(tasks, q) = AsSeen(tasks, p)
  <2>1. /\ DOMAIN p1 = DOMAIN p /\ p1.holders = HoldersSeen(s)
        /\ \A g \in DOMAIN p : g # "holders" => p1[g] = p[g]
    BY <1>2
  <2> HIDE DEF p1
  <2>2. /\ DOMAIN p2 = DOMAIN p /\ p2.holders = HoldersSeen(s) /\ p2.step = "reconcile"
        /\ \A g \in DOMAIN p : g # "holders" /\ g # "step" => p2[g] = p[g]
    BY <1>1, <1>2, <2>1
  <2> HIDE DEF p2
  <2>3. q = p2 /\ \A t \in Slot : t # s => inflight'[t] = inflight[t]
    BY <1>1, <1>2 DEF WritesCarry
  <2>4. /\ DOMAIN q = DOMAIN p
        /\ \A g \in DOMAIN p : g # "holders" /\ g # "step" => q[g] = p[g]
    BY <2>2, <2>3
  <2>5. /\ \A g \in { "holders", "seats", "total" } : g # "holders" => q[g] = p[g]
        /\ \A g \in { "op", "task", "syncs", "sums", "to", "rows", "gone", "alone" } : q[g] = p[g]
        /\ AsSeen(tasks, q) = AsSeen(tasks, p)
    BY <1>1, <2>4, OneField
  <2> QED
    BY <2>2, <2>3, <2>4, <2>5
<1> HIDE DEF p1, p2
<1>5. q.holders = Hold(AsSeen(tasks, q))
  BY <1>2, <1>4 DEF HoldersSeen
<1>6. LoneSums(tasks, q)
  BY <1>4, <1>5 DEF LoneSums
<1> QED
  BY <1>1, <1>3, <1>4, <1>6, GoesOn

LEMMA ReconcileLone ==
  ASSUME WritesInv, LoneInv, NEW s \in Slot, Reconcile(s)
  PROVE  LoneInv'
<1> DEFINE p == inflight[s]
           q == inflight'[s]
           seats == [d \in p.holders \cup Retired(p.holders) |->
                       [roster[d] EXCEPT !.active = d \in p.holders]]
           p1 == [p EXCEPT !.seats = seats]
           p2 == [p1 EXCEPT !.step = "leads"]
<1>1. /\ "step" \in DOMAIN p /\ p.step = "reconcile" /\ UNCHANGED <<tables, settled>>
      /\ inflight' = [inflight EXCEPT ![s] = p2]
      /\ WritesCarry /\ roster \in [User -> Seat]
  BY DEF Reconcile, In, WritesInv, LeadInv
<1>2. p.op \in TxOp /\ Typed(p) /\ Carries(p) /\ "holders" \in DOMAIN p
  BY <1>1, Fields
<1>3. p.syncs
  BY <1>1, <1>2 DEF Typed
<1>4. ASSUME NEW d \in p.holders PROVE d \in DOMAIN seats /\ seats[d].active
  <2>1. d \in User
    BY <1>2 DEF Carries, TxOp
  <2>2. seats[d] = [roster[d] EXCEPT !.active = d \in p.holders] /\ roster[d] \in Seat
    BY <1>1, <2>1
  <2> QED
    BY <2>2 DEF Seat
<1> HIDE DEF seats
<1>5. /\ \A t \in Slot : t # s => inflight'[t] = inflight[t]
      /\ DOMAIN q = DOMAIN p /\ q.seats = seats /\ q.step = "leads"
      /\ \A g \in { "holders", "seats", "total" } : g # "seats" => q[g] = p[g]
      /\ \A g \in { "op", "task", "syncs", "sums", "to", "rows", "gone", "alone" } : q[g] = p[g]
      /\ AsSeen(tasks, q) = AsSeen(tasks, p)
  <2>1. /\ DOMAIN p1 = DOMAIN p /\ p1.seats = seats
        /\ \A g \in DOMAIN p : g # "seats" => p1[g] = p[g]
    BY <1>2
  <2> HIDE DEF p1
  <2>2. /\ DOMAIN p2 = DOMAIN p /\ p2.seats = seats /\ p2.step = "leads"
        /\ \A g \in DOMAIN p : g # "seats" /\ g # "step" => p2[g] = p[g]
    BY <1>1, <1>2, <2>1
  <2> HIDE DEF p2
  <2>3. q = p2 /\ \A t \in Slot : t # s => inflight'[t] = inflight[t]
    BY <1>1, <1>2 DEF WritesCarry
  <2>4. /\ DOMAIN q = DOMAIN p
        /\ \A g \in DOMAIN p : g # "seats" /\ g # "step" => q[g] = p[g]
    BY <2>2, <2>3
  <2>5. /\ \A g \in { "holders", "seats", "total" } : g # "seats" => q[g] = p[g]
        /\ \A g \in { "op", "task", "syncs", "sums", "to", "rows", "gone", "alone" } : q[g] = p[g]
        /\ AsSeen(tasks, q) = AsSeen(tasks, p)
    BY <1>1, <2>4, OneField
  <2> QED
    BY <2>2, <2>3, <2>4, <2>5
<1> HIDE DEF p1, p2
<1>6. LoneSums(tasks, p) => LoneSums(tasks, q)
  BY <1>1, <1>4, <1>5 DEF LoneSums
<1> QED
  BY <1>1, <1>3, <1>5, <1>6, GoesOn

LEMMA CountLeadsLone ==
  ASSUME WritesCarry, LoneInv, NEW s \in Slot, CountLeads(s)
  PROVE  LoneInv'
<1> DEFINE p == inflight[s]
           q == inflight'[s]
           w == IF Leads(SeenRoster(s)) = {} /\ p.holders # {} THEN "promote" ELSE AfterSync(p)
           p1 == [p EXCEPT !.step = w]
<1>1. /\ "step" \in DOMAIN p /\ p.step = "leads" /\ UNCHANGED <<tables, settled>>
      /\ inflight' = [inflight EXCEPT ![s].step = w]
  BY DEF CountLeads, GoTo, In
<1>2. /\ p.op \in TxOp /\ Typed(p)
      /\ {"op", "step", "rows", "gone", "seats", "holders", "task", "syncs", "sums", "total", "to",
          "alone"} \subseteq DOMAIN p
  BY <1>1, Fields
<1>3. p.syncs
  BY <1>1, <1>2 DEF Typed
<1>4. q = p1 /\ \A t \in Slot : t # s => inflight'[t] = inflight[t]
  BY <1>1 DEF WritesCarry
<1>5. DOMAIN p1 = DOMAIN p /\ p1.step = w /\ \A g \in DOMAIN p : g # "step" => p1[g] = p[g]
  BY <1>2
<1>6. w \in { "promote", "sum", "commit" } /\ (w = "commit" => ~p.sums)
  BY DEF AfterSync
<1> HIDE DEF p1, w
<1>7. /\ DOMAIN q = DOMAIN p /\ q.step = w
      /\ q.holders = p.holders /\ q.seats = p.seats /\ q.total = p.total
      /\ \A g \in { "op", "task", "syncs", "sums", "to", "rows", "gone", "alone" } : q[g] = p[g]
  BY <1>2, <1>4, <1>5
<1>8. AsSeen(tasks, q) = AsSeen(tasks, p)
  BY <1>7 DEF AsSeen
<1>9. LoneSums(tasks, p) => LoneSums(tasks, q)
  BY <1>1, <1>6, <1>7, <1>8 DEF LoneSums
<1> QED
  BY <1>1, <1>3, <1>4, <1>6, <1>7, <1>9, GoesOn

\* Handing the lead over takes no holder off the roster.
LEMMA PromoteLone ==
  ASSUME WritesInv, LoneInv, NEW s \in Slot, Promote(s)
  PROVE  LoneInv'
<1> DEFINE p == inflight[s]
           q == inflight'[s]
           seen == SeenRoster(s)
<1>1. /\ "step" \in DOMAIN p /\ p.step = "promote" /\ UNCHANGED <<tables, settled>>
      /\ WritesCarry /\ roster \in [User -> Seat] /\ RowsHeld(HeldSeats)
  BY DEF Promote, In, WritesInv, LeadInv
<1>2. /\ p.op \in TxOp /\ Typed(p) /\ Carries(p)
      /\ {"op", "step", "rows", "gone", "seats", "holders", "task", "syncs", "sums", "total", "to",
          "alone"} \subseteq DOMAIN p
  BY <1>1, Fields
<1>3. p.syncs /\ p.holders \subseteq User
  BY <1>1, <1>2 DEF Typed, Carries, TxOp
<1>4. PICK x \in p.holders :
        inflight' = [inflight EXCEPT
          ![s].seats = [e \in DOMAIN @ \cup DOMAIN Handed(seen, x) |->
                          IF e \in DOMAIN Handed(seen, x) THEN Handed(seen, x)[e] ELSE @[e]],
          ![s].step = AfterSync(p)]
  BY DEF Promote
<1> DEFINE made == Handed(seen, x)
           seats == [e \in DOMAIN p.seats \cup DOMAIN made |->
                       IF e \in DOMAIN made THEN made[e] ELSE p.seats[e]]
           p1 == [p EXCEPT !.seats = seats]
           p2 == [p1 EXCEPT !.step = AfterSync(p)]
<1>5. inflight' = [inflight EXCEPT ![s] = p2]
  BY <1>2, <1>4
<1>6. ASSUME NEW d \in p.holders, d \in DOMAIN p.seats, p.seats[d].active
      PROVE  d \in DOMAIN seats /\ seats[d].active
  <2>1. d \in User
    BY <1>3
  <2>2. seen[d] = p.seats[d] /\ p.seats[d] \in Seat
    BY <1>1, <1>2, <1>6, <2>1 DEF SeenRoster, Seats, RowsHeld, HeldSeats
  <2>3. CASE d \in DOMAIN made
    <3>1. made[d] = IF d = x THEN [active |-> TRUE, lead |-> TRUE]
                             ELSE [seen[d] EXCEPT !.lead = FALSE]
      BY <2>3 DEF Handed
    <3>2. made[d].active
      BY <1>6, <2>2, <3>1 DEF Seat
    <3> QED
      BY <2>3, <3>2
  <2>4. CASE d \notin DOMAIN made
    BY <1>6, <2>4
  <2> QED
    BY <2>3, <2>4
<1> HIDE DEF seats, made, seen
<1>7. AfterSync(p) \in { "sum", "commit" } /\ (AfterSync(p) = "commit" => ~p.sums)
  BY DEF AfterSync
<1>8. /\ \A t \in Slot : t # s => inflight'[t] = inflight[t]
      /\ DOMAIN q = DOMAIN p /\ q.seats = seats /\ q.step = AfterSync(p)
      /\ \A g \in { "holders", "seats", "total" } : g # "seats" => q[g] = p[g]
      /\ \A g \in { "op", "task", "syncs", "sums", "to", "rows", "gone", "alone" } : q[g] = p[g]
      /\ AsSeen(tasks, q) = AsSeen(tasks, p)
  <2>1. /\ DOMAIN p1 = DOMAIN p /\ p1.seats = seats
        /\ \A g \in DOMAIN p : g # "seats" => p1[g] = p[g]
    BY <1>2
  <2> HIDE DEF p1
  <2>2. /\ DOMAIN p2 = DOMAIN p /\ p2.seats = seats /\ p2.step = AfterSync(p)
        /\ \A g \in DOMAIN p : g # "seats" /\ g # "step" => p2[g] = p[g]
    BY <1>1, <1>2, <2>1
  <2> HIDE DEF p2
  <2>3. q = p2 /\ \A t \in Slot : t # s => inflight'[t] = inflight[t]
    BY <1>1, <1>2, <1>5 DEF WritesCarry
  <2>4. /\ DOMAIN q = DOMAIN p
        /\ \A g \in DOMAIN p : g # "seats" /\ g # "step" => q[g] = p[g]
    BY <2>2, <2>3
  <2>5. /\ \A g \in { "holders", "seats", "total" } : g # "seats" => q[g] = p[g]
        /\ \A g \in { "op", "task", "syncs", "sums", "to", "rows", "gone", "alone" } : q[g] = p[g]
        /\ AsSeen(tasks, q) = AsSeen(tasks, p)
    BY <1>1, <2>4, OneField
  <2> QED
    BY <2>2, <2>3, <2>4, <2>5
<1> HIDE DEF p1, p2
<1>9. LoneSums(tasks, p) => LoneSums(tasks, q)
  BY <1>1, <1>6, <1>7, <1>8 DEF LoneSums
<1> QED
  BY <1>1, <1>3, <1>7, <1>8, <1>9, GoesOn

LEMMA SumUpLone ==
  ASSUME WritesCarry, LoneInv, NEW s \in Slot, SumUp(s)
  PROVE  LoneInv'
<1> DEFINE p == inflight[s]
           q == inflight'[s]
           p1 == [p EXCEPT !.total = Sum(SeenTasks(s))]
           p2 == [p1 EXCEPT !.step = "commit"]
<1>1. /\ "step" \in DOMAIN p /\ p.step = "sum" /\ UNCHANGED <<tables, settled>>
      /\ inflight' = [inflight EXCEPT ![s] = p2]
  BY DEF SumUp, In
<1>2. /\ p.op \in TxOp /\ SeenTasks(s) = AsSeen(tasks, p)
      /\ {"seats", "holders"} \subseteq DOMAIN p
  BY <1>1, Fields
<1>3. /\ \A t \in Slot : t # s => inflight'[t] = inflight[t]
      /\ DOMAIN q = DOMAIN p /\ q.total = Sum(SeenTasks(s)) /\ q.step = "commit"
      /\ \A g \in { "holders", "seats", "total" } : g # "total" => q[g] = p[g]
      /\ \A g \in { "op", "task", "syncs", "sums", "to", "rows", "gone", "alone" } : q[g] = p[g]
      /\ AsSeen(tasks, q) = AsSeen(tasks, p)
  <2>1. /\ DOMAIN p1 = DOMAIN p /\ p1.total = Sum(SeenTasks(s))
        /\ \A g \in DOMAIN p : g # "total" => p1[g] = p[g]
    BY <1>2
  <2> HIDE DEF p1
  <2>2. /\ DOMAIN p2 = DOMAIN p /\ p2.total = Sum(SeenTasks(s)) /\ p2.step = "commit"
        /\ \A g \in DOMAIN p : g # "total" /\ g # "step" => p2[g] = p[g]
    BY <1>1, <1>2, <2>1
  <2> HIDE DEF p2
  <2>3. q = p2 /\ \A t \in Slot : t # s => inflight'[t] = inflight[t]
    BY <1>1, <1>2 DEF WritesCarry
  <2>4. /\ DOMAIN q = DOMAIN p
        /\ \A g \in DOMAIN p : g # "total" /\ g # "step" => q[g] = p[g]
    BY <2>2, <2>3
  <2>5. /\ \A g \in { "holders", "seats", "total" } : g # "total" => q[g] = p[g]
        /\ \A g \in { "op", "task", "syncs", "sums", "to", "rows", "gone", "alone" } : q[g] = p[g]
        /\ AsSeen(tasks, q) = AsSeen(tasks, p)
    BY <1>1, <2>4, OneField
  <2> QED
    BY <2>2, <2>3, <2>4, <2>5
<1> HIDE DEF p1, p2
<1>4. LoneSums(tasks, p) => LoneSums(tasks, q)
  BY <1>1, <1>2, <1>3 DEF LoneSums
<1> QED
  BY <1>1, <1>3, <1>4, GoesOn

-----------------------------------------------------------------------------
(* The requests, as they end                                               *)

\* The sum is of the estimates, row by row.
LEMMA SameSum ==
  ASSUME NEW list, NEW new, DOMAIN new = DOMAIN list,
         \A i \in DOMAIN list : new[i].hours = list[i].hours
  PROVE  Sum(new) = Sum(list)
<1>1. [i \in DOMAIN new |-> new[i].hours] = [i \in DOMAIN list |-> list[i].hours]
  OBVIOUS
<1> QED
  BY <1>1 DEF Sum

LEMMA EmptySum ==
  ASSUME NEW list, DOMAIN list = {}
  PROVE  Sum(list) = 0
<1> DEFINE f == [i \in DOMAIN list |-> list[i].hours]
           iter[S \in SUBSET DOMAIN f] ==
             IF S = {} THEN 0 ELSE LET x == CHOOSE x \in S : TRUE IN f[x] + iter[S \ {x}]
<1>1. Sum(list) = iter[DOMAIN f]
  BY DEF Sum, FoldFunction, FoldFunctionOnSet, MapThenFoldSet
<1> QED
  BY <1>1

\* What a lone transaction commits is in step where it recomputed, and where it was.
LEMMA CommitLone ==
  ASSUME WritesInv, LoneInv, NEW s \in Slot, Commit(s)
  PROVE  LoneInv'
<1> DEFINE p == inflight[s]
           new == AsSeen(tasks, p)
<1>1. /\ "step" \in DOMAIN p /\ p.step = "commit" /\ inflight' = [inflight EXCEPT ![s] = Idle]
      /\ roster' = SeenRoster(s) /\ total' = (IF p.sums THEN p.total ELSE total)
      /\ settled' = (IF p.alone THEN settled \cup Recomputed(p) ELSE {})
      /\ WritesCarry /\ RowList(tasks) /\ LoneWritesRepair /\ tasks' = SeenTasks(s)
  BY DEF Commit, In, Ended, WritesInv, LoneInv
<1>2. /\ p.op \in TxOp /\ p.op # "idle" /\ Typed(p) /\ Carries(p) /\ RowList(p.rows)
      /\ SeenTasks(s) = new
      /\ {"op", "step", "rows", "gone", "seats", "holders", "task", "syncs", "sums", "total", "to",
          "alone"} \subseteq DOMAIN p
  BY <1>1, Fields
<1>3. tasks' = new /\ RowList(new)
  BY <1>1, <1>2, SeenTyped
<1>4. ASSUME p.alone PROVE LoneRows(tasks, p) /\ LoneSums(tasks, p)
  BY <1>2, <1>4 DEF Alone, LoneInv, LoneSound
<1>5. p.op # "update" => p.syncs /\ p.sums
  BY <1>2 DEF Typed
<1>6. ASSUME p.alone, p.op = "update"
      PROVE  /\ DOMAIN new = DOMAIN tasks
             /\ \A i \in DOMAIN tasks :
                  /\ new[i].order = tasks[i].order
                  /\ ~p.syncs => new[i].holder = tasks[i].holder
                  /\ ~p.sums => new[i].hours = tasks[i].hours
  BY <1>4, <1>6 DEF LoneRows, AsSeen
<1>7. ASSUME p.alone, "roster" \in settled', NEW d \in Hold(new) PROVE roster'[d].active
  <2>1. d \in User
    BY <1>3 DEF Hold, RowList, Row
  <2>2. roster'[d] = IF d \in DOMAIN p.seats THEN p.seats[d] ELSE roster[d]
    BY <1>1, <1>2, <2>1 DEF SeenRoster, Seats
  <2>3. CASE p.syncs
    <3>1. d \in DOMAIN p.seats /\ p.seats[d].active
      BY <1>1, <1>2, <1>4, <1>7, <2>3 DEF LoneSums
    <3> QED
      BY <2>2, <3>1
  <2>4. CASE ~p.syncs
    <3>1. "roster" \in settled /\ d \notin DOMAIN p.seats
      BY <1>1, <1>2, <1>7, <2>4 DEF Recomputed, Typed
    <3>2. d \in Hold(tasks)
      BY <1>5, <1>6, <1>7, <2>4 DEF Hold
    <3> QED
      BY <1>1, <2>2, <3>1, <3>2 DEF LoneWritesRepair
  <2> QED
    BY <2>3, <2>4
<1>8. ASSUME p.alone, "total" \in settled' PROVE total' = Sum(new)
  <2>1. CASE p.sums
    BY <1>1, <1>2, <1>4, <1>8, <2>1 DEF LoneSums
  <2>2. CASE ~p.sums
    <3>1. "total" \in settled /\ total' = total
      BY <1>1, <1>8, <2>2 DEF Recomputed
    <3>2. Sum(new) = Sum(tasks)
      BY <1>5, <1>6, <1>8, <2>2, SameSum
    <3> QED
      BY <1>1, <3>1, <3>2 DEF LoneWritesRepair
  <2> QED
    BY <2>1, <2>2
<1>9. ASSUME p.alone, "order" \in settled' PROVE Contiguous(new)
  <2>1. CASE p.op = "remove"
    BY <1>1, <1>4, <1>9, <2>1 DEF LoneRows
  <2>2. CASE p.op # "remove"
    <3>1. "order" \in settled
      BY <1>1, <1>9, <2>2 DEF Recomputed
    <3>2. Contiguous(tasks)
      BY <1>1, <3>1 DEF LoneWritesRepair
    <3>3. CASE p.op = "update"
      BY <1>6, <1>9, <3>2, <3>3, SameOrders
    <3>4. CASE p.op = "create"
      <4>1. PICK i \in 1 .. MaxTasks :
              /\ DOMAIN p.rows = {i} /\ i \notin DOMAIN tasks /\ p.gone = {}
              /\ p.rows[i].order = Cardinality(DOMAIN tasks)
        BY <1>4, <1>9, <3>4 DEF LoneRows
      <4>2. /\ DOMAIN new = DOMAIN tasks \cup {i} /\ new[i] = p.rows[i]
            /\ \A j \in DOMAIN tasks : new[j] = tasks[j]
        BY <4>1 DEF AsSeen
      <4> QED
        BY <1>1, <3>2, <4>1, <4>2, AppendedContiguous
    <3> QED
      BY <1>2, <2>2, <3>3, <3>4 DEF TxOp
  <2> QED
    BY <2>1, <2>2
<1>10. LoneWritesRepair'
  <2>1. CASE p.alone
    BY <1>3, <1>7, <1>8, <1>9, <2>1 DEF LoneWritesRepair
  <2>2. CASE ~p.alone
    BY <1>1, <2>2 DEF LoneWritesRepair
  <2> QED
    BY <2>1, <2>2
<1> QED
  BY <1>1, <1>2, <1>3, <1>10, Finishes

LEMMA AbortLone ==
  ASSUME WritesCarry, LoneInv, NEW s \in Slot, Abort(s)
  PROVE  LoneInv'
<1>1. /\ inflight[s] # Idle /\ inflight' = [inflight EXCEPT ![s] = Idle]
      /\ UNCHANGED <<tasks, roster, total, settled>>
      /\ RowList(tasks) /\ LoneWritesRepair /\ Typed(inflight[s])
  BY DEF Abort, LoneInv, tables
<1>2. inflight[s].op # "idle"
  BY <1>1 DEF Typed
<1>3. LoneWritesRepair' /\ RowList(tasks')
  BY <1>1 DEF LoneWritesRepair
<1> QED
  BY <1>1, <1>2, <1>3, Finishes

LEMMA WriteReorderLone ==
  ASSUME WritesCarry, LoneInv, NEW s \in Slot, WriteReorder(s)
  PROVE  LoneInv'
<1> DEFINE p == inflight[s]
           new == After(tasks, p.to, DOMAIN tasks)
<1>1. /\ p.op = "reorder" /\ inflight' = [inflight EXCEPT ![s] = Idle]
      /\ settled' = (IF p.alone THEN settled \cup {"order"} ELSE {})
      /\ UNCHANGED <<roster, total>> /\ RowList(tasks) /\ Typed(p) /\ LoneWritesRepair
      /\ tasks' = [i \in DOMAIN tasks |->
           IF i \in DOMAIN Placed(p.to) THEN Placed(p.to)[i] ELSE tasks[i]]
  BY DEF WriteReorder, Ended, LoneInv
<1>2. tasks' = new
  BY <1>1 DEF After, Placed, Moved
<1>3. p.to \subseteq (1 .. MaxTasks) \X (0 .. MaxTasks)
  BY <1>1 DEF Typed
<1>4. /\ RowList(new) /\ DOMAIN new = DOMAIN tasks
      /\ \A i \in DOMAIN tasks : new[i].holder = tasks[i].holder /\ new[i].hours = tasks[i].hours
  BY <1>1, <1>3, AfterTyped
<1>5. p.alone => Contiguous(new)
  BY <1>1 DEF Alone, LoneInv, LoneSound
<1> HIDE DEF new
<1>6. Hold(new) = Hold(tasks) /\ Sum(new) = Sum(tasks)
  BY <1>4, SameSum DEF Hold
<1>7. LoneWritesRepair'
  <2>1. CASE p.alone
    BY <1>1, <1>2, <1>5, <1>6, <2>1 DEF LoneWritesRepair
  <2>2. CASE ~p.alone
    BY <1>1, <2>2 DEF LoneWritesRepair
  <2> QED
    BY <2>1, <2>2
<1> QED
  BY <1>1, <1>2, <1>4, <1>7, Finishes

\* A write to the roster alone keeps what was in step if it retires no holder.
LEMMA RosterWriteLone ==
  ASSUME WritesCarry, LoneInv, NEW s \in Slot, inflight[s].op # "idle", Ended(s, {}),
         UNCHANGED <<tasks, total>>,
         inflight[s].alone => \A d \in Hold(tasks) : roster[d].active => roster'[d].active
  PROVE  LoneInv'
<1>1. /\ inflight' = [inflight EXCEPT ![s] = Idle]
      /\ settled' = (IF inflight[s].alone THEN settled ELSE {})
      /\ RowList(tasks') /\ LoneWritesRepair
  BY DEF Ended, LoneInv
<1>2. LoneWritesRepair'
  BY <1>1 DEF LoneWritesRepair
<1> QED
  BY <1>1, <1>2, Finishes

LEMMA RosterWritesLone ==
  ASSUME WritesInv, LoneInv, NEW s \in Slot, WriteJoin(s) \/ WriteLeave(s) \/ WriteHandOver(s)
  PROVE  LoneInv'
<1> DEFINE p == inflight[s]
           d == p.user
<1>1. /\ WritesCarry /\ roster \in [User -> Seat] /\ Ended(s, {}) /\ UNCHANGED <<tasks, total>>
      /\ p.op \in { "join", "leave", "lead" } /\ RowList(tasks)
  BY DEF WritesInv, LeadInv, LoneInv, WriteJoin, WriteLeave, WriteHandOver
<1>2. Hold(tasks) \subseteq User
  BY <1>1 DEF Hold, RowList, Row
<1>3. ASSUME NEW e \in Hold(tasks), roster[e].active, p.alone PROVE roster'[e].active
  <2>1. e \in User /\ roster[e] \in Seat
    BY <1>1, <1>2
  <2>2. CASE WriteJoin(s)
    <3>1. roster' = [roster EXCEPT ![d] = [active |-> TRUE, lead |-> @.lead \/ p.leads]]
      BY <2>2 DEF WriteJoin
    <3> QED
      BY <1>1, <1>3, <2>1, <3>1
  <2>3. CASE WriteLeave(s)
    <3>1. p.op = "leave" /\ roster' = [roster EXCEPT ![d] = [active |-> FALSE, lead |-> FALSE]]
      BY <2>3 DEF WriteLeave
    <3>2. e # d
      BY <1>3, <3>1 DEF Alone, LoneInv, LoneSound
    <3> QED
      BY <1>1, <1>3, <2>1, <3>1, <3>2
  <2>4. CASE WriteHandOver(s)
    <3> DEFINE made == Handed(roster, d)
    <3>1. roster'[e] = IF e \in DOMAIN made THEN made[e] ELSE roster[e]
      BY <2>1, <2>4 DEF WriteHandOver
    <3>2. e \in DOMAIN made => made[e] = IF e = d THEN [active |-> TRUE, lead |-> TRUE]
                                                  ELSE [roster[e] EXCEPT !.lead = FALSE]
      BY DEF Handed
    <3> HIDE DEF made
    <3> QED
      BY <1>3, <2>1, <3>1, <3>2 DEF Seat
  <2> QED
    BY <2>2, <2>3, <2>4
<1>4. p.op # "idle"
  BY <1>1
<1> QED
  BY <1>1, <1>3, <1>4, RosterWriteLone

-----------------------------------------------------------------------------
LEMMA LoneInit == WritesInit => LoneInv
<1> SUFFICES ASSUME WritesInit PROVE LoneInv
  OBVIOUS
<1>1. /\ \A s \in Slot : inflight[s] = Idle
      /\ tasks = [i \in {} |-> {}] /\ DOMAIN tasks = {} /\ total = 0
  BY DEF WritesInit
<1>2. Idle.op = "idle" /\ Typed(Idle)
  BY DEF Idle, Typed, TxOp
<1>3. RowList(tasks) /\ Hold(tasks) = {}
  BY <1>1 DEF RowList, Hold
<1>4. total = Sum(tasks)
  BY <1>1, EmptySum
<1>5. Contiguous(tasks)
  <2>1. Cardinality(DOMAIN tasks) = 0
    BY <1>1, FS_EmptySet
  <2>2. { tasks[i].order : i \in DOMAIN tasks } = {} /\ 0 .. 0 - 1 = {}
    BY <1>1
  <2> QED
    BY <2>1, <2>2 DEF Contiguous, LastPlace
<1>6. LoneWritesRepair
  BY <1>3, <1>4, <1>5 DEF LoneWritesRepair
<1>7. \A s \in Slot : ~Alone(s)
  BY <1>1, <1>2 DEF Alone
<1> QED
  BY <1>1, <1>2, <1>3, <1>6, <1>7 DEF LoneInv

LEMMA LoneNext ==
  ASSUME WritesInv, LoneInv, [WritesNext]_vars
  PROVE  LoneInv'
<1>0. WritesCarry
  BY DEF WritesInv
<1>1. CASE UNCHANGED vars
  <2>1. UNCHANGED <<tasks, roster, total, inflight, settled>>
    BY <1>1 DEF vars, tables
  <2>2. LoneWritesRepair' /\ \A s \in Slot : Alone(s)' <=> Alone(s)
    BY <2>1 DEF LoneInv, LoneWritesRepair, Alone
  <2> QED
    BY <2>1, <2>2 DEF LoneInv
<1>2. CASE WritesNext
  <2>1. PICK s \in Slot : TaskWrite(s) \/ RosterWrite(s) \/ Reordering(s) \/ Abort(s)
    BY <1>2 DEF WritesNext
  <2>2. CASE TaskWrite(s)
    BY <1>0, <2>2, InsertLone, LoadRemoveLone, LoadUpdateLone, WriteUpdateLone, DeleteLone,
       CloseGapLone, ReadHoldersLone, ReconcileLone, CountLeadsLone, PromoteLone, SumUpLone,
       CommitLone DEF TaskWrite
  <2>3. CASE RosterWrite(s)
    BY <1>0, <2>3, RosterLoadsLone, RosterWritesLone DEF RosterWrite
  <2>4. CASE Reordering(s)
    <3>1. \A n \in 0 .. LastPlace(tasks) : n \in Nat
      OBVIOUS
    <3> QED
      BY <1>0, <2>4, <3>1, LoadReorderLone, WriteReorderLone DEF Reordering
  <2>5. CASE Abort(s)
    BY <1>0, <2>5, AbortLone
  <2> QED
    BY <2>1, <2>2, <2>3, <2>4, <2>5
<1> QED
  BY <1>1, <1>2

(***************************************************************************)
(* A write that overlapped no other leaves in step what it recomputed, and *)
(* lone writes keep it so: holders on the roster, the total the sum of the *)
(* estimates, positions contiguous.  It is what makes a later write repair *)
(* what overlapping ones got wrong (recompute, "the repair path", and the  *)
(* rebalance of a delete or a reorder).                                    *)
(***************************************************************************)
THEOREM LoneWritesKeepInStep == WritesSpec => []LoneWritesRepair
<1>1. WritesInit => WritesInv /\ LoneInv
  BY InitInv, LoneInit
<1>2. WritesInv /\ LoneInv /\ [WritesNext]_vars => WritesInv' /\ LoneInv'
  BY NextInv, LoneNext
<1>3. LoneInv => LoneWritesRepair
  BY DEF LoneInv
<1> QED
  BY <1>1, <1>2, <1>3, PTL DEF WritesSpec

-----------------------------------------------------------------------------
(***************************************************************************)
(* Lone requests as steps of TaskBoard.  Besides what it leaves in step, a *)
(* lone request is described by what TaskBoard would say of it: which row  *)
(* it makes, hands over or removes, and that the seats it has written so   *)
(* far are a roster the sync of TaskBoard passes through.                  *)
(***************************************************************************)
Told(r) == [ active |-> { d \in User : r[d].active }, lead |-> { d \in User : r[d].lead } ]

\* The row of a lone update or removal, and the holder the first names.
BoardRows(list, q) ==
  /\ q.op = "update" =>
       /\ q.task \in DOMAIN list
       /\ q.step # "write" => DOMAIN q.rows = {q.task}
       /\ q.syncs => \E d \in User :
            /\ d # list[q.task].holder
            /\ \A e \in User : <<"holder", e>> \in q.to <=> e = d
            /\ q.step # "write" => q.rows[q.task].holder = d
  /\ q.op = "remove" =>
       /\ q.task \in DOMAIN list
       /\ q.step # "delete" => q.gone = {q.task}
       /\ \A i \in DOMAIN q.rows : i \in DOMAIN list /\ q.rows[i].holder = list[i].holder

\* How far its sync has come.
BoardSeats(r, q) ==
  q.op \in TxOp =>
    /\ q.step \in { "write", "delete", "close", "holders", "reconcile" } => DOMAIN q.seats = {}
    /\ q.step \in { "leads", "promote" } =>
         Told(Over(r, q.seats)) = Board!Reconciled(Told(r), q.holders)
    /\ q.step = "promote" => Leads(Over(r, q.seats)) = {} /\ q.holders # {}
    /\ q.syncs /\ q.step \in { "sum", "commit" } =>
         Told(Over(r, q.seats)) \in Board!SyncFromTasks(Told(r), q.holders)

Whole(list, r, q) ==
  /\ BoardRows(list, q) /\ BoardSeats(r, q)
  /\ q.op = "join" => (q.leads <=> Leads(r) = {})
  /\ q.op = "leave" => r[q.user].active

\* Where there is one slot nothing ever overlaps.
OneSlot == \A s, t \in Slot : s = t

WholeInv ==
  /\ \A s \in Slot : Alone(s) => Whole(tasks, roster, inflight[s])
  /\ OneSlot => \A s \in Slot : inflight[s].op # "idle" => inflight[s].alone

-----------------------------------------------------------------------------
(* Rosters, as tables and as TaskBoard has them                            *)

LEMMA ToldLeads ==
  ASSUME NEW r
  PROVE  Board!ActiveLeads(Told(r)) = Leads(r)
BY DEF Board!ActiveLeads, Told, Leads

LEMMA ReconciledTold ==
  ASSUME NEW r \in [User -> Seat], NEW hs \in SUBSET User, NEW gone,
         gone = { d \in User : r[d].active /\ ~r[d].lead } \ hs
  PROVE  LET seats == [d \in hs \cup gone |-> [r[d] EXCEPT !.active = d \in hs]]
         IN  Told(Over(r, seats)) = Board!Reconciled(Told(r), hs)
<1> DEFINE seats == [d \in hs \cup gone |-> [r[d] EXCEPT !.active = d \in hs]]
           new == Over(r, seats)
<1>1. ASSUME NEW d \in User
      PROVE  /\ new[d].active <=> d \in hs \/ (r[d].active /\ r[d].lead)
             /\ new[d].lead <=> r[d].lead
  <2>1. r[d] \in Seat
    OBVIOUS
  <2>2. CASE d \in hs \cup gone
    <3>1. new[d] = [r[d] EXCEPT !.active = d \in hs]
      BY <2>2 DEF Over
    <3> QED
      BY <2>1, <2>2, <3>1 DEF Seat
  <2>3. CASE d \notin hs \cup gone
    <3>1. new[d] = r[d]
      BY <2>3 DEF Over
    <3> QED
      BY <2>3, <3>1
  <2> QED
    BY <2>2, <2>3
<1> HIDE DEF new, seats
<1>2. /\ { d \in User : new[d].active } = hs \cup (Told(r).active \cap Told(r).lead)
      /\ { d \in User : new[d].lead } = Told(r).lead
  BY <1>1 DEF Told
<1>3. Told(new) = Board!Reconciled(Told(r), hs)
  BY <1>2 DEF Told, Board!Reconciled, Board!ActiveLeads
<1> QED
  BY <1>3 DEF new, seats

LEMMA HandedTold ==
  ASSUME NEW r \in [User -> Seat], NEW x \in User
  PROVE  Told(Over(r, Handed(r, x))) = Board!SetLead(Told(r), x)
<1> DEFINE new == Over(r, Handed(r, x))
<1>1. ASSUME NEW d \in User
      PROVE  /\ new[d].active <=> d = x \/ r[d].active
             /\ new[d].lead <=> d = x
  <2>1. r[d] \in Seat
    OBVIOUS
  <2>2. CASE d = x
    <3>1. new[d] = [active |-> TRUE, lead |-> TRUE]
      BY <2>2 DEF Over, Handed
    <3> QED
      BY <2>2, <3>1
  <2>3. CASE d # x /\ r[d].lead
    <3>1. new[d] = [r[d] EXCEPT !.lead = FALSE]
      BY <2>3 DEF Over, Handed
    <3> QED
      BY <2>1, <2>3, <3>1 DEF Seat
  <2>4. CASE d # x /\ ~r[d].lead
    <3>1. new[d] = r[d]
      BY <2>4 DEF Over, Handed
    <3> QED
      BY <2>4, <3>1
  <2> QED
    BY <2>2, <2>3, <2>4
<1> HIDE DEF new
<1>2. /\ { d \in User : new[d].active } = Told(r).active \cup {x}
      /\ { d \in User : new[d].lead } = {x}
  BY <1>1 DEF Told
<1>3. Told(new) = Board!SetLead(Told(r), x)
  BY <1>2 DEF Told, Board!SetLead
<1> QED
  BY <1>3 DEF new

-----------------------------------------------------------------------------
(* Beginning, going on, ending, as TaskBoard sees it                       *)

\* Nothing ends and no table moves.
Quiet ==
  /\ UNCHANGED <<tasks, roster>>
  /\ \A u \in Slot : inflight[u] # Idle => inflight'[u] # Idle

\* One request ends; a lone one has been a step of TaskBoard or none.
EndsAs(s) ==
  /\ inflight[s].op # "idle"
  /\ \A u \in Slot : u # s => inflight'[u] = inflight[u]
  /\ inflight[s].alone => [Board!BoardNext]_(Board!boardVars)

LEMMA WholeButAlone ==
  ASSUME NEW p, NEW q, DOMAIN q = DOMAIN p, \A f \in DOMAIN p : f # "alone" => q[f] = p[f],
         Carries(p), Typed(p), p.op = "join" => "leads" \in DOMAIN p, NEW list, NEW r,
         Whole(list, r, p)
  PROVE  Whole(list, r, q)
<1>1. q.op = p.op
  BY DEF Carries
<1>2. p.op \in TxOp =>
        /\ q.rows = p.rows /\ q.step = p.step /\ q.gone = p.gone /\ q.seats = p.seats
        /\ q.holders = p.holders /\ q.task = p.task /\ q.syncs = p.syncs /\ q.to = p.to
  BY DEF Carries, Typed, TxOp
<1>3. /\ p.op = "leave" => q.user = p.user
      /\ p.op = "join" => q.leads = p.leads
  BY DEF Carries
<1>4. BoardRows(list, q)
  BY <1>1, <1>2 DEF Whole, BoardRows, TxOp
<1>5. BoardSeats(r, q)
  BY <1>1, <1>2 DEF Whole, BoardSeats
<1> QED
  BY <1>1, <1>3, <1>4, <1>5 DEF Whole

LEMMA WholeBegins ==
  ASSUME WritesCarry, LoneInv, LoneInv', NEW s \in Slot, NEW q, Start(s, q), Carries(q), Typed(q),
         q.op # "idle", q.op = "join" => "leads" \in DOMAIN q, UNCHANGED <<tables, settled>>,
         Whole(tasks, roster, q)
  PROVE  WholeInv' /\ Quiet
<1>1. /\ DOMAIN inflight' = Slot /\ inflight[s] = Idle
      /\ inflight'[s] = [q EXCEPT !.alone = Others(s) = {}]
      /\ \A t \in Slot : t # s =>
           inflight'[t] = IF t \in Others(s) THEN [inflight[t] EXCEPT !.alone = FALSE] ELSE Idle
  BY DEF Start
<1>2. /\ \A t \in Slot : Carries(inflight[t]) /\ Typed(inflight[t])
      /\ "alone" \in DOMAIN q /\ tasks' = tasks /\ roster' = roster
  BY DEF LoneInv, WritesCarry, Typed, tables
<1> DEFINE new == [q EXCEPT !.alone = Others(s) = {}]
<1>3. /\ DOMAIN new = DOMAIN q /\ \A f \in DOMAIN q : f # "alone" => new[f] = q[f]
      /\ new.alone = (Others(s) = {})
  BY <1>2
<1> HIDE DEF new
<1>4. inflight'[s] = new /\ Whole(tasks, roster, new) /\ new.op = q.op
  BY <1>1, <1>3, WholeButAlone DEF new, Carries
<1>5. Idle.op = "idle"
  BY DEF Idle
<1>6. ASSUME NEW t \in Slot, Alone(t)' PROVE t = s
  BY <1>4, <1>5, <1>6 DEF LoneInv
<1>7. OneSlot => Others(s) = {}
  BY DEF OneSlot, Others
<1>8. WholeInv'
  <2>1. \A t \in Slot : Alone(t)' => Whole(tasks, roster, inflight'[t])
    BY <1>4, <1>6
  <2>2. OneSlot => \A t \in Slot : inflight'[t].alone
    BY <1>3, <1>4, <1>7 DEF OneSlot
  <2> QED
    BY <1>2, <2>1, <2>2 DEF WholeInv
<1>9. ASSUME NEW u \in Slot, inflight[u] # Idle PROVE inflight'[u] # Idle
  <2>1. u # s /\ u \in Others(s) /\ inflight[u].op # "idle"
    BY <1>1, <1>2, <1>9 DEF Others, Typed
  <2>2. inflight'[u] = [inflight[u] EXCEPT !.alone = FALSE] /\ "op" \in DOMAIN inflight[u]
    BY <1>1, <1>2, <2>1 DEF Carries
  <2>3. inflight'[u].op = inflight[u].op
    BY <2>2
  <2> QED
    BY <1>5, <2>1, <2>3
<1> QED
  BY <1>2, <1>8, <1>9 DEF Quiet

LEMMA WholeAdvances ==
  ASSUME WholeInv, LoneInv', NEW s \in Slot, inflight[s].op # "idle",
         UNCHANGED <<tables, settled>>, \A t \in Slot : t # s => inflight'[t] = inflight[t],
         inflight'[s].op = inflight[s].op, inflight'[s].alone = inflight[s].alone,
         Alone(s) => Whole(tasks, roster, inflight'[s])
  PROVE  WholeInv' /\ Quiet
<1>1. tasks' = tasks /\ roster' = roster /\ Idle.op = "idle"
  BY DEF tables, Idle
<1>2. ASSUME NEW t \in Slot, Alone(t)' PROVE Whole(tasks, roster, inflight'[t])
  <2>1. t = s
    BY <1>1, <1>2 DEF LoneInv
  <2> QED
    BY <1>2, <2>1 DEF Alone
<1>3. OneSlot => \A t \in Slot : inflight'[t].op # "idle" => inflight'[t].alone
  BY DEF WholeInv, OneSlot
<1> QED
  BY <1>1, <1>2, <1>3 DEF WholeInv, Quiet

LEMMA WholeEnds ==
  ASSUME LoneInv, WritesCarry, NEW s \in Slot, inflight[s].op # "idle",
         inflight' = [inflight EXCEPT ![s] = Idle],
         inflight[s].alone => [Board!BoardNext]_(Board!boardVars)
  PROVE  WholeInv' /\ EndsAs(s)
<1>1. inflight'[s] = Idle /\ \A t \in Slot : t # s => inflight'[t] = inflight[t]
  BY DEF WritesCarry
<1>2. Idle.op = "idle"
  BY DEF Idle
<1>3. ASSUME NEW t \in Slot PROVE ~Alone(t)'
  <2>1. CASE t = s
    BY <1>1, <1>2, <2>1 DEF Alone
  <2>2. CASE t # s
    <3>1. Alone(t) => inflight[s] = Idle
      BY <2>2 DEF LoneInv
    <3> QED
      BY <1>1, <1>2, <2>2, <3>1 DEF Alone
  <2> QED
    BY <2>1, <2>2
<1>4. OneSlot => \A t \in Slot : inflight'[t].op = "idle"
  BY <1>1, <1>2 DEF OneSlot
<1>5. WholeInv'
  BY <1>3, <1>4 DEF WholeInv
<1> QED
  BY <1>1, <1>5 DEF EndsAs

-----------------------------------------------------------------------------
(* The lone requests, as they begin                                        *)

LEMMA InsertWhole ==
  ASSUME WritesCarry, LoneInv, LoneInv', NEW s \in Slot, NEW d \in User, NEW h \in Hours,
         Insert(s, d, h)
  PROVE  WholeInv' /\ Quiet
<1>1. PICK i \in 1 .. MaxTasks :
        Start(s, [Transaction("create", i, TRUE, TRUE, "holders") EXCEPT
            !.rows = [j \in {i} |-> [holder |-> d, hours |-> h,
                                     order |-> Cardinality(DOMAIN tasks)]]])
  BY DEF Insert
<1> DEFINE row == [holder |-> d, hours |-> h, order |-> Cardinality(DOMAIN tasks)]
           p == Transaction("create", i, TRUE, TRUE, "holders")
           q == [p EXCEPT !.rows = [j \in {i} |-> row]]
<1>2. /\ q.op = "create" /\ q.holders = {} /\ q.step = "holders" /\ q.syncs = TRUE /\ q.sums = TRUE
      /\ DOMAIN q.seats = {} /\ q.rows = [j \in {i} |-> row]
      /\ {"op", "step", "rows", "gone", "seats", "holders", "task", "syncs", "sums", "total", "to",
          "alone"} \subseteq DOMAIN q
  BY DEF Transaction
<1> HIDE DEF q, p
<1>3. row \in Row
  BY RowsOrdered DEF LoneInv, Row
<1>4. RowList(q.rows)
  BY <1>2, <1>3 DEF RowList
<1>5. Carries(q)
  BY <1>2 DEF Carries, Named
<1>6. Typed(q)
  BY <1>2, <1>4 DEF Typed
<1>7. Whole(tasks, roster, q)
  BY <1>2 DEF Whole, BoardRows, BoardSeats
<1>8. UNCHANGED <<tables, settled>> /\ Start(s, q)
  BY <1>1 DEF Insert, q, p
<1> QED
  BY <1>2, <1>5, <1>6, <1>7, <1>8, WholeBegins

LEMMA LoadUpdateWhole ==
  ASSUME WritesCarry, LoneInv, LoneInv', NEW s \in Slot, NEW i \in DOMAIN tasks,
         NEW d \in User, NEW h \in Hours, LoadUpdate(s, i, d, h)
  PROVE  WholeInv' /\ Quiet
<1> DEFINE syncs == d # tasks[i].holder
           sums == h # tasks[i].hours
           to == (IF syncs THEN {<<"holder", d>>} ELSE {}) \cup (IF sums THEN {<<"hours", h>>} ELSE {})
           q == [Transaction("update", i, syncs, sums, "write") EXCEPT !.to = to]
<1>1. Start(s, q) /\ UNCHANGED <<tables, settled>>
  BY DEF LoadUpdate
<1>2. /\ q.op = "update" /\ q.holders = {} /\ DOMAIN q.seats = {} /\ DOMAIN q.rows = {}
      /\ q.step = "write" /\ q.syncs = syncs /\ q.sums = sums /\ q.to = to /\ q.task = i
      /\ q.rows = [j \in {} |-> {}]
      /\ {"op", "step", "rows", "gone", "seats", "holders", "task", "syncs", "sums", "total", "to",
          "alone"} \subseteq DOMAIN q
  BY DEF Transaction
<1>3. /\ ~syncs => \A e \in User : <<"holder", e>> \notin to
      /\ ~sums => \A e \in Hours : <<"hours", e>> \notin to
      /\ syncs => d # tasks[i].holder /\ \A e \in User : <<"holder", e>> \in to <=> e = d
  OBVIOUS
<1> HIDE DEF q, to, syncs, sums
<1>4. Carries(q)
  BY <1>2 DEF Carries, Named
<1>5. RowList(q.rows)
  BY <1>2 DEF RowList
<1>6. Typed(q)
  BY <1>2, <1>3, <1>5 DEF Typed
<1>7. BoardRows(tasks, q)
  BY <1>2, <1>3 DEF BoardRows
<1>8. Whole(tasks, roster, q)
  BY <1>2, <1>7 DEF Whole, BoardSeats
<1> QED
  BY <1>1, <1>2, <1>4, <1>6, <1>8, WholeBegins

LEMMA LoadRemoveWhole ==
  ASSUME WritesCarry, LoneInv, LoneInv', NEW s \in Slot, NEW i \in DOMAIN tasks, LoadRemove(s, i)
  PROVE  WholeInv' /\ Quiet
<1> DEFINE q == Transaction("remove", i, TRUE, TRUE, "delete")
<1>1. Start(s, q) /\ UNCHANGED <<tables, settled>>
  BY DEF LoadRemove
<1>2. /\ q.op = "remove" /\ q.holders = {} /\ DOMAIN q.seats = {} /\ q.rows = [j \in {} |-> {}]
      /\ q.step = "delete" /\ q.syncs = TRUE /\ q.sums = TRUE /\ q.to = {} /\ q.task = i
      /\ {"op", "step", "rows", "gone", "seats", "holders", "task", "syncs", "sums", "total", "to",
          "alone"} \subseteq DOMAIN q
  BY DEF Transaction
<1> HIDE DEF q
<1>3. Carries(q)
  BY <1>2 DEF Carries, Named
<1>4. RowList(q.rows)
  BY <1>2 DEF RowList
<1>5. Typed(q)
  BY <1>2, <1>4 DEF Typed
<1>6. Whole(tasks, roster, q)
  BY <1>2 DEF Whole, BoardRows, BoardSeats
<1> QED
  BY <1>1, <1>2, <1>3, <1>5, <1>6, WholeBegins

LEMMA LoadReorderWhole ==
  ASSUME WritesCarry, LoneInv, LoneInv', NEW s \in Slot, NEW i \in DOMAIN tasks,
         NEW target \in Nat, LoadReorder(s, i, target)
  PROVE  WholeInv' /\ Quiet
<1> DEFINE list == MovedTo(tasks, i, target)
           to == { <<j, list[j].order>> : j \in
                     { k \in DOMAIN tasks : list[k].order # tasks[k].order } }
           q == [op |-> "reorder", alone |-> TRUE, to |-> to]
<1>1. Start(s, q) /\ UNCHANGED <<tables, settled>>
  BY DEF LoadReorder
<1>2. RowList(tasks)
  BY DEF LoneInv
<1>3. RowList(list) /\ DOMAIN list = DOMAIN tasks
  BY <1>2, MovedToContiguous
<1> HIDE DEF list
<1>4. to \subseteq (1 .. MaxTasks) \X (0 .. MaxTasks)
  BY <1>2, <1>3 DEF RowList, Row
<1> HIDE DEF to
<1>5. Carries(q)
  BY DEF Carries
<1>6. Typed(q)
  BY <1>4 DEF Typed, TxOp
<1>7. Whole(tasks, roster, q)
  BY DEF Whole, BoardRows, BoardSeats, TxOp
<1>8. q.op = "reorder"
  OBVIOUS
<1> HIDE DEF q
<1> QED
  BY <1>1, <1>5, <1>6, <1>7, <1>8, WholeBegins

LEMMA RosterLoadsWhole ==
  ASSUME WritesCarry, LoneInv, LoneInv', NEW s \in Slot, NEW d \in User,
         LoadJoin(s, d) \/ LoadLeave(s, d) \/ LoadHandOver(s, d)
  PROVE  WholeInv' /\ Quiet
<1>1. ASSUME NEW q, Start(s, q), q.op \in { "join", "leave", "lead" }, q.user = d,
             {"op", "user", "alone"} \subseteq DOMAIN q,
             {"rows", "step"} \cap DOMAIN q = {},
             q.op = "join" => "leads" \in DOMAIN q /\ q.leads = (Leads(roster) = {}),
             q.op = "leave" => roster[d].active
      PROVE  WholeInv' /\ Quiet
  <2>1. Carries(q)
    BY <1>1 DEF Carries
  <2>2. Typed(q)
    BY <1>1 DEF Typed, TxOp
  <2>3. Whole(tasks, roster, q)
    BY <1>1 DEF Whole, BoardRows, BoardSeats, TxOp
  <2>4. UNCHANGED <<tables, settled>>
    BY DEF LoadJoin, LoadLeave, LoadHandOver
  <2>5. q.op # "idle"
    BY <1>1
  <2> QED
    BY <1>1, <2>1, <2>2, <2>3, <2>4, <2>5, WholeBegins
<1>2. CASE LoadJoin(s, d)
  <2> DEFINE q == [op |-> "join", user |-> d, leads |-> Leads(roster) = {}, alone |-> TRUE]
  <2>1. /\ q.op = "join" /\ q.user = d /\ {"op", "user", "alone"} \subseteq DOMAIN q
        /\ {"rows", "step"} \cap DOMAIN q = {} /\ Start(s, q)
        /\ "leads" \in DOMAIN q /\ q.leads = (Leads(roster) = {})
    BY <1>2 DEF LoadJoin
  <2> HIDE DEF q
  <2> QED
    BY <1>1, <2>1
<1>3. CASE LoadLeave(s, d)
  <2> DEFINE q == [op |-> "leave", user |-> d, alone |-> TRUE]
  <2>1. /\ q.op = "leave" /\ q.user = d /\ {"op", "user", "alone"} \subseteq DOMAIN q
        /\ {"rows", "step"} \cap DOMAIN q = {} /\ Start(s, q) /\ roster[d].active
    BY <1>3 DEF LoadLeave
  <2> HIDE DEF q
  <2> QED
    BY <1>1, <2>1
<1>4. CASE LoadHandOver(s, d)
  <2> DEFINE q == [op |-> "lead", user |-> d, alone |-> TRUE]
  <2>1. /\ q.op = "lead" /\ q.user = d /\ {"op", "user", "alone"} \subseteq DOMAIN q
        /\ {"rows", "step"} \cap DOMAIN q = {} /\ Start(s, q)
    BY <1>4 DEF LoadHandOver
  <2> HIDE DEF q
  <2> QED
    BY <1>1, <2>1
<1> QED
  BY <1>2, <1>3, <1>4

-----------------------------------------------------------------------------
(* A lone transaction's statements                                         *)

LEMMA WriteUpdateWhole ==
  ASSUME WritesCarry, LoneInv, WholeInv, LoneInv', NEW s \in Slot, WriteUpdate(s)
  PROVE  WholeInv' /\ Quiet
<1> DEFINE i == inflight[s].task
           p == inflight[s]
           q == inflight'[s]
           rows == [j \in {i} |-> Patched(tasks[j], p.to)]
           p1 == [p EXCEPT !.rows = rows]
           p2 == [p1 EXCEPT !.step = AfterRows(p)]
<1>1. /\ p.op = "update" /\ p.step = "write" /\ i \in DOMAIN tasks /\ UNCHANGED <<tables, settled>>
      /\ DOMAIN inflight = Slot
  BY DEF WriteUpdate, WritesCarry
<1>2. /\ p.op # "idle"
      /\ {"op", "step", "rows", "gone", "seats", "holders", "task", "syncs", "sums", "total", "to",
          "alone"} \subseteq DOMAIN p
  BY <1>1, Fields DEF TxOp
<1>3. q = p2 /\ \A t \in Slot : t # s => inflight'[t] = inflight[t]
  BY <1>1 DEF WriteUpdate
<1>4. /\ p2.rows = rows /\ p2.step = AfterRows(p) /\ DOMAIN p2 = DOMAIN p
      /\ \A f \in DOMAIN p : f \notin {"rows", "step"} => p2[f] = p[f]
  BY <1>2
<1>5. DOMAIN rows = {i} /\ rows[i] = Patched(tasks[i], p.to)
  OBVIOUS
<1> HIDE DEF p2, p1, rows
<1>6. /\ q.rows = rows /\ q.step = AfterRows(p) /\ q.op = p.op /\ q.syncs = p.syncs
      /\ q.to = p.to /\ q.seats = p.seats /\ q.task = p.task /\ q.alone = p.alone
  BY <1>2, <1>3, <1>4
<1>7. q.step = "holders" \/ (~p.syncs /\ q.step \in { "sum", "commit" })
  BY <1>6 DEF AfterRows, AfterSync
<1>8. ASSUME NEW d \in User, \A e \in User : <<"holder", e>> \in p.to <=> e = d
      PROVE  rows[i].holder = d
  BY <1>5, <1>8 DEF Patched
<1>9. ASSUME Whole(tasks, roster, p) PROVE Whole(tasks, roster, q)
  <2>1. BoardRows(tasks, q)
    <3>1. ASSUME q.syncs
          PROVE  \E d \in User :
                   /\ d # tasks[i].holder /\ \A e \in User : <<"holder", e>> \in q.to <=> e = d
                   /\ rows[i].holder = d
      BY <1>1, <1>6, <1>8, <1>9, <3>1 DEF Whole, BoardRows
    <3> QED
      BY <1>1, <1>5, <1>6, <3>1 DEF BoardRows
  <2>2. BoardSeats(roster, q)
    BY <1>1, <1>6, <1>7, <1>9 DEF Whole, BoardSeats
  <2> QED
    BY <1>1, <1>6, <2>1, <2>2 DEF Whole
<1>10. Alone(s) => Whole(tasks, roster, q)
  BY <1>9 DEF WholeInv
<1> QED
  BY <1>1, <1>2, <1>3, <1>6, <1>10, WholeAdvances

LEMMA DeleteWhole ==
  ASSUME WritesCarry, LoneInv, WholeInv, LoneInv', NEW s \in Slot, Delete(s)
  PROVE  WholeInv' /\ Quiet
<1> DEFINE p == inflight[s]
           q == inflight'[s]
<1>1. /\ p.op = "remove" /\ p.step = "delete" /\ UNCHANGED <<tables, settled>>
      /\ DOMAIN inflight = Slot
  BY DEF Delete, WritesCarry
<1>2. PICK to :
        inflight' = [inflight EXCEPT
          ![s].gone = {p.task}, ![s].to = to, ![s].step = "close"]
  BY DEF Delete
<1> DEFINE p1 == [p EXCEPT !.gone = {p.task}]
           p2 == [p1 EXCEPT !.to = to]
           p3 == [p2 EXCEPT !.step = "close"]
<1>3. /\ p.op # "idle"
      /\ {"op", "step", "rows", "gone", "seats", "holders", "task", "syncs", "sums", "total", "to",
          "alone"} \subseteq DOMAIN p
  BY <1>1, Fields DEF TxOp
<1>4. q = p3 /\ \A t \in Slot : t # s => inflight'[t] = inflight[t]
  BY <1>1, <1>2
<1>5. /\ p3.gone = {p.task} /\ p3.step = "close" /\ DOMAIN p3 = DOMAIN p
      /\ \A f \in DOMAIN p : f \notin {"gone", "to", "step"} => p3[f] = p[f]
  BY <1>3
<1> HIDE DEF p3, p2, p1
<1>6. /\ q.op = p.op /\ q.alone = p.alone /\ q.rows = p.rows /\ q.syncs = p.syncs
      /\ q.task = p.task /\ q.seats = p.seats /\ q.gone = {p.task} /\ q.step = "close"
  BY <1>3, <1>4, <1>5
<1>7. Whole(tasks, roster, p) => Whole(tasks, roster, q)
  BY <1>1, <1>6 DEF Whole, BoardRows, BoardSeats
<1>8. Alone(s) => Whole(tasks, roster, q)
  BY <1>7 DEF WholeInv
<1> QED
  BY <1>1, <1>3, <1>4, <1>6, <1>8, WholeAdvances

LEMMA CloseGapWhole ==
  ASSUME WritesCarry, LoneInv, WholeInv, LoneInv', NEW s \in Slot, CloseGap(s)
  PROVE  WholeInv' /\ Quiet
<1> DEFINE p == inflight[s]
           q == inflight'[s]
           named == { m[1] : m \in p.to }
           rows == Placed(p.to)
           p1 == [p EXCEPT !.rows = rows]
           p2 == [p1 EXCEPT !.step = "holders"]
<1>1. /\ p.op = "remove" /\ p.step = "close" /\ UNCHANGED <<tables, settled>>
      /\ RowList(tasks) /\ DOMAIN inflight = Slot
      /\ \A m \in p.to : m[1] \in DOMAIN tasks
  BY DEF CloseGap, LoneInv, WritesCarry
<1>2. /\ p.op # "idle" /\ Typed(p)
      /\ {"op", "step", "rows", "gone", "seats", "holders", "task", "syncs", "sums", "total", "to",
          "alone"} \subseteq DOMAIN p
  BY <1>1, Fields DEF TxOp
<1>3. q = p2 /\ \A t \in Slot : t # s => inflight'[t] = inflight[t]
  BY <1>1 DEF CloseGap
<1>4. /\ p2.rows = rows /\ p2.step = "holders" /\ DOMAIN p2 = DOMAIN p
      /\ \A f \in DOMAIN p : f \notin {"rows", "step"} => p2[f] = p[f]
  BY <1>2
<1>5. named \subseteq DOMAIN tasks
  BY <1>1
<1>6. rows = After(tasks, p.to, named)
  BY DEF Placed, After, Moved
<1>7. p.to \subseteq (1 .. MaxTasks) \X (0 .. MaxTasks)
  BY <1>1, <1>2 DEF Typed
<1>8. DOMAIN rows = named /\ \A i \in named : rows[i].holder = tasks[i].holder
  BY <1>1, <1>5, <1>6, <1>7, AfterTyped
<1> HIDE DEF p2, p1, rows
<1>9. /\ q.op = p.op /\ q.alone = p.alone /\ q.rows = rows /\ q.task = p.task
      /\ q.syncs = p.syncs /\ q.seats = p.seats /\ q.gone = p.gone /\ q.step = "holders"
  BY <1>2, <1>3, <1>4
<1>10. Whole(tasks, roster, p) => Whole(tasks, roster, q)
  BY <1>1, <1>5, <1>8, <1>9 DEF Whole, BoardRows, BoardSeats
<1>11. Alone(s) => Whole(tasks, roster, q)
  BY <1>10 DEF WholeInv
<1> QED
  BY <1>1, <1>2, <1>3, <1>9, <1>11, WholeAdvances

\* A statement after the task rows are written.
LEMMA WholeGoesOn ==
  ASSUME WritesCarry, LoneInv, WholeInv, LoneInv', NEW s \in Slot, "step" \in DOMAIN inflight[s],
         UNCHANGED <<tables, settled>>, \A t \in Slot : t # s => inflight'[t] = inflight[t],
         \A f \in { "op", "task", "syncs", "to", "rows", "gone", "alone" } :
           inflight'[s][f] = inflight[s][f],
         {inflight[s].step, inflight'[s].step} \cap { "write", "delete" } = {},
         Alone(s) /\ BoardSeats(roster, inflight[s]) => BoardSeats(roster, inflight'[s])
  PROVE  WholeInv' /\ Quiet
<1> DEFINE p == inflight[s]
           q == inflight'[s]
<1>1. p.op \in TxOp /\ p.op # "idle"
  BY Fields
<1>2. /\ q.op = p.op /\ q.task = p.task /\ q.syncs = p.syncs /\ q.to = p.to
      /\ q.rows = p.rows /\ q.gone = p.gone /\ q.alone = p.alone
      /\ p.step \notin { "write", "delete" } /\ q.step \notin { "write", "delete" }
  OBVIOUS
<1>3. BoardRows(tasks, p) => BoardRows(tasks, q)
  BY <1>2 DEF BoardRows
<1>4. Alone(s) => Whole(tasks, roster, q)
  BY <1>1, <1>2, <1>3 DEF Whole, WholeInv, TxOp
<1> QED
  BY <1>1, <1>2, <1>4, WholeAdvances

LEMMA ReadHoldersWhole ==
  ASSUME WritesCarry, LoneInv, WholeInv, LoneInv', NEW s \in Slot, ReadHolders(s)
  PROVE  WholeInv' /\ Quiet
<1> DEFINE p == inflight[s]
           q == inflight'[s]
           once == [p EXCEPT !.holders = HoldersSeen(s)]
<1>1. /\ "step" \in DOMAIN p /\ p.step = "holders" /\ UNCHANGED <<tables, settled>>
      /\ inflight' = [inflight EXCEPT
           ![s] = [once EXCEPT !.step = "reconcile"]]
  BY DEF ReadHolders, In
<1>2. /\ \A t \in Slot : t # s => inflight'[t] = inflight[t]
      /\ q.step = "reconcile"
      /\ \A g \in { "holders", "seats", "total" } : g # "holders" => q[g] = p[g]
      /\ \A g \in { "op", "task", "syncs", "sums", "to", "rows", "gone", "alone" } : q[g] = p[g]
  <2>1. /\ DOMAIN once = DOMAIN p /\ once.holders = HoldersSeen(s)
        /\ \A g \in DOMAIN p : g # "holders" => once[g] = p[g]
    BY <1>1, Fields
  <2> HIDE DEF once
  <2> DEFINE twice == [once EXCEPT !.step = "reconcile"]
  <2>2. /\ DOMAIN twice = DOMAIN p /\ twice.holders = HoldersSeen(s) /\ twice.step = "reconcile"
        /\ \A g \in DOMAIN p : g # "holders" /\ g # "step" => twice[g] = p[g]
    BY <1>1, <2>1
  <2> HIDE DEF twice
  <2>3. q = twice /\ \A t \in Slot : t # s => inflight'[t] = inflight[t]
    BY <1>1 DEF WritesCarry, twice
  <2>4. /\ DOMAIN q = DOMAIN p
        /\ \A g \in DOMAIN p : g # "holders" /\ g # "step" => q[g] = p[g]
    BY <2>2, <2>3
  <2>5. /\ \A g \in { "holders", "seats", "total" } : g # "holders" => q[g] = p[g]
        /\ \A g \in { "op", "task", "syncs", "sums", "to", "rows", "gone", "alone" } : q[g] = p[g]
    BY <1>1, <2>4, OneField
  <2> QED
    BY <2>2, <2>3, <2>5
<1>3. BoardSeats(roster, p) => BoardSeats(roster, q)
  <2>1. q.seats = p.seats /\ q.op = p.op
    BY <1>2
  <2> QED
    BY <1>1, <1>2, <2>1 DEF BoardSeats
<1> QED
  BY <1>1, <1>2, <1>3, WholeGoesOn

LEMMA ReconcileWhole ==
  ASSUME WritesInv, LoneInv, WholeInv, LoneInv', NEW s \in Slot, Reconcile(s)
  PROVE  WholeInv' /\ Quiet
<1> DEFINE p == inflight[s]
           q == inflight'[s]
           gone == Retired(p.holders)
           seats == [d \in p.holders \cup gone |-> [roster[d] EXCEPT !.active = d \in p.holders]]
           once == [p EXCEPT !.seats = seats]
<1>1. /\ "step" \in DOMAIN p /\ p.step = "reconcile" /\ UNCHANGED <<tables, settled>>
      /\ inflight' = [inflight EXCEPT
           ![s] = [once EXCEPT !.step = "leads"]]
      /\ WritesCarry /\ roster \in [User -> Seat]
  BY DEF Reconcile, In, WritesInv, LeadInv
<1>2. p.holders \in SUBSET User
  BY <1>1, Fields DEF Carries, TxOp
<1>3. Told(Over(roster, seats)) = Board!Reconciled(Told(roster), p.holders)
  <2>1. gone = { d \in User : roster[d].active /\ ~roster[d].lead } \ p.holders
    BY DEF Retired
  <2> HIDE DEF gone
  <2> QED
    BY <1>1, <1>2, <2>1, ReconciledTold
<1> HIDE DEF seats, gone
<1>4. /\ \A t \in Slot : t # s => inflight'[t] = inflight[t]
      /\ q.step = "leads" /\ q.seats = seats /\ q.holders = p.holders
      /\ \A g \in { "op", "task", "syncs", "sums", "to", "rows", "gone", "alone" } : q[g] = p[g]
  <2>1. /\ DOMAIN once = DOMAIN p /\ once.seats = seats
        /\ \A g \in DOMAIN p : g # "seats" => once[g] = p[g]
    BY <1>1, Fields
  <2> HIDE DEF once
  <2> DEFINE twice == [once EXCEPT !.step = "leads"]
  <2>2. /\ DOMAIN twice = DOMAIN p /\ twice.seats = seats /\ twice.step = "leads"
        /\ \A g \in DOMAIN p : g # "seats" /\ g # "step" => twice[g] = p[g]
    BY <1>1, <2>1
  <2> HIDE DEF twice
  <2>3. q = twice /\ \A t \in Slot : t # s => inflight'[t] = inflight[t]
    BY <1>1 DEF WritesCarry, twice
  <2>4. /\ DOMAIN q = DOMAIN p
        /\ \A g \in DOMAIN p : g # "seats" /\ g # "step" => q[g] = p[g]
    BY <2>2, <2>3
  <2>5. /\ \A g \in { "holders", "seats", "total" } : g # "seats" => q[g] = p[g]
        /\ \A g \in { "op", "task", "syncs", "sums", "to", "rows", "gone", "alone" } : q[g] = p[g]
    BY <1>1, <2>4, OneField
  <2> QED
    BY <2>2, <2>3, <2>5
<1>5. BoardSeats(roster, q)
  BY <1>3, <1>4 DEF BoardSeats
<1> QED
  BY <1>1, <1>4, <1>5, WholeGoesOn

\* What a transaction has come to is what it would commit.
LEMMA SeatsSeen ==
  ASSUME WritesInv, LoneInv, NEW s \in Slot, "step" \in DOMAIN inflight[s]
  PROVE  SeenRoster(s) = Over(roster, inflight[s].seats)
<1>1. "rows" \in DOMAIN inflight[s]
  BY Fields DEF WritesInv
<1>2. HeldSeats[s] = inflight[s].seats
  BY <1>1 DEF HeldSeats, Seats
<1> QED
  BY <1>2, Sees

LEMMA CountLeadsWhole ==
  ASSUME WritesInv, LoneInv, WholeInv, LoneInv', NEW s \in Slot, CountLeads(s)
  PROVE  WholeInv' /\ Quiet
<1> DEFINE p == inflight[s]
           q == inflight'[s]
           w == IF Leads(SeenRoster(s)) = {} /\ p.holders # {} THEN "promote" ELSE AfterSync(p)
           p1 == [p EXCEPT !.step = w]
<1>1. /\ "step" \in DOMAIN p /\ p.step = "leads" /\ UNCHANGED <<tables, settled>>
      /\ inflight' = [inflight EXCEPT ![s].step = w] /\ WritesCarry
  BY DEF CountLeads, GoTo, In, WritesInv
<1>2. /\ p.op \in TxOp
      /\ {"op", "step", "rows", "gone", "seats", "holders", "task", "syncs", "sums", "total", "to",
          "alone"} \subseteq DOMAIN p
  BY <1>1, Fields
<1>3. q = p1 /\ \A t \in Slot : t # s => inflight'[t] = inflight[t]
  BY <1>1 DEF WritesCarry
<1>4. p1.step = w /\ \A g \in DOMAIN p : g # "step" => p1[g] = p[g]
  BY <1>2
<1> HIDE DEF p1
<1>5. /\ q.step = w /\ q.holders = p.holders /\ q.seats = p.seats /\ q.op = p.op
      /\ \A g \in { "op", "task", "syncs", "to", "rows", "gone", "alone" } : q[g] = p[g]
  BY <1>2, <1>3, <1>4
<1>6. ASSUME BoardSeats(roster, p) PROVE BoardSeats(roster, q)
  <2> DEFINE kept == Board!Reconciled(Told(roster), p.holders)
             seen == Over(roster, p.seats)
  <2>1. Told(seen) = kept /\ SeenRoster(s) = seen
    BY <1>1, <1>2, <1>6, SeatsSeen DEF BoardSeats
  <2>2. Board!ActiveLeads(kept) = Leads(seen)
    BY <2>1, ToldLeads
  <2>3. CASE Leads(seen) = {} /\ p.holders # {}
    <3>1. w = "promote"
      BY <2>1, <2>3
    <3> HIDE DEF w
    <3> QED
      BY <1>5, <2>1, <2>3, <3>1 DEF BoardSeats
  <2>4. CASE ~(Leads(seen) = {} /\ p.holders # {})
    <3>1. w \in { "sum", "commit" }
      BY <2>1, <2>4 DEF AfterSync
    <3>2. Board!SyncFromTasks(Told(roster), p.holders) = {kept}
      BY <2>2, <2>4 DEF Board!SyncFromTasks
    <3>3. Told(seen) \in Board!SyncFromTasks(Told(roster), p.holders)
      BY <2>1, <3>2
    <3> HIDE DEF w
    <3> QED
      BY <1>5, <3>1, <3>3 DEF BoardSeats
  <2> QED
    BY <2>3, <2>4
<1>7. w \notin { "write", "delete" }
  BY DEF AfterSync
<1> HIDE DEF w
<1> QED
  BY <1>1, <1>5, <1>3, <1>6, <1>7, WholeGoesOn

LEMMA PromoteWhole ==
  ASSUME WritesInv, LoneInv, WholeInv, LoneInv', NEW s \in Slot, Promote(s)
  PROVE  WholeInv' /\ Quiet
<1> DEFINE p == inflight[s]
           q == inflight'[s]
           seen == Over(roster, p.seats)
<1>1. /\ "step" \in DOMAIN p /\ p.step = "promote" /\ UNCHANGED <<tables, settled>>
      /\ WritesCarry /\ roster \in [User -> Seat] /\ RowsHeld(HeldSeats)
  BY DEF Promote, In, WritesInv, LeadInv
<1>2. /\ p.op \in TxOp /\ Carries(p)
      /\ {"op", "step", "rows", "gone", "seats", "holders", "task", "syncs", "sums", "total", "to",
          "alone"} \subseteq DOMAIN p
      /\ SeenRoster(s) = seen
  BY <1>1, Fields, SeatsSeen
<1>3. PICK x \in p.holders :
        inflight' = [inflight EXCEPT
          ![s].seats = [e \in DOMAIN @ \cup DOMAIN Handed(seen, x) |->
                          IF e \in DOMAIN Handed(seen, x) THEN Handed(seen, x)[e] ELSE @[e]],
          ![s].step = AfterSync(p)]
  BY <1>2 DEF Promote
<1> DEFINE made == Handed(seen, x)
           seats == [e \in DOMAIN p.seats \cup DOMAIN made |->
                       IF e \in DOMAIN made THEN made[e] ELSE p.seats[e]]
           once == [p EXCEPT !.seats = seats]
<1>4. inflight' = [inflight EXCEPT
        ![s] = [once EXCEPT !.step = AfterSync(p)]]
  BY <1>2, <1>3
<1>5. x \in User
  BY <1>2 DEF Carries, TxOp
<1>6. seen \in [User -> Seat]
  <2>1. HeldSeats[s] = p.seats
    BY <1>2 DEF HeldSeats, Seats
  <2>2. \A d \in User : d \in DOMAIN p.seats => p.seats[d] \in Seat
    BY <1>1, <2>1 DEF RowsHeld
  <2> QED
    BY <1>1, <2>2 DEF Over
<1>7. Told(Over(roster, seats)) = Board!SetLead(Told(seen), x)
  <2>1. Over(roster, seats) = Over(seen, made)
    BY DEF Over
  <2> HIDE DEF seats, seen
  <2> QED
    BY <1>5, <1>6, <2>1, HandedTold
<1> HIDE DEF seats, made
<1>8. /\ \A t \in Slot : t # s => inflight'[t] = inflight[t]
      /\ q.seats = seats /\ q.step = AfterSync(p) /\ q.holders = p.holders
      /\ \A g \in { "op", "task", "syncs", "sums", "to", "rows", "gone", "alone" } : q[g] = p[g]
  <2>1. /\ DOMAIN once = DOMAIN p /\ once.seats = seats
        /\ \A g \in DOMAIN p : g # "seats" => once[g] = p[g]
    BY <1>1, Fields
  <2> HIDE DEF once
  <2> DEFINE twice == [once EXCEPT !.step = AfterSync(p)]
  <2>2. /\ DOMAIN twice = DOMAIN p /\ twice.seats = seats /\ twice.step = AfterSync(p)
        /\ \A g \in DOMAIN p : g # "seats" /\ g # "step" => twice[g] = p[g]
    BY <1>1, <2>1
  <2> HIDE DEF twice
  <2>3. q = twice /\ \A t \in Slot : t # s => inflight'[t] = inflight[t]
    BY <1>1, <1>4 DEF WritesCarry, twice
  <2>4. /\ DOMAIN q = DOMAIN p
        /\ \A g \in DOMAIN p : g # "seats" /\ g # "step" => q[g] = p[g]
    BY <2>2, <2>3
  <2>5. /\ \A g \in { "holders", "seats", "total" } : g # "seats" => q[g] = p[g]
        /\ \A g \in { "op", "task", "syncs", "sums", "to", "rows", "gone", "alone" } : q[g] = p[g]
    BY <1>1, <2>4, OneField
  <2> QED
    BY <2>2, <2>3, <2>5
<1>9. AfterSync(p) \in { "sum", "commit" }
  BY DEF AfterSync
<1>10. ASSUME BoardSeats(roster, p) PROVE BoardSeats(roster, q)
  <2> DEFINE kept == Board!Reconciled(Told(roster), p.holders)
  <2>1. Told(seen) = kept /\ Leads(seen) = {} /\ p.holders # {}
    BY <1>1, <1>2, <1>10 DEF BoardSeats
  <2>2. Board!ActiveLeads(kept) = {}
    BY <2>1, ToldLeads
  <2>3. Board!SyncFromTasks(Told(roster), p.holders) = { Board!SetLead(kept, h) : h \in p.holders }
    BY <2>1, <2>2 DEF Board!SyncFromTasks
  <2>4. Told(Over(roster, q.seats)) \in Board!SyncFromTasks(Told(roster), p.holders)
    BY <1>7, <1>8, <2>1, <2>3
  <2> HIDE DEF kept, seen
  <2> QED
    BY <1>8, <1>9, <2>4 DEF BoardSeats
<1> HIDE DEF seen
<1> QED
  BY <1>1, <1>8, <1>9, <1>10, WholeGoesOn

LEMMA SumUpWhole ==
  ASSUME WritesCarry, LoneInv, WholeInv, LoneInv', NEW s \in Slot, SumUp(s)
  PROVE  WholeInv' /\ Quiet
<1> DEFINE p == inflight[s]
           q == inflight'[s]
           once == [p EXCEPT !.total = Sum(SeenTasks(s))]
<1>1. /\ "step" \in DOMAIN p /\ p.step = "sum" /\ UNCHANGED <<tables, settled>>
      /\ inflight' = [inflight EXCEPT
           ![s] = [once EXCEPT !.step = "commit"]]
  BY DEF SumUp, In
<1>2. /\ \A t \in Slot : t # s => inflight'[t] = inflight[t]
      /\ q.step = "commit" /\ q.seats = p.seats /\ q.holders = p.holders
      /\ \A g \in { "op", "task", "syncs", "sums", "to", "rows", "gone", "alone" } : q[g] = p[g]
  <2>1. /\ DOMAIN once = DOMAIN p /\ once.total = Sum(SeenTasks(s))
        /\ \A g \in DOMAIN p : g # "total" => once[g] = p[g]
    BY <1>1, Fields
  <2> HIDE DEF once
  <2> DEFINE twice == [once EXCEPT !.step = "commit"]
  <2>2. /\ DOMAIN twice = DOMAIN p /\ twice.total = Sum(SeenTasks(s)) /\ twice.step = "commit"
        /\ \A g \in DOMAIN p : g # "total" /\ g # "step" => twice[g] = p[g]
    BY <1>1, <2>1
  <2> HIDE DEF twice
  <2>3. q = twice /\ \A t \in Slot : t # s => inflight'[t] = inflight[t]
    BY <1>1 DEF WritesCarry, twice
  <2>4. /\ DOMAIN q = DOMAIN p
        /\ \A g \in DOMAIN p : g # "total" /\ g # "step" => q[g] = p[g]
    BY <2>2, <2>3
  <2>5. /\ \A g \in { "holders", "seats", "total" } : g # "total" => q[g] = p[g]
        /\ \A g \in { "op", "task", "syncs", "sums", "to", "rows", "gone", "alone" } : q[g] = p[g]
    BY <1>1, <2>4, OneField
  <2> QED
    BY <2>2, <2>3, <2>5
<1>3. BoardSeats(roster, p) => BoardSeats(roster, q)
  <2>1. q.op = p.op /\ q.syncs = p.syncs
    BY <1>2
  <2> QED
    BY <1>1, <1>2, <2>1 DEF BoardSeats
<1> QED
  BY <1>1, <1>2, <1>3, WholeGoesOn

-----------------------------------------------------------------------------
(* The lone requests, as they end: which step of TaskBoard each has been   *)

LEMMA ManagerMay ==
  /\ Manager \in People /\ User \subseteq People
  /\ Board!Can(Manager, "task:manage") /\ Board!Can(Manager, "ticket:assign")
  /\ \A d \in User : Board!IsDeveloper(d) /\ d \in Board!Reachable
<1>1. Manager \in People /\ User \subseteq People
  BY DEF People
<1>2. /\ "task:manage" \in Board!ProjectManager /\ "ticket:assign" \in Board!ProjectManager
      /\ Board!RoleActions["PROJECT_MANAGER"] = Board!ProjectManager
  BY DEF Board!ProjectManager, Board!Oversight, Board!RoleActions
<1>3. Board!Can(Manager, "task:manage") /\ Board!Can(Manager, "ticket:assign")
  BY <1>1, <1>2 DEF Board!Can, Board!May
<1>4. \A d \in User : Board!IsDeveloper(d)
  BY <1>1, ManagerAssumption DEF Board!IsDeveloper
<1>5. \A d \in User : d \in Board!Reachable
  BY DEF Board!Reachable
<1> QED
  BY <1>1, <1>3, <1>4, <1>5

\* The roster TaskBoard sees is the one told of the table.
LEMMA BoardCreates ==
  ASSUME NEW h \in User, Hold(tasks') = Hold(tasks) \cup {h}, DOMAIN tasks' # {},
         Told(roster') \in Board!SyncFromTasks(Told(roster), Hold(tasks'))
  PROVE  Board!BoardNext
<1>1. Hold(tasks)' = Hold(tasks')
  BY DEF Hold
<1>2. Board!CreateTask(Manager, h)
  BY <1>1, ManagerMay DEF Board!CreateTask, Board!Sync, Told
<1> QED
  BY <1>2, ManagerMay DEF Board!BoardNext

LEMMA BoardReassigns ==
  ASSUME NEW from \in Hold(tasks), NEW to \in User \ {from},
         Hold(tasks') \in { Hold(tasks) \cup {to}, (Hold(tasks) \ {from}) \cup {to} },
         Told(roster') \in Board!SyncFromTasks(Told(roster), Hold(tasks')), Hold(tasks) \subseteq User
  PROVE  Board!BoardNext
<1>1. Hold(tasks)' = Hold(tasks')
  BY DEF Hold
<1>2. \E left \in Board!Without(from) : Hold(tasks') = left \cup {to}
  BY DEF Board!Without
<1>3. Board!ReassignTask(Manager, from, to)
  BY <1>1, <1>2, ManagerMay DEF Board!ReassignTask, Board!Sync, Told
<1> QED
  BY <1>3, ManagerMay DEF Board!BoardNext

LEMMA BoardRemoves ==
  ASSUME NEW from \in Hold(tasks), Hold(tasks') \in { Hold(tasks), Hold(tasks) \ {from} },
         Told(roster') \in Board!SyncFromTasks(Told(roster), Hold(tasks')), Hold(tasks) \subseteq User
  PROVE  Board!BoardNext
<1>1. Hold(tasks)' = Hold(tasks')
  BY DEF Hold
<1>2. (DOMAIN tasks' # {}) <=> (Hold(tasks') # {})
  BY DEF Hold
<1>3. DOMAIN tasks # {}
  BY DEF Hold
<1>4. Board!RemoveTask(Manager, from)
  BY <1>1, <1>2, <1>3, ManagerMay DEF Board!RemoveTask, Board!Without, Board!Sync, Told
<1> QED
  BY <1>4, ManagerMay DEF Board!BoardNext

LEMMA BoardStays ==
  ASSUME Hold(tasks') = Hold(tasks), (DOMAIN tasks' = {}) <=> (DOMAIN tasks = {}),
         Told(roster') = Told(roster)
  PROVE  UNCHANGED Board!boardVars
<1>1. Hold(tasks)' = Hold(tasks')
  BY DEF Hold
<1> QED
  BY <1>1 DEF Board!boardVars, Told

LEMMA BoardRosters ==
  ASSUME UNCHANGED tasks, NEW d \in User,
         \/ Told(roster') = Board!AddAssignee(Told(roster), d)
         \/ /\ d \in Told(roster).active \ Hold(tasks)
            /\ Told(roster') = Board!RemoveAssignee(Told(roster), d)
         \/ Told(roster') = Board!SetLead(Told(roster), d)
  PROVE  Board!BoardNext
<1>1. Hold(tasks)' = Hold(tasks) /\ (DOMAIN tasks # {})' = (DOMAIN tasks # {})
  BY DEF Hold
<1>2. d \in Board!Assignable
  BY ManagerMay DEF Board!Assignable
<1>3. CASE Told(roster') = Board!AddAssignee(Told(roster), d)
  <2>1. Board!AddToRoster(Manager, d)
    BY <1>1, <1>2, <1>3, ManagerMay DEF Board!AddToRoster, Told
  <2> QED
    BY <2>1, ManagerMay DEF Board!BoardNext
<1>4. CASE /\ d \in Told(roster).active \ Hold(tasks)
           /\ Told(roster') = Board!RemoveAssignee(Told(roster), d)
  <2>1. Board!RemoveFromRoster(Manager, d)
    BY <1>1, <1>4, ManagerMay DEF Board!RemoveFromRoster, Told
  <2> QED
    BY <2>1, ManagerMay DEF Board!BoardNext
<1>5. CASE Told(roster') = Board!SetLead(Told(roster), d)
  <2>1. Board!HandOverLead(Manager, d)
    BY <1>1, <1>2, <1>5, ManagerMay DEF Board!HandOverLead, Told
  <2> QED
    BY <2>1, ManagerMay DEF Board!BoardNext
<1> QED
  BY <1>3, <1>4, <1>5

LEMMA CommitWhole ==
  ASSUME WritesInv, LoneInv, WholeInv, NEW s \in Slot, Commit(s)
  PROVE  WholeInv' /\ EndsAs(s)
<1> DEFINE p == inflight[s]
           new == AsSeen(tasks, p)
<1>1. /\ "step" \in DOMAIN p /\ p.step = "commit" /\ inflight' = [inflight EXCEPT ![s] = Idle]
      /\ roster' = Over(roster, p.seats) /\ tasks' = SeenTasks(s)
      /\ WritesCarry /\ RowList(tasks) /\ roster \in [User -> Seat]
  BY SeatsSeen DEF Commit, In, Ended, WritesInv, LoneInv, LeadInv
<1>2. /\ p.op \in TxOp /\ p.op # "idle" /\ Typed(p) /\ RowList(p.rows)
      /\ SeenTasks(s) = new
  BY <1>1, Fields
<1>3. tasks' = new
  BY <1>1, <1>2
<1>4. Hold(tasks) \subseteq User
  BY <1>1 DEF Hold, RowList, Row
<1>5. ASSUME p.alone PROVE [Board!BoardNext]_(Board!boardVars)
  <2>1. LoneRows(tasks, p) /\ LoneSums(tasks, p) /\ BoardRows(tasks, p) /\ BoardSeats(roster, p)
    BY <1>2, <1>5 DEF Alone, LoneInv, LoneSound, WholeInv, Whole
  <2>2. p.syncs => Told(roster') \in Board!SyncFromTasks(Told(roster), Hold(tasks'))
    <3>1. p.syncs => p.holders = Hold(new)
      BY <1>1, <1>2, <2>1 DEF LoneSums
    <3> QED
      BY <1>1, <1>2, <1>3, <2>1, <3>1 DEF BoardSeats
  <2>3. CASE p.op = "create"
    <3>1. PICK i \in 1 .. MaxTasks : DOMAIN p.rows = {i} /\ i \notin DOMAIN tasks /\ p.gone = {}
      BY <2>1, <2>3 DEF LoneRows
    <3>2. /\ DOMAIN new = DOMAIN tasks \cup {i} /\ new[i] = p.rows[i]
          /\ \A j \in DOMAIN tasks : new[j] = tasks[j]
      BY <3>1 DEF AsSeen
    <3>3. p.rows[i].holder \in User
      BY <1>2, <3>1 DEF RowList, Row
    <3>4. Hold(new) = Hold(tasks) \cup {p.rows[i].holder} /\ DOMAIN new # {}
      BY <3>2 DEF Hold
    <3>5. p.syncs
      BY <1>2, <2>3 DEF Typed
    <3> QED
      BY <1>3, <2>2, <3>3, <3>4, <3>5, BoardCreates
  <2>4. CASE p.op = "update" /\ p.syncs
    <3> DEFINE i == p.task
               from == tasks[i].holder
    <3>1. /\ i \in DOMAIN tasks /\ DOMAIN p.rows = {i} /\ p.gone = {}
          /\ p.rows[i].holder \in User \ {from}
      BY <1>1, <2>1, <2>4 DEF LoneRows, BoardRows
    <3>2. /\ DOMAIN new = DOMAIN tasks /\ new[i] = p.rows[i]
          /\ \A j \in DOMAIN tasks \ {i} : new[j] = tasks[j]
      BY <3>1 DEF AsSeen
    <3>3. from \in Hold(tasks)
      BY <3>1 DEF Hold
    <3>4. Hold(new) \in { Hold(tasks) \cup {p.rows[i].holder},
                          (Hold(tasks) \ {from}) \cup {p.rows[i].holder} }
      <4>1. CASE \E j \in DOMAIN tasks \ {i} : tasks[j].holder = from
        <5>1. Hold(new) = Hold(tasks) \cup {p.rows[i].holder}
          BY <3>1, <3>2, <4>1 DEF Hold
        <5> QED
          BY <5>1
      <4>2. CASE \A j \in DOMAIN tasks \ {i} : tasks[j].holder # from
        <5>1. Hold(new) = (Hold(tasks) \ {from}) \cup {p.rows[i].holder}
          BY <3>1, <3>2, <4>2 DEF Hold
        <5> QED
          BY <5>1
      <4> QED
        BY <4>1, <4>2
    <3> QED
      BY <1>3, <1>4, <2>2, <2>4, <3>1, <3>3, <3>4, BoardReassigns
  <2>5. CASE p.op = "update" /\ ~p.syncs
    <3>1. /\ DOMAIN new = DOMAIN tasks
          /\ \A j \in DOMAIN tasks : new[j].holder = tasks[j].holder
      BY <2>1, <2>5 DEF LoneRows, AsSeen
    <3>2. Hold(new) = Hold(tasks)
      BY <3>1 DEF Hold
    <3>3. Told(roster') = Told(roster)
      BY <1>1, <1>2, <2>5 DEF Typed, Over, Told
    <3> QED
      BY <1>3, <3>1, <3>2, <3>3, BoardStays
  <2>6. CASE p.op = "remove"
    <3> DEFINE i == p.task
               from == tasks[i].holder
    <3>1. /\ i \in DOMAIN tasks /\ p.gone = {i}
          /\ \A j \in DOMAIN p.rows : j \in DOMAIN tasks /\ p.rows[j].holder = tasks[j].holder
      BY <1>1, <2>1, <2>6 DEF BoardRows
    <3>2. /\ DOMAIN new = DOMAIN tasks \ {i}
          /\ \A j \in DOMAIN tasks \ {i} : new[j].holder = tasks[j].holder
      BY <3>1 DEF AsSeen
    <3>3. from \in Hold(tasks)
      BY <3>1 DEF Hold
    <3>4. Hold(new) \in { Hold(tasks), Hold(tasks) \ {from} }
      <4>1. CASE \E j \in DOMAIN tasks \ {i} : tasks[j].holder = from
        <5>1. Hold(new) = Hold(tasks)
          BY <3>1, <3>2, <4>1 DEF Hold
        <5> QED
          BY <5>1
      <4>2. CASE \A j \in DOMAIN tasks \ {i} : tasks[j].holder # from
        <5>1. Hold(new) = Hold(tasks) \ {from}
          BY <3>1, <3>2, <4>2 DEF Hold
        <5> QED
          BY <5>1
      <4> QED
        BY <4>1, <4>2
    <3>5. p.syncs
      BY <1>2, <2>6 DEF Typed
    <3> QED
      BY <1>3, <1>4, <2>2, <3>3, <3>4, <3>5, BoardRemoves
  <2> QED
    BY <1>2, <2>3, <2>4, <2>5, <2>6 DEF TxOp
<1> QED
  BY <1>1, <1>2, <1>5, WholeEnds

LEMMA AbortWhole ==
  ASSUME WritesCarry, LoneInv, NEW s \in Slot, Abort(s)
  PROVE  WholeInv' /\ EndsAs(s)
<1>1. /\ inflight[s] # Idle /\ inflight' = [inflight EXCEPT ![s] = Idle]
      /\ UNCHANGED <<tasks, roster>> /\ Typed(inflight[s])
  BY DEF Abort, LoneInv, tables
<1>2. inflight[s].op # "idle"
  BY <1>1 DEF Typed
<1>3. UNCHANGED Board!boardVars
  BY <1>1, BoardStays
<1> QED
  BY <1>1, <1>2, <1>3, WholeEnds

LEMMA WriteReorderWhole ==
  ASSUME WritesCarry, LoneInv, NEW s \in Slot, WriteReorder(s)
  PROVE  WholeInv' /\ EndsAs(s)
<1> DEFINE p == inflight[s]
           new == After(tasks, p.to, DOMAIN tasks)
<1>1. /\ p.op = "reorder" /\ inflight' = [inflight EXCEPT ![s] = Idle]
      /\ roster' = roster /\ RowList(tasks) /\ Typed(p)
      /\ tasks' = [i \in DOMAIN tasks |->
           IF i \in DOMAIN Placed(p.to) THEN Placed(p.to)[i] ELSE tasks[i]]
  BY DEF WriteReorder, Ended, LoneInv
<1>2. tasks' = new
  BY <1>1 DEF After, Placed, Moved
<1>3. p.to \subseteq (1 .. MaxTasks) \X (0 .. MaxTasks)
  BY <1>1 DEF Typed
<1>4. DOMAIN new = DOMAIN tasks /\ \A i \in DOMAIN tasks : new[i].holder = tasks[i].holder
  BY <1>1, <1>3, AfterTyped
<1> HIDE DEF new
<1>5. Hold(new) = Hold(tasks)
  BY <1>4 DEF Hold
<1>6. UNCHANGED Board!boardVars
  BY <1>1, <1>2, <1>4, <1>5, BoardStays
<1>7. p.op # "idle"
  BY <1>1
<1> QED
  BY <1>1, <1>6, <1>7, WholeEnds

LEMMA RosterWritesWhole ==
  ASSUME WritesInv, LoneInv, WholeInv, NEW s \in Slot,
         WriteJoin(s) \/ WriteLeave(s) \/ WriteHandOver(s)
  PROVE  WholeInv' /\ EndsAs(s)
<1> DEFINE p == inflight[s]
           d == p.user
<1>1. /\ WritesCarry /\ roster \in [User -> Seat]
      /\ inflight' = [inflight EXCEPT ![s] = Idle] /\ UNCHANGED tasks
      /\ p.op \in { "join", "leave", "lead" } /\ Carries(p)
  BY DEF WritesInv, LeadInv, WritesCarry, Ended, WriteJoin, WriteLeave, WriteHandOver
<1>2. d \in User /\ p.op # "idle" /\ roster[d] \in Seat
  BY <1>1 DEF Carries
<1>3. ASSUME p.alone PROVE Board!BoardNext
  <2>1. Whole(tasks, roster, p) /\ LoneSound(tasks, p)
    BY <1>2, <1>3 DEF Alone, WholeInv, LoneInv
  <2>2. CASE WriteJoin(s)
    <3>1. /\ roster' = [roster EXCEPT ![d] = [active |-> TRUE, lead |-> @.lead \/ p.leads]]
          /\ p.leads <=> Leads(roster) = {}
      BY <2>1, <2>2 DEF WriteJoin, Whole
    <3>2. ASSUME NEW e \in User
          PROVE  /\ roster'[e].active <=> e = d \/ roster[e].active
                 /\ roster'[e].lead <=> roster[e].lead \/ (e = d /\ Leads(roster) = {})
      <4>1. CASE e = d
        <5> DEFINE leads == roster[d].lead \/ p.leads
        <5>1. roster'[e] = [active |-> TRUE, lead |-> leads]
          BY <1>1, <1>2, <3>1, <4>1
        <5>2. leads <=> roster[e].lead \/ Leads(roster) = {}
          BY <3>1, <4>1
        <5> HIDE DEF leads
        <5>3. roster'[e].active = TRUE /\ roster'[e].lead = leads
          BY <5>1
        <5> QED
          BY <4>1, <5>2, <5>3
      <4>2. CASE e # d
        BY <1>1, <3>1, <4>2
      <4> QED
        BY <4>1, <4>2
    <3>3. /\ { e \in User : roster'[e].active } = Told(roster).active \cup {d}
          /\ { e \in User : roster'[e].lead } =
               IF Leads(roster) = {} THEN Told(roster).lead \cup {d} ELSE Told(roster).lead
      BY <1>2, <3>2 DEF Told
    <3>4. Told(roster') = Board!AddAssignee(Told(roster), d)
      <4>1. Told(roster') = [ active |-> Told(roster).active \cup {d},
                              lead   |-> IF Leads(roster) = {} THEN Told(roster).lead \cup {d}
                                                               ELSE Told(roster).lead ]
        BY <3>3 DEF Told
      <4>2. Board!ActiveLeads(Told(roster)) = Leads(roster)
        BY ToldLeads
      <4> QED
        BY <4>1, <4>2 DEF Board!AddAssignee
    <3> QED
      BY <1>1, <1>2, <3>4, BoardRosters
  <2>3. CASE WriteLeave(s)
    <3>1. p.op = "leave" /\ roster' = [roster EXCEPT ![d] = [active |-> FALSE, lead |-> FALSE]]
      BY <2>3 DEF WriteLeave
    <3>2. roster[d].active /\ d \notin Hold(tasks)
      BY <2>1, <3>1 DEF Whole, LoneSound
    <3>3. ASSUME NEW e \in User
          PROVE  /\ roster'[e].active <=> e # d /\ roster[e].active
                 /\ roster'[e].lead <=> e # d /\ roster[e].lead
      BY <1>1, <3>1
    <3>4. /\ { e \in User : roster'[e].active } = Told(roster).active \ {d}
          /\ { e \in User : roster'[e].lead } = Told(roster).lead \ {d}
      BY <3>3 DEF Told
    <3>5. Told(roster') = Board!RemoveAssignee(Told(roster), d)
      BY <3>4 DEF Told, Board!RemoveAssignee
    <3>6. d \in Told(roster).active \ Hold(tasks)
      BY <1>2, <3>2 DEF Told
    <3> QED
      BY <1>1, <1>2, <3>5, <3>6, BoardRosters
  <2>4. CASE WriteHandOver(s)
    <3>1. roster' = Over(roster, Handed(roster, d))
      BY <2>4 DEF WriteHandOver, Over
    <3>2. Told(roster') = Board!SetLead(Told(roster), d)
      BY <1>1, <1>2, <3>1, HandedTold
    <3> QED
      BY <1>1, <1>2, <3>2, BoardRosters
  <2> QED
    BY <2>2, <2>3, <2>4
<1> QED
  BY <1>1, <1>2, <1>3, WholeEnds

-----------------------------------------------------------------------------
LEMMA WholeInit == WritesInit => WholeInv /\ Board!BoardInit
<1> SUFFICES ASSUME WritesInit PROVE WholeInv /\ Board!BoardInit
  OBVIOUS
<1>1. /\ \A s \in Slot : inflight[s] = Idle
      /\ DOMAIN tasks = {} /\ \A d \in User : roster[d] = [active |-> FALSE, lead |-> FALSE]
  BY DEF WritesInit
<1>2. WholeInv
  BY <1>1 DEF WholeInv, Alone, Idle
<1>3. /\ Hold(tasks) = {} /\ (DOMAIN tasks # {}) = FALSE
      /\ { d \in User : roster[d].active } = {} /\ { d \in User : roster[d].lead } = {}
  BY <1>1 DEF Hold
<1>4. Board!BoardInit
  BY <1>3 DEF Board!BoardInit, Board!EmptyRoster
<1> QED
  BY <1>2, <1>4

\* A step leaves the tables and ends nothing, or ends one request.
LEMMA WholeNext ==
  ASSUME WritesInv, LoneInv, WholeInv, LoneInv', [WritesNext]_vars
  PROVE  WholeInv' /\ (Quiet \/ \E s \in Slot : EndsAs(s))
<1>0. WritesCarry
  BY DEF WritesInv
<1>1. CASE UNCHANGED vars
  <2>1. UNCHANGED <<tasks, roster, inflight>>
    BY <1>1 DEF vars, tables
  <2> QED
    BY <2>1 DEF WholeInv, Alone, Quiet
<1>2. CASE WritesNext
  <2>1. PICK s \in Slot : TaskWrite(s) \/ RosterWrite(s) \/ Reordering(s) \/ Abort(s)
    BY <1>2 DEF WritesNext
  <2>2. CASE TaskWrite(s)
    <3>1. CASE Commit(s)
      BY <3>1, CommitWhole
    <3>2. CASE ~Commit(s)
      BY <1>0, <2>2, <3>2, InsertWhole, LoadRemoveWhole, LoadUpdateWhole, WriteUpdateWhole,
         DeleteWhole, CloseGapWhole, ReadHoldersWhole, ReconcileWhole, CountLeadsWhole,
         PromoteWhole, SumUpWhole DEF TaskWrite
    <3> QED
      BY <3>1, <3>2
  <2>3. CASE RosterWrite(s)
    BY <1>0, <2>3, RosterLoadsWhole, RosterWritesWhole DEF RosterWrite
  <2>4. CASE Reordering(s)
    <3>1. \A n \in 0 .. LastPlace(tasks) : n \in Nat
      OBVIOUS
    <3> QED
      BY <1>0, <2>4, <3>1, LoadReorderWhole, WriteReorderWhole DEF Reordering
  <2>5. CASE Abort(s)
    BY <1>0, <2>5, AbortWhole
  <2> QED
    BY <2>1, <2>2, <2>3, <2>4, <2>5
<1> QED
  BY <1>1, <1>2

\* The whole of what is inductive, and that the requests keep their word.
LEMMA WritesInvariants ==
  WritesSpec => [](WritesInv /\ LoneInv /\ WholeInv)
<1>1. WritesInit => WritesInv /\ LoneInv /\ WholeInv
  BY InitInv, LoneInit, WholeInit
<1>2. (WritesInv /\ LoneInv /\ WholeInv) /\ [WritesNext]_vars
        => (WritesInv /\ LoneInv /\ WholeInv)'
  BY NextInv, LoneNext, WholeNext
<1> QED
  BY <1>1, <1>2, PTL DEF WritesSpec

(***************************************************************************)
(* A request that overlaps no other is one step of TaskBoard or none, for  *)
(* all its statements and whatever overlapping requests have made of the   *)
(* tables before it: what lets TaskBoard, and Tasks with it, take each     *)
(* handler as a unit where no other runs.                                  *)
(***************************************************************************)
THEOREM LoneWritesAreUnits == WritesSpec => LoneWritesAreSteps
<1>1. ASSUME WritesInv /\ LoneInv /\ WholeInv, LoneInv', [WritesNext]_vars,
             NEW s \in Slot, inflight[s] # Idle, inflight'[s] = Idle, inflight[s].alone
      PROVE  [Board!BoardNext]_(Board!boardVars)
  <2>1. ~Quiet
    BY <1>1 DEF Quiet
  <2>2. PICK t \in Slot : EndsAs(t)
    BY <1>1, <2>1, WholeNext
  <2>3. t = s
    BY <1>1, <2>2 DEF EndsAs
  <2> QED
    BY <1>1, <2>2, <2>3 DEF EndsAs
<1>2. (WritesInv /\ LoneInv /\ WholeInv) /\ LoneInv' /\ [WritesNext]_vars
        => [ \A s \in Slot : inflight[s] # Idle /\ inflight'[s] = Idle /\ inflight[s].alone
               => [Board!BoardNext]_(Board!boardVars) ]_vars
  BY <1>1
<1> QED
  BY <1>2, WritesInvariants, PTL DEF WritesSpec, LoneWritesAreSteps

(***************************************************************************)
(* Where one request is served at a time the transactions implement        *)
(* TaskBoard, the roster it starts from and every step.                    *)
(***************************************************************************)
THEOREM SerialWritesRefine ==
  ASSUME OneSlot
  PROVE  WritesSpec => Board!BoardSpec
<1>1. WritesInit => Board!BoardInit
  BY WholeInit
<1>2. ASSUME WritesInv /\ LoneInv /\ WholeInv, LoneInv', [WritesNext]_vars
      PROVE  [Board!BoardNext]_(Board!boardVars)
  <2>1. CASE Quiet
    <3>1. UNCHANGED Board!boardVars
      BY <2>1, BoardStays DEF Quiet
    <3> QED
      BY <3>1
  <2>2. ASSUME NEW s \in Slot, EndsAs(s) PROVE [Board!BoardNext]_(Board!boardVars)
    <3>1. inflight[s].alone
      BY <1>2, <2>2 DEF EndsAs, WholeInv
    <3> QED
      BY <2>2, <3>1 DEF EndsAs
  <2> QED
    BY <1>2, <2>1, <2>2, WholeNext
<1> QED
  BY <1>1, <1>2, WritesInvariants, PTL DEF WritesSpec, Board!BoardSpec

=============================================================================
