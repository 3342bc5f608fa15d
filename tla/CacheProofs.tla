----------------------------- MODULE CacheProofs ----------------------------
(***************************************************************************)
(* Proofs about TicketCache, for any slots, values and bounds: how much of *)
(* one row of the server the tab shows, how long, and that a GET that      *)
(* brings something new is shown.                                          *)
(***************************************************************************)
EXTENDS TicketCache, FiniteSetTheorems, TLAPS

Rows == [status : Status, plan : Plan, note : Nat]

Copies == [status : Status, plan : Plan, note : Nat, at : Nat, of : Nat \ {0}, thread : Nat]

\* The answer to a move is the row alone.
Answers == {<<>>} \cup Copies \cup [status : Status, plan : Plan, note : Nat, at : Nat, of : Nat \ {0}]

\* What a write on its way carries.
Carried ==
  { c \in [stage : {"sent", "saved", "answered", "failed"}, field : {"status", "plan"},
           value : Status \cup Plan, previous : Copies, answer : Answers] :
      /\ c.field = "status" => c.value \in Status
      /\ c.field = "plan" => c.value \in Plan
      /\ c.stage = "answered" => c.answer # <<>> }

Seen == [saved : Nat, edited : BOOLEAN, overlap : BOOLEAN, tangle : BOOLEAN]

CacheTypeOK ==
  /\ log \in Seq(Rows) /\ Len(log) >= 1
  /\ thread \in Nat
  /\ cache \in Copies
  /\ get \in {NoGet, Sent} \cup [stage : {"answered"}, ticket : Copies]
  /\ writes \in [Slot -> {Idle} \cup Carried]
  /\ seen \in Seen

\* How many edits the copy shows that no answer has confirmed.
Ticks(copy) == copy.at - Apart * copy.of

\* A copy has the status of the row it stands on, and its plan unless an edit
\* is shown early.
FromRow(copy, rows) ==
  /\ copy.of \in 1 .. Len(rows)
  /\ copy.status = rows[copy.of].status
  /\ Ticks(copy) >= 0
  /\ ~Unsaved(copy) => copy.plan = rows[copy.of].plan

\* The columns beside the status are an earlier row's, or the row's own.
Lags(copy, rows) == \E m \in 1 .. copy.of : copy.note = rows[m].note
OfItsRow(copy, rows) == copy.note = rows[copy.of].note

ARow(copy, rows) == FromRow(copy, rows) /\ ~Unsaved(copy) /\ OfItsRow(copy, rows)

CopiesAreReal ==
  /\ FromRow(cache, log)
  /\ \A w \in Slot : ~Is(w, "idle") => FromRow(writes[w].previous, log)
  /\ \A w \in Slot : Is(w, "answered") => ARow(writes[w].answer, log)
  /\ get.stage = "answered" => ARow(get.ticket, log)

\* Each edit shown early is one of a write on its way, so that what the server
\* stamps later is newer than all of them together.
EditsOnTheWay == ~seen.tangle => Ticks(cache) <= Cardinality(InFlight)

\* A write alone on its way stands on the last one saved, whatever becomes of it.
AloneIsLatest ==
  /\ seen.saved \in 1 .. Len(log)
  /\ ~seen.overlap =>
       /\ cache.of >= seen.saved
       /\ \A v, w \in InFlight : v = w
       /\ \A w \in Slot : ~Is(w, "idle") => writes[w].previous.of >= seen.saved
       /\ \A w \in Slot : Is(w, "answered") => writes[w].answer.of >= seen.saved

\* A late GET is no newer than the columns kept from it, so it brings the others
\* from no later row.
NotesLag ==
  ~seen.tangle =>
    /\ Lags(cache, log)
    /\ \A w \in Slot : ~Is(w, "idle") => Lags(writes[w].previous, log)

\* Until a plan edit of the tab is answered, no GET that lands was served before
\* the row on screen, nor before one that may be put back: a write on leaving
\* and a move on success give up the GET on the wire.
NotesOfTheirRow ==
  ~seen.tangle /\ ~seen.edited =>
    /\ OfItsRow(cache, log)
    /\ \A w \in Slot : ~Is(w, "idle") => OfItsRow(writes[w].previous, log)
    /\ get.stage = "answered" =>
         /\ get.ticket.of >= cache.of
         /\ \A w \in Slot : ~Is(w, "idle") => get.ticket.of >= writes[w].previous.of

CacheInv ==
  /\ CacheTypeOK /\ CopiesAreReal /\ EditsOnTheWay /\ AloneIsLatest
  /\ NotesLag /\ NotesOfTheirRow

-----------------------------------------------------------------------------
(* Copies                                                                  *)

LEMMA ApartIs == Apart \in Nat /\ Apart = Cardinality(Slot) + 1
  BY CacheAssumption, FS_CardinalityType DEF Apart

LEMMA InFlightIs ==
  ASSUME CacheTypeOK
  PROVE  /\ IsFiniteSet(InFlight) /\ Cardinality(InFlight) \in Nat
         /\ Cardinality(InFlight) < Apart
         /\ InFlight = {} => Cardinality(InFlight) = 0
         /\ \A w \in Slot : w \in InFlight <=> ~Is(w, "idle")
<1>1. InFlight \subseteq Slot
  BY DEF InFlight
<1>2. IsFiniteSet(InFlight) /\ Cardinality(InFlight) <= Cardinality(Slot)
  BY <1>1, CacheAssumption, FS_Subset
<1>3. InFlight = {} => Cardinality(InFlight) = 0
  BY FS_EmptySet
<1>4. ASSUME NEW w \in Slot
      PROVE  w \in InFlight <=> ~Is(w, "idle")
  BY DEF CacheTypeOK, Carried, InFlight, Is, Idle
<1> QED
  BY <1>2, <1>3, <1>4, ApartIs, FS_CardinalityType, CacheAssumption

\* A whole ticket merged into a copy replaces it.
LEMMA MergeWhole ==
  ASSUME NEW old \in Copies, NEW updated \in Copies
  PROVE  Merge(old, updated) = updated
  BY DEF Merge, Copies

\* An edit shown early changes the plan, and the time by a tick.
LEMMA MergeEdit ==
  ASSUME NEW old \in Copies, NEW p \in Plan
  PROVE  Merge(old, [plan |-> p, at |-> NextTime(old)])
           = [status |-> old.status, plan |-> p, note |-> old.note, at |-> old.at + 1,
              of |-> old.of, thread |-> old.thread]
<1> DEFINE edit == [plan |-> p, at |-> NextTime(old)]
           copy == [status |-> old.status, plan |-> p, note |-> old.note,
                    at |-> old.at + 1, of |-> old.of, thread |-> old.thread]
<1>1. DOMAIN old = DOMAIN copy /\ DOMAIN edit \subseteq DOMAIN copy
  BY DEF Copies
<1>2. Merge(old, edit) = [f \in DOMAIN copy |-> IF f \in DOMAIN edit THEN edit[f] ELSE old[f]]
  BY <1>1, Zenon DEF Merge
<1>3. \A f \in DOMAIN copy : copy[f] = IF f \in DOMAIN edit THEN edit[f] ELSE old[f]
  BY DEF NextTime, Copies
<1> QED
  BY <1>2, <1>3

\* Of two copies the newer one's defended columns are kept, with the rest as just
\* fetched.
LEMMA KeepNewerIs ==
  ASSUME NEW old \in Copies, NEW fetched \in Copies
  PROVE  KeepNewer(old, fetched) =
           IF old.at <= fetched.at THEN fetched
                                   ELSE [old EXCEPT !.note = fetched.note,
                                                    !.thread = fetched.thread]
  BY DEF KeepNewer, Merge, WRITE_OWNED_FIELDS, Copies, Restrict

LEMMA TicketIs ==
  ASSUME CacheTypeOK
  PROVE  /\ Ticket \in Copies
         /\ Ticket = [status |-> log[Len(log)].status, plan |-> log[Len(log)].plan,
                      note |-> log[Len(log)].note,
                      at |-> Apart * Len(log), of |-> Len(log), thread |-> thread]
         /\ ARow(Ticket, log)
<1>1. Len(log) \in 1 .. Len(log) /\ log[Len(log)] \in Rows
  <2>1. log \in Seq(Rows) /\ Len(log) \in Nat /\ Len(log) >= 1
    BY DEF CacheTypeOK
  <2>2. Len(log) \in 1 .. Len(log)
    BY <2>1
  <2>3. \A i \in 1 .. Len(log) : log[i] \in Rows
    BY <2>1
  <2> QED
    BY <2>2, <2>3
<1>2. Ticket = [status |-> log[Len(log)].status, plan |-> log[Len(log)].plan,
                note |-> log[Len(log)].note,
                at |-> Apart * Len(log), of |-> Len(log), thread |-> thread]
  BY DEF Ticket, Row, Stamped, Merge
<1>3. Apart * Len(log) \in Nat
  BY <1>1, ApartIs
<1>4. Ticket \in Copies
  BY <1>1, <1>2, <1>3 DEF CacheTypeOK, Rows, Copies
<1>5. ~Unsaved(Ticket) /\ Ticks(Ticket) = 0
  BY <1>1, <1>2, <1>3, ApartIs DEF Ticks, Unsaved
<1>6. ARow(Ticket, log)
  BY <1>1, <1>2, <1>5 DEF ARow, FromRow, OfItsRow
<1> QED
  BY <1>2, <1>4, <1>6

-----------------------------------------------------------------------------
(* The log only grows                                                      *)

Grown ==
  /\ log' \in Seq(Rows) /\ Len(log') \in {Len(log), Len(log) + 1}
  /\ \A i \in 1 .. Len(log) : log'[i] = log[i]

LEMMA LogSame ==
  ASSUME CacheTypeOK, log' = log
  PROVE  Grown
  BY DEF CacheTypeOK, Grown

LEMMA LogAppended ==
  ASSUME CacheTypeOK, NEW row \in Rows, log' = Append(log, row)
  PROVE  /\ Grown /\ Len(log') = Len(log) + 1
         /\ log'[Len(log) + 1] = row
  BY DEF CacheTypeOK, Grown

LEMMA AppendedIs ==
  ASSUME CacheTypeOK, NEW f, NEW v,
         \/ f = "status" /\ v \in Status
         \/ f = "plan" /\ v \in Plan,
         Append1(f, v)
  PROVE  /\ Grown /\ Len(log') = Len(log) + 1
         /\ log'[Len(log')] = After(f, v)
         /\ log'[Len(log')] \in Rows
<1>1. log[Len(log)] \in Rows
  <2>1. log \in Seq(Rows) /\ Len(log) \in Nat /\ Len(log) >= 1
    BY DEF CacheTypeOK
  <2> QED
    BY <2>1
<1>2. After(f, v) \in Rows
  <2>1. Len(log) + 1 \in Nat
    BY DEF CacheTypeOK
  <2>2. CASE f = "status"
    BY <1>1, <2>1, <2>2 DEF After, Rows
  <2>3. CASE f = "plan"
    BY <1>1, <2>3 DEF After, Rows
  <2> QED
    BY <2>2, <2>3
<1>3. log' = Append(log, After(f, v))
  BY DEF Append1
<1> QED
  BY <1>2, <1>3, LogAppended

LEMMA CopyKept ==
  ASSUME CacheTypeOK, Grown, NEW copy
  PROVE  /\ FromRow(copy, log) => FromRow(copy, log')
         /\ ARow(copy, log) => ARow(copy, log')
         /\ copy.of \in 1 .. Len(log) =>
              /\ Lags(copy, log) => Lags(copy, log')
              /\ OfItsRow(copy, log) => OfItsRow(copy, log')
  BY DEF CacheTypeOK, Grown, FromRow, ARow, Lags, OfItsRow

\* A row the server had lags behind nothing.
LEMMA RowLags ==
  ASSUME NEW copy, NEW rows, copy.of \in Nat \ {0}, OfItsRow(copy, rows)
  PROVE  Lags(copy, rows)
  BY DEF OfItsRow, Lags

-----------------------------------------------------------------------------
(* The writes on their way                                                 *)

LEMMA Holds ==
  ASSUME CacheTypeOK, NEW w \in Slot, ~Is(w, "idle")
  PROVE  writes[w] \in Carried
  BY DEF CacheTypeOK, Is, Idle

LEMMA InFlightSame ==
  ASSUME CacheTypeOK, CacheTypeOK', \A w \in Slot : Is(w, "idle")' <=> Is(w, "idle")
  PROVE  InFlight' = InFlight
<1>1. InFlight = {w \in Slot : ~Is(w, "idle")}
  BY DEF CacheTypeOK, Carried, InFlight, Is, Idle
<1>2. ASSUME NEW w \in Slot PROVE writes'[w] # Idle <=> ~Is(w, "idle")'
  BY DEF CacheTypeOK, Carried, Is, Idle
<1>3. InFlight' = {w \in Slot : ~Is(w, "idle")'}
  BY <1>2 DEF InFlight
<1> QED
  BY <1>1, <1>3

\* Nothing the tab holds moves, but for a GET being sent, lost or served.
LEMMA NotesKept ==
  ASSUME CacheInv, Grown, UNCHANGED <<cache, seen>>,
         \A w \in Slot : ~Is(w, "idle")' =>
           ~Is(w, "idle") /\ writes'[w].previous = writes[w].previous,
         \/ get' = get
         \/ get' \in {NoGet, Sent}
         \/ get' = [stage |-> "answered", ticket |-> Ticket]
  PROVE  NotesLag' /\ NotesOfTheirRow'
<1>1. cache.of \in 1 .. Len(log) /\ Len(log) \in Nat
      /\ \A w \in Slot : ~Is(w, "idle") => writes[w].previous.of \in 1 .. Len(log)
  BY DEF CacheInv, CacheTypeOK, CopiesAreReal, FromRow
<1>2. NotesLag'
  BY <1>1, CopyKept DEF CacheInv, NotesLag
<1>3. ASSUME ~seen.tangle, ~seen.edited, get'.stage = "answered"
      PROVE  /\ get'.ticket.of >= cache.of
             /\ \A w \in Slot : ~Is(w, "idle") => get'.ticket.of >= writes[w].previous.of
  <2>1. CASE get' = get
    BY <1>3, <2>1 DEF CacheInv, NotesOfTheirRow
  <2>2. CASE get' = [stage |-> "answered", ticket |-> Ticket]
    <3>1. get'.ticket.of = Len(log)
      BY <2>2, TicketIs DEF CacheInv
    <3> QED
      BY <1>1, <3>1
  <2> QED
    BY <1>3, <2>1, <2>2 DEF NoGet, Sent
<1>4. NotesOfTheirRow'
  BY <1>1, <1>3, CopyKept DEF CacheInv, NotesOfTheirRow
<1> QED
  BY <1>2, <1>4

-----------------------------------------------------------------------------
(* What each action leaves behind                                          *)

LEMMA OthersKeep == ASSUME CacheInv, OthersWrite PROVE CacheInv'
<1>1. Grown /\ log' \in Seq(Rows) /\ Len(log') = Len(log) + 1
  BY AppendedIs DEF CacheInv, OthersWrite, Grown
<1>2. UNCHANGED <<thread, cache, get, writes, seen>>
  BY DEF OthersWrite
<1>3. CacheTypeOK'
  BY <1>1, <1>2 DEF CacheInv, CacheTypeOK
<1>4. CopiesAreReal'
  BY <1>1, <1>2, CopyKept DEF CacheInv, CopiesAreReal, Is
<1>5. InFlight' = InFlight
  BY <1>2 DEF InFlight
<1>6. EditsOnTheWay'
  BY <1>2, <1>5 DEF CacheInv, EditsOnTheWay, Ticks
<1>7. AloneIsLatest'
  BY <1>1, <1>2, <1>5 DEF CacheInv, CacheTypeOK, AloneIsLatest, Is
<1>8. NotesLag' /\ NotesOfTheirRow'
  BY <1>1, <1>2, NotesKept DEF Is
<1> QED
  BY <1>3, <1>4, <1>6, <1>7, <1>8 DEF CacheInv

\* Comments and GETs on the wire: no row and no write of the tab moves.
LEMMA WireKeeps ==
  ASSUME CacheInv, UNCHANGED <<log, cache, writes, seen>>, thread' \in Nat,
         \/ get' = get
         \/ get' \in {NoGet, Sent}
         \/ get' = [stage |-> "answered", ticket |-> Ticket]
  PROVE  CacheInv'
<1>1. get' \in {NoGet, Sent} \cup [stage : {"answered"}, ticket : Copies]
  BY TicketIs DEF CacheInv, CacheTypeOK
<1>2. CacheTypeOK'
  BY <1>1 DEF CacheInv, CacheTypeOK
<1>3. get'.stage = "answered" => ARow(get'.ticket, log)
  BY TicketIs DEF CacheInv, CopiesAreReal, NoGet, Sent
<1>4. CopiesAreReal'
  BY <1>3 DEF CacheInv, CopiesAreReal, Is
<1>5. InFlight' = InFlight
  BY DEF InFlight
<1>6. EditsOnTheWay' /\ AloneIsLatest'
  BY <1>5 DEF CacheInv, EditsOnTheWay, AloneIsLatest, Ticks, Is
<1>7. NotesLag' /\ NotesOfTheirRow'
  BY LogSame, NotesKept DEF CacheInv, Is
<1> QED
  BY <1>2, <1>4, <1>6, <1>7 DEF CacheInv

\* What the server stamps later is newer than all edits on the way together.
LEMMA LateIsOlder ==
  ASSUME CacheInv, ~seen.tangle, NEW f \in Copies, ARow(f, log), ~(cache.at <= f.at)
  PROVE  f.of <= cache.of /\ (InFlight = {} => f.of < cache.of)
<1>1. cache \in Copies
  BY DEF CacheInv, CacheTypeOK
<1>2. f.at = Apart * f.of /\ cache.at = Apart * cache.of + Ticks(cache)
      /\ Ticks(cache) \in Int
  BY <1>1, ApartIs DEF ARow, Unsaved, Ticks, Copies
<1>3. Ticks(cache) < Apart /\ (InFlight = {} => Ticks(cache) <= 0)
  BY <1>2, ApartIs, InFlightIs DEF CacheInv, EditsOnTheWay
<1>4. f.of <= cache.of
  <2> SUFFICES ASSUME f.of >= cache.of + 1 PROVE FALSE
    BY <1>1 DEF Copies
  <2>1. Apart * f.of >= Apart * (cache.of + 1)
    BY <1>1, ApartIs DEF Copies
  <2>2. Apart * (cache.of + 1) = Apart * cache.of + Apart
    BY <1>1, ApartIs DEF Copies
  <2> QED
    BY <1>1, <1>2, <1>3, <2>1, <2>2, ApartIs DEF Copies
<1>5. InFlight = {} => f.of # cache.of
  BY <1>1, <1>2, <1>3, ApartIs DEF Copies
<1> QED
  BY <1>1, <1>4, <1>5 DEF Copies

LEMMA LandGetKeeps == ASSUME CacheInv, LandGet PROVE CacheInv'
<1>1. /\ get.ticket \in Copies /\ ARow(get.ticket, log) /\ cache \in Copies
  BY DEF CacheInv, CacheTypeOK, CopiesAreReal, LandGet, NoGet, Sent
<1>2. cache' = IF cache.at <= get.ticket.at THEN get.ticket
               ELSE [cache EXCEPT !.note = get.ticket.note, !.thread = get.ticket.thread]
  BY <1>1, KeepNewerIs DEF LandGet
<1>3. cache' \in Copies
  BY <1>1, <1>2 DEF Copies
<1>4. CacheTypeOK'
  BY <1>3 DEF CacheInv, CacheTypeOK, LandGet
<1>5. \/ cache' = get.ticket
      \/ /\ cache'.of = cache.of /\ cache'.at = cache.at
         /\ cache'.status = cache.status /\ cache'.plan = cache.plan
  BY <1>1, <1>2 DEF Copies
<1>6. FromRow(cache', log)
  BY <1>1, <1>5 DEF CacheInv, CopiesAreReal, ARow, FromRow, Ticks, Unsaved
<1>7. CopiesAreReal'
  BY <1>6 DEF CacheInv, CopiesAreReal, LandGet, NoGet, Is
<1>8. InFlight' = InFlight
  BY DEF LandGet, InFlight
<1>9. Ticks(get.ticket) = 0
  BY <1>1, ApartIs DEF ARow, Ticks, Unsaved, Copies
<1>10. Ticks(cache') = 0 \/ Ticks(cache') = Ticks(cache)
  BY <1>5, <1>9 DEF Ticks
<1>11. EditsOnTheWay'
  BY <1>8, <1>10, InFlightIs DEF CacheInv, EditsOnTheWay, LandGet, Ticks
<1>12. cache'.of >= cache.of
  <2>1. CASE cache.at <= get.ticket.at
    <3>1. Apart * cache.of <= Apart * get.ticket.of
      BY <1>1, <1>9, <2>1, ApartIs DEF CacheInv, CopiesAreReal, FromRow, Ticks, Copies
    <3>2. Apart \in Nat \ {0} /\ cache.of \in Nat /\ get.ticket.of \in Nat
      <4>1. Cardinality(Slot) \in Nat
        BY FS_CardinalityType, CacheAssumption
      <4> QED
        BY <1>1, <4>1, ApartIs DEF Copies
    <3>3. cache.of <= get.ticket.of
      <4> HIDE DEF Apart
      <4>1. SUFFICES ASSUME get.ticket.of + 1 <= cache.of PROVE FALSE
        BY <3>2
      <4>2. Apart * (get.ticket.of + 1) <= Apart * cache.of
        BY <3>2, <4>1
      <4>3. Apart * (get.ticket.of + 1) = Apart * get.ticket.of + Apart
        BY <3>2
      <4> QED
        BY <3>1, <3>2, <4>2, <4>3
    <3> QED
      BY <1>1, <1>2, <2>1, <3>3 DEF Copies
  <2>2. CASE ~(cache.at <= get.ticket.at)
    BY <1>1, <1>2, <2>2 DEF Copies
  <2> QED
    BY <2>1, <2>2
<1>13. AloneIsLatest'
  BY <1>1, <1>3, <1>8, <1>12
     DEF CacheInv, CacheTypeOK, AloneIsLatest, LandGet, Is, Copies
<1>14. cache'.note = get.ticket.note
  BY <1>1, <1>2 DEF Copies
<1>15. cache' = get.ticket \/ cache'.of = cache.of
  BY <1>5
<1>16. ~seen.tangle => get.ticket.of <= cache'.of
  <2>1. CASE cache' = get.ticket
    BY <1>1, <2>1 DEF Copies
  <2>2. CASE cache' # get.ticket
    <3>1. ~(cache.at <= get.ticket.at) /\ cache'.of = cache.of
      BY <1>2, <1>15, <2>2
    <3>2. ASSUME ~seen.tangle PROVE get.ticket.of <= cache.of
      BY <1>1, <3>1, <3>2, LateIsOlder DEF CacheInv
    <3> QED
      BY <3>1, <3>2
  <2> QED
    BY <2>1, <2>2
<1>17. OfItsRow(get.ticket, log) /\ get.ticket.of \in Nat \ {0}
  BY <1>1 DEF ARow, Copies
<1>18. NotesLag'
  <2>1. ~seen.tangle => Lags(cache', log)
    BY <1>1, <1>3, <1>14, <1>16, <1>17 DEF Lags, OfItsRow, Copies
  <2> QED
    BY <2>1 DEF CacheInv, NotesLag, LandGet, Is
<1>19. NotesOfTheirRow'
  <2>1. ASSUME ~seen.tangle, ~seen.edited PROVE OfItsRow(cache', log)
    <3>1. get.ticket.of >= cache.of
      BY <2>1 DEF CacheInv, NotesOfTheirRow, LandGet
    <3>2. cache'.of = get.ticket.of
      BY <1>1, <1>3, <1>15, <1>16, <2>1, <3>1 DEF Copies
    <3> QED
      BY <1>14, <1>17, <3>2 DEF OfItsRow
  <2> QED
    BY <2>1 DEF CacheInv, NotesOfTheirRow, LandGet, Is, NoGet
<1> QED
  BY <1>4, <1>7, <1>11, <1>13, <1>18, <1>19 DEF CacheInv

\* The server takes up, answers or refuses a write.
LEMMA ServerKeeps ==
  ASSUME CacheInv, Grown, UNCHANGED <<thread, cache, get, seen>>,
         NEW w \in Slot, ~Is(w, "idle"),
         NEW c \in Carried, writes' = [writes EXCEPT ![w] = c],
         c.previous = writes[w].previous,
         c.stage = "answered" => ARow(c.answer, log') /\ c.answer.of >= Len(log)
  PROVE  CacheInv'
<1>1. writes' \in [Slot -> {Idle} \cup Carried] /\ writes'[w] = c
      /\ \A v \in Slot : v # w => writes'[v] = writes[v]
  BY DEF CacheInv, CacheTypeOK
<1>2. log' \in Seq(Rows) /\ Len(log') >= 1 /\ Len(log') >= Len(log) /\ Len(log) \in Nat
      /\ Len(log') \in Nat
  BY DEF CacheInv, CacheTypeOK, Grown
<1>3. CacheTypeOK'
  BY <1>1, <1>2 DEF CacheInv, CacheTypeOK
<1>4. c.stage # "idle"
  BY DEF Carried
<1>5. FromRow(cache', log') /\ (get'.stage = "answered" => ARow(get'.ticket, log'))
  BY CopyKept DEF CacheInv, CopiesAreReal
<1>6. ASSUME NEW v \in Slot
      PROVE  /\ ~Is(v, "idle")' => FromRow(writes'[v].previous, log')
             /\ Is(v, "answered")' => ARow(writes'[v].answer, log')
  BY <1>1, CopyKept DEF CacheInv, CopiesAreReal, Is
<1>7. CopiesAreReal'
  BY <1>5, <1>6 DEF CopiesAreReal
<1>8. InFlight' = InFlight
  BY <1>1, <1>3, <1>4, InFlightSame DEF CacheInv, Is
<1>9. EditsOnTheWay'
  BY <1>8 DEF CacheInv, EditsOnTheWay, Ticks
<1>10. seen.saved \in 1 .. Len(log) /\ seen'.saved \in 1 .. Len(log')
  BY <1>2 DEF CacheInv, CacheTypeOK, AloneIsLatest
<1>11. ASSUME NEW v \in Slot, ~seen'.overlap
       PROVE  /\ ~Is(v, "idle")' => writes'[v].previous.of >= seen'.saved
              /\ Is(v, "answered")' => writes'[v].answer.of >= seen'.saved
  <2>1. CASE v = w
    <3>1. writes[w].previous.of >= seen.saved
      BY <1>11 DEF CacheInv, AloneIsLatest
    <3>2. c.stage = "answered" => c.answer.of >= seen.saved
      BY <1>2, <1>10 DEF ARow, FromRow
    <3> QED
      BY <1>1, <2>1, <3>1, <3>2 DEF Is
  <2>2. CASE v # w
    BY <1>1, <1>11, <2>2 DEF CacheInv, AloneIsLatest, Is
  <2> QED
    BY <2>1, <2>2
<1>12. AloneIsLatest'
  BY <1>8, <1>10, <1>11 DEF CacheInv, AloneIsLatest
<1>13. NotesLag' /\ NotesOfTheirRow'
  BY <1>1, NotesKept DEF Is
<1> QED
  BY <1>3, <1>7, <1>9, <1>12, <1>13 DEF CacheInv

LEMMA ServeMoveKeeps ==
  ASSUME CacheInv, NEW w \in Slot, ServeMove(w)
  PROVE  CacheInv'
<1> DEFINE row == Stamped(After("status", writes[w].value), Len(log) + 1)
           c == [writes[w] EXCEPT !.stage = "answered", !.answer = row]
<1>1. writes[w] \in Carried /\ writes[w].value \in Status /\ ~Is(w, "idle")
  BY Holds DEF CacheInv, ServeMove, Is, Carried
<1>2. /\ Grown /\ Len(log') = Len(log) + 1
      /\ log'[Len(log')] = After("status", writes[w].value)
      /\ log'[Len(log')] \in Rows
  BY <1>1, AppendedIs DEF CacheInv, ServeMove
<1>3. writes' = [writes EXCEPT ![w] = c]
  BY <1>1 DEF ServeMove, CacheInv, CacheTypeOK, Carried
<1>4. Len(log) \in Nat /\ Apart * (Len(log) + 1) \in Nat /\ Len(log) + 1 \in 1 .. Len(log')
  BY <1>2, ApartIs DEF CacheInv, CacheTypeOK
<1>5. row \in [status : Status, plan : Plan, note : Nat, at : Nat, of : Nat \ {0}]
  BY <1>2, <1>4 DEF Rows, Stamped
<1>6. /\ row.of = Len(log) + 1 /\ row.at = Apart * (Len(log) + 1)
      /\ row.status = log'[row.of].status /\ row.plan = log'[row.of].plan
      /\ row.note = log'[row.of].note
  BY <1>2 DEF Stamped
<1> HIDE DEF row
<1>7. row \in Answers /\ row # <<>>
  BY <1>5 DEF Answers
<1>8. c \in Carried /\ c.previous = writes[w].previous /\ c.answer = row
  BY <1>1, <1>7 DEF Carried
<1>9. ~Unsaved(row) /\ Ticks(row) = 0
  BY <1>4, <1>6, ApartIs DEF Unsaved, Ticks
<1>10. ARow(row, log') /\ row.of >= Len(log)
  BY <1>4, <1>6, <1>9 DEF ARow, FromRow, OfItsRow
<1> HIDE DEF c
<1> QED
  BY <1>1, <1>2, <1>3, <1>8, <1>10, ServerKeeps DEF ServeMove

LEMMA SaveKeeps ==
  ASSUME CacheInv, NEW w \in Slot, Save(w)
  PROVE  CacheInv'
<1> DEFINE c == [writes[w] EXCEPT !.stage = "saved"]
<1>1. writes[w] \in Carried /\ ~Is(w, "idle")
  BY Holds DEF CacheInv, Save, Is
<1>2. Grown
  <2>1. \/ writes[w].field = "status" /\ writes[w].value \in Status
        \/ writes[w].field = "plan" /\ writes[w].value \in Plan
    BY <1>1 DEF Carried
  <2> QED
    BY <2>1, AppendedIs DEF CacheInv, Save
<1>3. writes' = [writes EXCEPT ![w] = c]
  BY DEF Save
<1>4. c \in Carried /\ c.previous = writes[w].previous /\ c.stage # "answered"
  BY <1>1 DEF Carried
<1> HIDE DEF c
<1> QED
  BY <1>1, <1>2, <1>3, <1>4, ServerKeeps DEF Save

LEMMA AnswerSavedKeeps ==
  ASSUME CacheInv, NEW w \in Slot, AnswerSaved(w)
  PROVE  CacheInv'
<1> DEFINE c == [writes[w] EXCEPT !.stage = "answered", !.answer = Ticket]
<1>1. writes[w] \in Carried /\ ~Is(w, "idle")
  BY Holds DEF CacheInv, AnswerSaved, Is
<1>2. Grown
  BY LogSame DEF CacheInv, AnswerSaved
<1>3. writes' = [writes EXCEPT ![w] = c]
  BY <1>1 DEF AnswerSaved, CacheInv, CacheTypeOK, Carried
<1>4. Ticket \in Copies /\ ARow(Ticket, log) /\ Ticket.of = Len(log) /\ Len(log) \in Nat
  BY TicketIs DEF CacheInv, CacheTypeOK
<1>5. Ticket \in Answers /\ Ticket # <<>>
  <2>1. Ticket \in Answers
    BY <1>4 DEF Answers
  <2>2. "status" \in DOMAIN Ticket
    BY <1>4 DEF Copies
  <2>3. DOMAIN <<>> = {}
    OBVIOUS
  <2> QED
    BY <2>1, <2>2, <2>3
<1>6. c \in Carried /\ c.previous = writes[w].previous /\ c.answer = Ticket
  BY <1>1, <1>5 DEF Carried
<1>7. ARow(Ticket, log') /\ Ticket.of >= Len(log)
  BY <1>2, <1>4, CopyKept DEF CacheInv
<1> HIDE DEF c
<1> QED
  BY <1>1, <1>2, <1>3, <1>6, <1>7, ServerKeeps DEF AnswerSaved

LEMMA FailKeeps ==
  ASSUME CacheInv, NEW w \in Slot, Fail(w)
  PROVE  CacheInv'
<1> DEFINE c == [writes[w] EXCEPT !.stage = "failed", !.answer = <<>>]
<1>1. writes[w] \in Carried /\ ~Is(w, "idle")
  BY Holds DEF CacheInv, Fail, Is
<1>2. Grown
  BY LogSame DEF CacheInv, Fail
<1>3. writes' = [writes EXCEPT ![w] = c]
  BY <1>1 DEF Fail, CacheInv, CacheTypeOK, Carried
<1>4. c \in Carried /\ c.previous = writes[w].previous /\ c.stage # "answered"
  BY <1>1 DEF Carried, Answers
<1> HIDE DEF c
<1> QED
  BY <1>1, <1>2, <1>3, <1>4, ServerKeeps DEF Fail

-----------------------------------------------------------------------------
(* What the tab does with its writes                                       *)

LEMMA MutateKeeps ==
  ASSUME CacheInv, NEW w \in Slot, NEW f, NEW v,
         \/ f = "status" /\ v \in Status
         \/ f = "plan" /\ v \in Plan,
         Mutate(w, f, v)
  PROVE  CacheInv'
<1> DEFINE c == [stage |-> "sent", field |-> f, value |-> v,
                 previous |-> cache, answer |-> <<>>]
           shown == [status |-> cache.status, plan |-> v, note |-> cache.note,
                     at |-> cache.at + 1, of |-> cache.of, thread |-> cache.thread]
<1>1. cache \in Copies /\ FromRow(cache, log) /\ seen \in Seen
  BY DEF CacheInv, CacheTypeOK, CopiesAreReal
<1>2. c \in Carried /\ c.stage = "sent" /\ c.previous = cache
  BY <1>1 DEF Carried, Answers
<1>3. writes' = [writes EXCEPT ![w] = c]
  BY DEF Mutate
<1>4. IF f = "plan" THEN cache' = shown ELSE cache' = cache
  BY <1>1, MergeEdit DEF Mutate
<1>5. f = "plan" => shown \in Copies
  BY <1>1 DEF Copies
<1>6. f = "plan" => FromRow(shown, log) /\ Ticks(shown) = Ticks(cache) + 1
                    /\ shown.of = cache.of /\ shown.note = cache.note
  <2>1. Ticks(shown) = Ticks(cache) + 1
    BY <1>1, ApartIs DEF Ticks, Copies
  <2>2. Ticks(cache) >= 0 /\ Ticks(cache) \in Int
    BY <1>1, ApartIs DEF FromRow, Ticks, Copies
  <2>3. Unsaved(shown)
    BY <1>1, <2>1, <2>2, ApartIs DEF Unsaved, Ticks, Copies
  <2> QED
    BY <1>1, <2>1, <2>2, <2>3 DEF FromRow
<1> HIDE DEF c, shown
<1>7. writes' \in [Slot -> {Idle} \cup Carried] /\ writes'[w] = c
      /\ \A u \in Slot : u # w => writes'[u] = writes[u]
  BY <1>2, <1>3 DEF CacheInv, CacheTypeOK
<1>8. seen' \in Seen
      /\ seen'.saved = seen.saved /\ seen'.tangle = seen.tangle
      /\ seen'.edited = seen.edited
      /\ seen'.overlap = (seen.overlap \/ InFlight # {})
  BY <1>1 DEF Mutate, Seen
<1>9. CacheTypeOK'
  BY <1>1, <1>4, <1>5, <1>7, <1>8 DEF CacheInv, CacheTypeOK, Mutate
<1>10. CopiesAreReal'
  <2>1. FromRow(cache', log')
    BY <1>1, <1>4, <1>6 DEF Mutate
  <2>2. get'.stage # "answered"
    BY DEF Mutate, NoGet
  <2> QED
    BY <1>1, <1>2, <1>7, <2>1, <2>2 DEF CacheInv, CopiesAreReal, Is, Mutate
<1>11. w \notin InFlight /\ InFlight' = InFlight \cup {w}
  <2>1. w \notin InFlight
    BY InFlightIs DEF CacheInv, Mutate
  <2>2. c # Idle
    BY <1>2 DEF Idle
  <2> QED
    BY <1>7, <2>1, <2>2 DEF InFlight
<1>12. Cardinality(InFlight') = Cardinality(InFlight) + 1
  BY <1>11, InFlightIs, FS_AddElement DEF CacheInv
<1>13. EditsOnTheWay'
  <2>1. Ticks(cache') \in {Ticks(cache), Ticks(cache) + 1} /\ Ticks(cache) \in Int
    BY <1>1, <1>4, <1>6, ApartIs DEF Ticks, Copies
  <2> QED
    BY <1>8, <1>12, <2>1, InFlightIs DEF CacheInv, EditsOnTheWay, Ticks
<1>14. AloneIsLatest'
  <2>1. seen'.saved \in 1 .. Len(log')
    BY <1>8 DEF CacheInv, AloneIsLatest, Mutate
  <2>2. ASSUME ~seen'.overlap
        PROVE  /\ cache'.of >= seen'.saved
               /\ InFlight' = {w}
               /\ \A u \in Slot : ~Is(u, "idle")' => u = w
    <3>1. ~seen.overlap /\ InFlight = {}
      BY <1>8, <2>2
    <3>2. cache'.of = cache.of
      BY <1>4, <1>6
    <3> QED
      BY <1>7, <1>8, <1>11, <3>1, <3>2, InFlightIs DEF CacheInv, AloneIsLatest, Is
  <2>3. ~Is(w, "answered")' /\ writes'[w].previous = cache
    BY <1>2, <1>7 DEF Is
  <2>4. ~seen'.overlap => cache.of >= seen'.saved
    BY <1>8 DEF CacheInv, AloneIsLatest
  <2>5. \A u \in Slot : Is(u, "answered")' => ~Is(u, "idle")'
    BY DEF Is
  <2> QED
    BY <2>1, <2>2, <2>3, <2>4, <2>5 DEF AloneIsLatest
<1>15. /\ cache'.of = cache.of /\ cache'.note = cache.note /\ log' = log
       /\ writes'[w].previous = cache /\ get'.stage # "answered"
       /\ \A u \in Slot : u # w => writes'[u] = writes[u]
  BY <1>2, <1>4, <1>6, <1>7 DEF Mutate, NoGet
<1>16. NotesLag'
  BY <1>8, <1>15 DEF CacheInv, NotesLag, Lags, Is
<1>17. NotesOfTheirRow'
  BY <1>8, <1>15 DEF CacheInv, NotesOfTheirRow, OfItsRow, Is
<1> QED
  BY <1>9, <1>10, <1>13, <1>14, <1>16, <1>17 DEF CacheInv

\* A write is done with: w is idle, nothing else of the writes moves.
LEMMA Done ==
  ASSUME CacheInv, NEW w \in Slot, ~Is(w, "idle"), writes' = [writes EXCEPT ![w] = Idle]
  PROVE  /\ writes' \in [Slot -> {Idle} \cup Carried]
         /\ \A v \in Slot : ~Is(v, "idle")' => v # w /\ writes'[v] = writes[v]
         /\ InFlight' = InFlight \ {w} /\ Cardinality(InFlight') \in Nat
         /\ ~seen.overlap => InFlight' = {} /\ \A v \in Slot : Is(v, "idle")'
<1>1. /\ writes' \in [Slot -> {Idle} \cup Carried] /\ writes'[w] = Idle
      /\ \A v \in Slot : v # w => writes'[v] = writes[v]
  BY DEF CacheInv, CacheTypeOK
<1>2. InFlight' = InFlight \ {w}
  BY <1>1 DEF InFlight
<1>3. \A v \in Slot : ~Is(v, "idle")' => v # w /\ writes'[v] = writes[v]
  BY <1>1 DEF Is, Idle
<1>4. ~seen.overlap => InFlight = {w}
  BY InFlightIs DEF CacheInv, AloneIsLatest
<1>5. \A v \in Slot : writes'[v] = Idle => Is(v, "idle")'
  BY DEF Is, Idle
<1>6. Cardinality(InFlight') \in Nat
  BY <1>2, InFlightIs, FS_Subset, FS_CardinalityType DEF CacheInv
<1> QED
  BY <1>1, <1>2, <1>3, <1>4, <1>5, <1>6 DEF InFlight

LEMMA SucceedKeeps ==
  ASSUME CacheInv, NEW w \in Slot, Succeed(w)
  PROVE  CacheInv'
<1> DEFINE a == writes[w].answer
<1>1. ~Is(w, "idle") /\ writes[w] \in Carried /\ cache \in Copies
  BY Holds DEF CacheInv, CacheTypeOK, Succeed, Is
<1>2. a \in Answers /\ a # <<>> /\ ARow(a, log)
  BY <1>1 DEF CacheInv, CopiesAreReal, Succeed, Is, Carried
<1>3. cache' \in Copies /\ cache'.of = a.of /\ cache'.at = a.at
      /\ cache'.status = a.status /\ cache'.plan = a.plan /\ cache'.note = a.note
  <2>1. cache' = Merge(cache, a)
    BY DEF Succeed
  <2>2. CASE a \in Copies
    <3>1. cache' = a
      BY <1>1, <2>1, <2>2, MergeWhole
    <3> QED
      BY <2>2, <3>1
  <2>3. CASE a \in [status : Status, plan : Plan, note : Nat, at : Nat, of : Nat \ {0}]
    <3> HIDE DEF a
    <3>1. cache' = [status |-> a.status, plan |-> a.plan, note |-> a.note,
                    at |-> a.at, of |-> a.of, thread |-> cache.thread]
      BY <1>1, <2>1, <2>3 DEF Merge, Copies
    <3> QED
      BY <1>1, <2>3, <3>1 DEF Copies
  <2> QED
    BY <1>2, <2>2, <2>3 DEF Answers
<1>4. ARow(cache', log) /\ Ticks(cache') = 0
  BY <1>2, <1>3, ApartIs DEF ARow, FromRow, OfItsRow, Ticks, Unsaved, Copies
<1>5. writes' = [writes EXCEPT ![w] = Idle] /\ log' = log /\ thread' = thread
  BY DEF Succeed
<1>6. seen \in Seen
  BY DEF CacheInv, CacheTypeOK
<1>7. /\ seen' \in Seen
      /\ seen'.saved = IF seen.saved < cache'.of THEN cache'.of ELSE seen.saved
      /\ seen'.edited = (seen.edited \/ writes[w].field = "plan")
      /\ seen'.overlap = seen.overlap /\ seen'.tangle = seen.tangle
  BY <1>3, <1>6 DEF Succeed, Seen, Copies
<1>8. get' \in {get, Sent} /\ (writes[w].field = "status" => get' = Sent)
  BY DEF Succeed
<1>9. CacheTypeOK'
  BY <1>1, <1>3, <1>5, <1>7, <1>8, Done DEF CacheInv, CacheTypeOK
<1>10. CopiesAreReal'
  <2>1. FromRow(cache', log')
    BY <1>4, <1>5 DEF ARow
  <2>2. get'.stage = "answered" => ARow(get'.ticket, log')
    BY <1>5, <1>8 DEF CacheInv, CopiesAreReal, Sent
  <2>3. \A v \in Slot : Is(v, "answered")' => ~Is(v, "idle")'
    BY DEF Is
  <2> QED
    BY <1>1, <1>5, <2>1, <2>2, <2>3, Done DEF CacheInv, CopiesAreReal, Is
<1>11. EditsOnTheWay'
  <2>1. Cardinality(InFlight') \in Nat /\ Ticks(cache)' = Ticks(cache')
    BY <1>1, <1>5, Done DEF Ticks
  <2> QED
    BY <1>4, <2>1 DEF EditsOnTheWay
<1>12. AloneIsLatest'
  <2>1. a.of \in 1 .. Len(log)
    BY <1>2 DEF ARow, FromRow
  <2>2. ~seen.overlap => a.of >= seen.saved
    BY DEF CacheInv, AloneIsLatest, Succeed
  <2>3. seen'.saved \in 1 .. Len(log')
    BY <1>3, <1>5, <1>7, <2>1 DEF CacheInv, AloneIsLatest
  <2>4. ~seen'.overlap => cache'.of >= seen'.saved
    BY <1>3, <1>6, <1>7, <2>1, <2>2
  <2>5. ~seen'.overlap => InFlight' = {} /\ \A v \in Slot : Is(v, "idle")'
    BY <1>1, <1>5, <1>7, Done
  <2>6. \A v \in Slot : Is(v, "answered")' => ~Is(v, "idle")'
    BY DEF Is
  <2> QED
    BY <2>3, <2>4, <2>5, <2>6 DEF AloneIsLatest
<1>13. OfItsRow(cache', log) /\ Lags(cache', log)
  BY <1>3, <1>4, RowLags DEF ARow, Copies
<1>14. \A v \in Slot : ~Is(v, "idle")' =>
         ~Is(v, "idle") /\ writes'[v].previous = writes[v].previous
  BY <1>1, <1>5, Done DEF Is
<1>15. NotesLag'
  BY <1>5, <1>7, <1>13, <1>14 DEF CacheInv, NotesLag
<1>16. NotesOfTheirRow'
  <2>1. ~seen'.edited => get'.stage # "answered"
    <3>1. writes[w].field \in {"status", "plan"}
      BY <1>1 DEF Carried
    <3>2. CASE writes[w].field = "status"
      BY <3>2 DEF Succeed, Sent
    <3>3. CASE writes[w].field = "plan"
      BY <1>7, <3>3
    <3> QED
      BY <3>1, <3>2, <3>3
  <2> QED
    BY <1>5, <1>7, <1>13, <1>14, <2>1 DEF CacheInv, NotesOfTheirRow
<1> QED
  BY <1>9, <1>10, <1>11, <1>12, <1>15, <1>16 DEF CacheInv

LEMMA RollBackKeeps ==
  ASSUME CacheInv, NEW w \in Slot, RollBack(w)
  PROVE  CacheInv'
<1> DEFINE p == writes[w].previous
<1>1. ~Is(w, "idle") /\ writes[w] \in Carried
  BY Holds DEF CacheInv, RollBack, Is
<1>2. p \in Copies /\ FromRow(p, log) /\ cache' = p
  BY <1>1 DEF CacheInv, CopiesAreReal, Carried, RollBack
<1>3. writes' = [writes EXCEPT ![w] = Idle] /\ UNCHANGED <<log, thread, get>>
  BY DEF RollBack
<1>4. seen \in Seen
  BY DEF CacheInv, CacheTypeOK
<1>5. /\ seen' \in Seen
      /\ seen'.saved = seen.saved /\ seen'.overlap = seen.overlap
      /\ seen'.edited = seen.edited
      /\ seen'.tangle = (seen.tangle \/ Unsaved(cache'))
  BY <1>4 DEF RollBack, Seen, Unsaved
<1>6. CacheTypeOK'
  BY <1>1, <1>2, <1>3, <1>5, Done DEF CacheInv, CacheTypeOK
<1>7. CopiesAreReal'
  BY <1>1, <1>2, <1>3, Done DEF CacheInv, CopiesAreReal, Is
<1>8. EditsOnTheWay'
  <2>1. ~seen'.tangle => Ticks(cache') = 0
    <3>1. Apart \in Nat /\ cache'.of \in Nat /\ cache'.at \in Nat
      BY <1>2, ApartIs DEF Copies
    <3>2. ~seen'.tangle => cache'.at = Apart * cache'.of
      BY <1>5 DEF Unsaved
    <3>3. Apart * cache'.of \in Int
      BY <3>1
    <3> QED
      BY <3>1, <3>2, <3>3 DEF Ticks
  <2>2. Cardinality(InFlight') \in Nat /\ Ticks(cache)' = Ticks(cache')
    BY <1>1, <1>3, Done DEF Ticks
  <2> QED
    BY <2>1, <2>2 DEF EditsOnTheWay
<1>9. AloneIsLatest'
  <2>1. ~seen'.overlap => cache'.of >= seen'.saved
    BY <1>1, <1>2, <1>5 DEF CacheInv, AloneIsLatest
  <2>2. ~seen'.overlap => InFlight' = {} /\ \A v \in Slot : Is(v, "idle")'
    BY <1>1, <1>3, <1>5, Done
  <2>3. \A v \in Slot : Is(v, "answered")' => ~Is(v, "idle")'
    BY DEF Is
  <2>4. seen'.saved \in 1 .. Len(log')
    BY <1>3, <1>5 DEF CacheInv, AloneIsLatest
  <2> QED
    BY <2>1, <2>2, <2>3, <2>4 DEF AloneIsLatest
<1>10. \A v \in Slot : ~Is(v, "idle")' =>
         ~Is(v, "idle") /\ writes'[v].previous = writes[v].previous
  BY <1>1, <1>3, Done DEF Is
<1>11. ~seen'.tangle => ~seen.tangle
  BY <1>5
<1>12. NotesLag'
  BY <1>1, <1>2, <1>3, <1>10, <1>11 DEF CacheInv, NotesLag
<1>13. NotesOfTheirRow'
  BY <1>1, <1>2, <1>3, <1>5, <1>10, <1>11 DEF CacheInv, NotesOfTheirRow
<1> QED
  BY <1>6, <1>7, <1>8, <1>9, <1>12, <1>13 DEF CacheInv

-----------------------------------------------------------------------------

LEMMA CacheStarts == CacheInit => CacheInv
<1> SUFFICES ASSUME CacheInit PROVE CacheInv
  OBVIOUS
<1>1. PICK s \in Status, p \in Plan : log = <<[status |-> s, plan |-> p, note |-> 1]>>
  BY DEF CacheInit
<1>2. log \in Seq(Rows) /\ Len(log) = 1 /\ log[1] \in Rows
  BY <1>1 DEF Rows
<1>3. /\ thread = 0 /\ get = NoGet /\ writes = [w \in Slot |-> Idle]
      /\ seen = [saved |-> 1, edited |-> FALSE, overlap |-> FALSE, tangle |-> FALSE]
      /\ cache = [status |-> log[1].status, plan |-> log[1].plan, note |-> log[1].note,
                  at |-> Apart, of |-> 1, thread |-> 0]
  BY <1>2, ApartIs DEF CacheInit, Ticket, Row, Stamped, Merge
<1>4. cache \in Copies
  BY <1>2, <1>3, ApartIs DEF Rows, Copies
<1>5. CacheTypeOK
  BY <1>2, <1>3, <1>4 DEF CacheTypeOK, Seen
<1>6. \A w \in Slot : Is(w, "idle")
  BY <1>3 DEF Is, Idle
<1>7. Ticks(cache) = 0 /\ FromRow(cache, log)
  BY <1>2, <1>3, ApartIs DEF Ticks, FromRow, Unsaved
<1>8. CopiesAreReal
  BY <1>3, <1>6, <1>7 DEF CopiesAreReal, Is, NoGet
<1>9. InFlight = {}
  BY <1>3 DEF InFlight
<1>10. OfItsRow(cache, log) /\ Lags(cache, log)
  BY <1>3, <1>4, RowLags DEF OfItsRow, Copies
<1>11. NotesLag /\ NotesOfTheirRow
  BY <1>3, <1>6, <1>10 DEF NotesLag, NotesOfTheirRow, NoGet
<1> QED
  BY <1>2, <1>3, <1>5, <1>6, <1>7, <1>8, <1>9, <1>11, InFlightIs
     DEF CacheInv, EditsOnTheWay, AloneIsLatest, Is

LEMMA CacheKeeps == CacheInv /\ [CacheNext]_cacheVars => CacheInv'
<1> SUFFICES ASSUME CacheInv, [CacheNext]_cacheVars PROVE CacheInv'
  OBVIOUS
<1>1. thread \in Nat /\ thread + 1 \in Nat
  BY DEF CacheInv, CacheTypeOK
<1>2. CASE OthersWrite
  BY <1>2, OthersKeep
<1>3. CASE Comment
  BY <1>1, <1>3, WireKeeps DEF Comment
<1>4. CASE AnswerGet
  BY <1>1, <1>4, WireKeeps DEF AnswerGet
<1>5. CASE Refetch
  BY <1>1, <1>5, WireKeeps DEF Refetch
<1>6. CASE LandGet
  BY <1>6, LandGetKeeps
<1>7. CASE LoseGet
  BY <1>1, <1>7, WireKeeps DEF LoseGet
<1>8. ASSUME NEW w \in Slot,
             \/ \E s \in Status : Mutate(w, "status", s)
             \/ \E p \in Plan : Mutate(w, "plan", p)
      PROVE  CacheInv'
  <2>1. ASSUME NEW s \in Status, Mutate(w, "status", s) PROVE CacheInv'
    BY <2>1, MutateKeeps
  <2>2. ASSUME NEW p \in Plan, Mutate(w, "plan", p) PROVE CacheInv'
    BY <2>2, MutateKeeps
  <2> QED
    BY <1>8, <2>1, <2>2
<1>9. ASSUME NEW w \in Slot,
             ServeMove(w) \/ Save(w) \/ AnswerSaved(w) \/ Fail(w)
      PROVE  CacheInv'
  BY <1>9, ServeMoveKeeps, SaveKeeps, AnswerSavedKeeps, FailKeeps
<1>10. ASSUME NEW w \in Slot, Succeed(w) \/ RollBack(w)
       PROVE  CacheInv'
  BY <1>10, SucceedKeeps, RollBackKeeps
<1>11. CASE UNCHANGED cacheVars
  BY <1>1, <1>11, WireKeeps DEF cacheVars
<1> QED
  BY <1>2, <1>3, <1>4, <1>5, <1>6, <1>7, <1>8, <1>9, <1>10, <1>11 DEF CacheNext

LEMMA AlwaysCacheInv == CacheSpec => []CacheInv
  BY CacheStarts, CacheKeeps, PTL DEF CacheSpec

(***************************************************************************)
(* Whatever crosses or is lost, for any number of writes: status and saved *)
(* plan on screen are of one row of the server.  Unless a failure put back *)
(* an unsaved edit: no edit is left unsaved when the writes are done, the  *)
(* columns no late GET is kept from may lag behind that row but only once  *)
(* a plan edit has been answered, and a tab whose writes never overlapped  *)
(* shows nothing older than it has saved.                                  *)
(***************************************************************************)
THEOREM ShownIsReal == CacheSpec => []ScreenIsReal
<1>1. CacheInv => ScreenIsReal
  <2> SUFFICES ASSUME CacheInv PROVE ScreenIsReal
    OBVIOUS
  <2>1. cache \in Copies /\ FromRow(cache, log)
    BY DEF CacheInv, CacheTypeOK, CopiesAreReal
  <2>2. ASSUME ~seen.tangle, InFlight = {} PROVE ~Unsaved(cache)
    <3>1. Ticks(cache) = 0
      BY <2>1, <2>2, ApartIs, InFlightIs DEF CacheInv, EditsOnTheWay, FromRow, Ticks, Copies
    <3> QED
      BY <2>1, <3>1, ApartIs DEF Ticks, Unsaved, Copies
  <2>3. ASSUME ~seen.tangle
        PROVE  /\ \E m \in 1 .. cache.of : cache.note = log[m].note
               /\ ~seen.edited => Whole(cache)
    BY <2>3 DEF CacheInv, NotesLag, NotesOfTheirRow, Lags, OfItsRow, Whole
  <2>4. ASSUME ~seen.overlap PROVE cache.of >= seen.saved
    BY <2>4 DEF CacheInv, AloneIsLatest
  <2> QED
    BY <2>1, <2>2, <2>3, <2>4 DEF FromRow, ScreenIsReal
<1> QED
  BY <1>1, AlwaysCacheInv, PTL

(***************************************************************************)
(* A GET that brings a newer row, or the same with no write on its way, is *)
(* shown whole; and its thread is shown whatever row is kept.              *)
(***************************************************************************)
THEOREM FreshIsShown == CacheSpec => FreshAnswerShown
<1>1. CacheInv /\ [CacheNext]_cacheVars => [LandGet /\ ~seen.tangle => Shown]_cacheVars
  <2> SUFFICES ASSUME CacheInv, LandGet, ~seen.tangle
               PROVE  Shown
    OBVIOUS
  <2> DEFINE f == get.ticket
  <2>1. /\ f \in Copies /\ ARow(f, log) /\ cache \in Copies /\ FromRow(cache, log)
    BY DEF CacheInv, CacheTypeOK, CopiesAreReal, LandGet, NoGet, Sent
  <2>2. cache' = IF cache.at <= f.at THEN f
                 ELSE [cache EXCEPT !.note = f.note, !.thread = f.thread]
    BY <2>1, KeepNewerIs DEF LandGet
  <2>3. cache'.thread = f.thread
    BY <2>1, <2>2 DEF Copies
  <2>4. Newer(f) => cache.at <= f.at
    BY <2>1, LateIsOlder DEF Newer, Copies
  <2> QED
    BY <2>2, <2>3, <2>4 DEF Shown
<1> QED
  BY <1>1, AlwaysCacheInv, PTL DEF CacheSpec, FreshAnswerShown

=============================================================================
