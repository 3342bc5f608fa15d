---------------------------- MODULE TicketCache -----------------------------
(***************************************************************************)
(* The ticket one browser tab shows, and the row the server keeps          *)
(* (frontend/src/hooks/useTickets.ts).                                     *)
(*                                                                         *)
(* The tab holds one cached copy.  GETs refresh it, and writes change it   *)
(* three times: on leaving (a plan edit is shown before it is saved), on   *)
(* success (the answer is merged) and on failure (the copy from before is  *)
(* put back).  GETs and writes cross on the wire, other people write too,  *)
(* and an answer may be lost after the server has done what was asked.     *)
(* A row is what the workflow buttons and the plan panel change: status    *)
(* and plan, and in "note" the columns the buttons write beside status     *)
(* (reason and blocker of a stop, start and completion, closure notes),    *)
(* told apart by the write they are from.  "thread" counts what hangs off  *)
(* the ticket and moves without its updatedAt: comments, history,          *)
(* attachments.                                                            *)
(***************************************************************************)
EXTENDS Sequences, Integers, FiniteSets, Functions

CONSTANTS Slot,       \* the tab's writes that may be in flight together
          Status, Plan,      \* the values told apart
          MaxRows, MaxThread \* bounds on the writes and comments the server sees

ASSUME CacheAssumption ==
  /\ IsFiniteSet(Slot) /\ Status # {} /\ Plan # {}
  /\ MaxRows \in Nat \ {0} /\ MaxThread \in Nat

VARIABLES log,     \* the ticket row on the server, one entry per write
          thread,  \* on the server
          cache,   \* the tab's copy
          get,     \* the GET of the ticket on the wire: one at most
          writes,  \* the tab's writes
          seen     \* history variable: what has happened to the tab's writes

cacheVars == <<log, thread, cache, get, writes, seen>>

\* Two writes of the server are stamped further apart than the tab's ticks reach.
Apart == Cardinality(Slot) + 1

\* "of" is the write of the server a copy stands on: nothing reads it.
Stamped(entry, n) ==
  [status |-> entry.status, plan |-> entry.plan, note |-> entry.note,
   at |-> Apart * n, of |-> n]

Row(n) == Stamped(log[n], n)

\* { ...old, ...updated }
Merge(old, updated) ==
  [field \in DOMAIN old \cup DOMAIN updated |->
     IF field \in DOMAIN updated THEN updated[field] ELSE old[field]]

Ticket == Merge([thread |-> thread], Row(Len(log)))

\* "note" is not among the columns defended.
WRITE_OWNED_FIELDS == { "status", "plan", "at", "of" }

\* mutants
KeepNewerNot(cached, fetched) == fetched
KeepCached(cached, fetched) == IF cached.at <= fetched.at THEN fetched ELSE cached

KeepNewer(cached, fetched) ==
  IF cached.at <= fetched.at THEN fetched
  ELSE Merge(fetched, Restrict(cached, WRITE_OWNED_FIELDS))

\* mutant: the browser's clock, which runs ahead
BrowserTime(cached) == Apart * (MaxRows + 1)

NextTime(cached) == cached.at + 1

NoGet == [stage |-> "none"]
Sent == [stage |-> "sent"]
Idle == [stage |-> "idle"]

\* The copy shows an edit that no answer has confirmed.
Unsaved(copy) == copy.at # Apart * copy.of

InFlight == { w \in Slot : writes[w] # Idle }

CacheInit ==
  /\ \E s \in Status, p \in Plan : log = <<[status |-> s, plan |-> p, note |-> 1]>>
  /\ thread = 0 /\ cache = Ticket /\ get = NoGet
  /\ writes = [w \in Slot |-> Idle]
  /\ seen = [saved |-> 1, edited |-> FALSE, overlap |-> FALSE, tangle |-> FALSE]

-----------------------------------------------------------------------------
(* The server, and everybody else on it. *)

\* What a write makes of the row.
After(field, value) ==
  LET row == [log[Len(log)] EXCEPT ![field] = value] IN
  IF field = "status" THEN [row EXCEPT !.note = Len(log) + 1] ELSE row

Append1(field, value) ==
  /\ Len(log) < MaxRows
  /\ log' = Append(log, After(field, value))

\* Somebody else moves the ticket or edits its plan.
OthersWrite ==
  /\ \/ \E s \in Status : Append1("status", s)
     \/ \E p \in Plan : Append1("plan", p)
  /\ UNCHANGED <<thread, cache, get, writes, seen>>

Comment ==
  /\ thread < MaxThread
  /\ thread' = thread + 1
  /\ UNCHANGED <<log, cache, get, writes, seen>>

Is(w, stage) == writes[w].stage = stage

\* A move is answered with the row its own update returned.
ServeMove(w) ==
  /\ Is(w, "sent") /\ writes[w].field = "status"
  /\ Append1("status", writes[w].value)
  /\ writes' = [writes EXCEPT ![w].stage = "answered",
       ![w].answer = Stamped(After("status", writes[w].value), Len(log) + 1)]
  /\ UNCHANGED <<thread, cache, get, seen>>

\* A plan edit, and among the moves the assignment, are answered with the
\* ticket as it is read afterwards.
Save(w) ==
  /\ Is(w, "sent")
  /\ Append1(writes[w].field, writes[w].value)
  /\ writes' = [writes EXCEPT ![w].stage = "saved"]
  /\ UNCHANGED <<thread, cache, get, seen>>

AnswerSaved(w) ==
  /\ Is(w, "saved")
  /\ writes' = [writes EXCEPT ![w].stage = "answered", ![w].answer = Ticket]
  /\ UNCHANGED <<log, thread, cache, get, seen>>

\* Refused, or the answer is lost on its way.
Fail(w) ==
  /\ writes[w].stage \in { "sent", "saved", "answered" }
  /\ writes' = [writes EXCEPT ![w].stage = "failed", ![w].answer = <<>>]
  /\ UNCHANGED <<log, thread, cache, get, seen>>

AnswerGet ==
  /\ get.stage = "sent"
  /\ get' = [stage |-> "answered", ticket |-> Ticket]
  /\ UNCHANGED <<log, thread, cache, writes, seen>>

-----------------------------------------------------------------------------
(* The tab. *)

\* Focus, reconnect, a page opened, an invalidation by another hook: whatever
\* GET is on the wire is given up.
Refetch ==
  /\ get.stage # "sent"
  /\ get' = Sent
  /\ UNCHANGED <<log, thread, cache, writes, seen>>

LandGet ==
  /\ get.stage = "answered"
  /\ cache' = KeepNewer(cache, get.ticket)
  /\ get' = NoGet
  /\ UNCHANGED <<log, thread, writes, seen>>

LoseGet ==
  /\ get # NoGet
  /\ get' = NoGet
  /\ UNCHANGED <<log, thread, cache, writes, seen>>

\* onMutate: the GET on the wire is cancelled and the copy put aside; a plan
\* edit is shown at once, a move only when it is answered.
Mutate(w, field, value) ==
  /\ Is(w, "idle")
  /\ get' = NoGet
  /\ writes' = [writes EXCEPT ![w] =
       [stage |-> "sent", field |-> field, value |-> value,
        previous |-> cache, answer |-> <<>>]]
  /\ cache' = IF field = "plan"
              THEN Merge(cache, [plan |-> value, at |-> NextTime(cache)])
              ELSE cache
  /\ seen' = [seen EXCEPT !.overlap = @ \/ InFlight # {}]
  /\ UNCHANGED <<log, thread>>

\* mutant: no write has the ticket fetched again
SucceedAlone(w) ==
  /\ Is(w, "answered")
  /\ cache' = Merge(cache, writes[w].answer)
  /\ writes' = [writes EXCEPT ![w] = Idle]
  /\ seen' = [seen EXCEPT !.saved = IF @ < cache'.of THEN cache'.of ELSE @,
                          !.edited = @ \/ writes[w].field = "plan"]
  /\ UNCHANGED <<log, thread, get>>

\* onSuccess: only a move has the ticket fetched again.
Succeed(w) ==
  /\ Is(w, "answered")
  /\ cache' = Merge(cache, writes[w].answer)
  /\ get' = IF writes[w].field = "status" THEN Sent ELSE get
  /\ writes' = [writes EXCEPT ![w] = Idle]
  /\ seen' = [seen EXCEPT !.saved = IF @ < cache'.of THEN cache'.of ELSE @,
                          !.edited = @ \/ writes[w].field = "plan"]
  /\ UNCHANGED <<log, thread>>

\* mutant: what was shown stays
RollBackNot(w) ==
  /\ Is(w, "failed")
  /\ writes' = [writes EXCEPT ![w] = Idle]
  /\ UNCHANGED <<log, thread, cache, get, seen>>

\* onError
RollBack(w) ==
  /\ Is(w, "failed")
  /\ cache' = writes[w].previous
  /\ writes' = [writes EXCEPT ![w] = Idle]
  /\ seen' = [seen EXCEPT !.tangle = @ \/ Unsaved(cache')]
  /\ UNCHANGED <<log, thread, get>>

CacheNext ==
  \/ OthersWrite \/ Comment \/ AnswerGet
  \/ Refetch \/ LandGet \/ LoseGet
  \/ \E w \in Slot :
       \/ \E s \in Status : Mutate(w, "status", s)
       \/ \E p \in Plan : Mutate(w, "plan", p)
       \/ ServeMove(w) \/ Save(w) \/ AnswerSaved(w) \/ Fail(w)
       \/ Succeed(w) \/ RollBack(w)

CacheSpec == CacheInit /\ [][CacheNext]_cacheVars

-----------------------------------------------------------------------------

\* The columns no late GET is kept from are those of the row on screen.
Whole(copy) == copy.note = log[copy.of].note

(***************************************************************************)
(* Whatever has crossed, been lost or been put back: the status on screen, *)
(* and the plan unless it shows an edit that is not saved, are one row's   *)
(* that the server had.  Unless a failure has put back a copy with another *)
(* write's unsaved edit in it: with no write on its way no edit is shown   *)
(* unsaved; the columns beside the status may lag behind the row, never    *)
(* lead; they are the row's own as long as no plan edit of the tab has     *)
(* been answered, after which a GET from before the answer may still land; *)
(* and if no two writes were ever on their way together, no late GET has   *)
(* taken back what the tab saved.                                          *)
(***************************************************************************)
ScreenIsReal ==
  /\ cache.status = log[cache.of].status
  /\ ~Unsaved(cache) => cache.plan = log[cache.of].plan
  /\ ~seen.tangle =>
       /\ InFlight = {} => ~Unsaved(cache)
       /\ \E m \in 1 .. cache.of : cache.note = log[m].note
       /\ ~seen.edited => Whole(cache)
       /\ InFlight = {} /\ ~seen.overlap => cache.of >= seen.saved

Newer(fetched) ==
  \/ fetched.of > cache.of
  \/ fetched.of = cache.of /\ InFlight = {}

\* A GET that brings what the tab has not seen is shown: always the thread, and
\* the row if the server wrote it after the one on screen, or if the tab has no
\* write of its own on the way.  An edit shown early never shuts a ticket off
\* from the server.
Shown ==
  /\ cache'.thread = get.ticket.thread
  /\ Newer(get.ticket) => cache' = get.ticket

FreshAnswerShown == [][ LandGet /\ ~seen.tangle => Shown ]_cacheVars

=============================================================================
