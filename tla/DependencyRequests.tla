------------------------- MODULE DependencyRequests -------------------------
(***************************************************************************)
(* The handlers of Dependencies taken apart into the queries they make,    *)
(* none of which share a transaction: addDependency checks the graph it    *)
(* loaded, asks for the row, then writes it; a ticket that lands has its   *)
(* dependents listed, counted one by one, and their leads told.            *)
(***************************************************************************)
EXTENDS Dependencies

CONSTANT Slot

VARIABLES inflight,
          cleared   \* tickets a landing has freed and whose lead is not told yet

reqVars == <<depVars, inflight, cleared>>

Idle == [phase |-> "idle"]

Quiet == \A s \in Slot : inflight[s] = Idle

Put(s, request) == inflight' = [inflight EXCEPT ![s] = request]

ReqInit == DepInit /\ inflight = [s \in Slot |-> Idle] /\ cleared = {}

-----------------------------------------------------------------------------
(* addDependency *)

LoadEdgesOfNew(s, blocking, blocked, type) ==  \* mutant: a retype is not checked
  /\ inflight[s] = Idle
  /\ blocking # blocked
  /\ type = "BLOCKS" /\ relation[<<blocking, blocked>>] = None =>
       ~WouldCreateCycle(Blocks(relation), blocking, blocked)
  /\ Put(s, [phase |-> "checked", pair |-> <<blocking, blocked>>, type |-> type])
  /\ UNCHANGED <<depVars, cleared>>

LoadEdgesOfItself(s, blocking, blocked, type) ==  \* mutant: nobody compares the ends
  /\ inflight[s] = Idle
  /\ type = "BLOCKS" => ~WouldCreateCycle(Blocks(relation), blocking, blocked)
  /\ Put(s, [phase |-> "checked", pair |-> <<blocking, blocked>>, type |-> type])
  /\ UNCHANGED <<depVars, cleared>>

LoadEdges(s, blocking, blocked, type) ==
  /\ inflight[s] = Idle
  /\ blocking # blocked
  /\ type = "BLOCKS" => ~WouldCreateCycle(Blocks(relation), blocking, blocked)
  /\ Put(s, [phase |-> "checked", pair |-> <<blocking, blocked>>, type |-> type])
  /\ UNCHANGED <<depVars, cleared>>

\* The row of the same type is a conflict; otherwise it is created or changed.
FindExisting(s) ==
  LET r == inflight[s] IN
  /\ r.phase = "checked"
  /\ IF relation[r.pair] = r.type
       THEN Put(s, Idle)
       ELSE Put(s, [ phase |-> "writing", pair |-> r.pair, type |-> r.type,
                     exists |-> relation[r.pair] # None ])
  /\ UNCHANGED <<depVars, cleared>>

\* The unique index refuses a second create, a row that went refuses the update.
WriteEdge(s) ==
  LET r == inflight[s] IN
  /\ r.phase = "writing"
  /\ \/ /\ r.exists <=> relation[r.pair] # None
        /\ relation' = [relation EXCEPT ![r.pair] = r.type]
        /\ cleared' = { t \in cleared : Unmet(relation', done, t) = {} } \ {r.pair[2]}
     \/ /\ ~(r.exists <=> relation[r.pair] # None)
        /\ UNCHANGED <<relation, cleared>>
  /\ Put(s, Idle)
  /\ UNCHANGED done

\* removeDependency: a row found and deleted by its id.
RemoveEdge(p) ==
  /\ RemoveDependency(p)
  /\ cleared' = cleared \ {p[2]}
  /\ UNCHANGED inflight

-----------------------------------------------------------------------------
(* changeStatus and notifyUnblockedDependents *)

LandWrite(s, t) ==
  /\ inflight[s] = Idle
  /\ Land(t)
  /\ cleared' = cleared \cup
       { d \in Ticket : Unmet(relation, done, d) # {} /\ Unmet(relation, done', d) = {} }
  /\ Put(s, [phase |-> "landed", ticket |-> t])

ReopenWrite(t) ==
  /\ Reopen(t)
  /\ cleared' = { d \in cleared : Unmet(relation, done', d) = {} }
  /\ UNCHANGED inflight

Dependents(t) == { d \in Ticket : relation[<<t, d>>] = "BLOCKS" }

ListDependents(s) ==
  LET r == inflight[s] IN
  /\ r.phase = "landed"
  /\ Put(s, IF Dependents(r.ticket) = {} THEN Idle
            ELSE [phase |-> "counting", left |-> Dependents(r.ticket)])
  /\ UNCHANGED <<depVars, cleared>>

Counting(left) == IF left = {} THEN Idle ELSE [phase |-> "counting", left |-> left]

CountWaitingReturns(s, d) ==  \* mutant: return in place of continue
  LET r == inflight[s] IN
  /\ r.phase = "counting" /\ d \in r.left
  /\ Put(s, IF Unmet(relation, done, d) = {}
              THEN [phase |-> "telling", whom |-> d, left |-> r.left \ {d}]
              ELSE Idle)
  /\ UNCHANGED <<depVars, cleared>>

CountWaiting(s, d) ==
  LET r == inflight[s] IN
  /\ r.phase = "counting" /\ d \in r.left
  /\ Put(s, IF Unmet(relation, done, d) = {}
              THEN [phase |-> "telling", whom |-> d, left |-> r.left \ {d}]
              ELSE Counting(r.left \ {d}))
  /\ UNCHANGED <<depVars, cleared>>

\* Every ticket has a lead to tell; one without is passed over.
TellLead(s) ==
  LET r == inflight[s] IN
  /\ r.phase = "telling"
  /\ cleared' = cleared \ {r.whom}
  /\ Put(s, Counting(r.left))
  /\ UNCHANGED depVars

ReqNext ==
  \/ \E s \in Slot :
       \/ \E b, t \in Ticket, type \in Type : LoadEdges(s, b, t, type)
       \/ FindExisting(s) \/ WriteEdge(s)
       \/ \E t \in Ticket : LandWrite(s, t) \/ CountWaiting(s, t)
       \/ ListDependents(s) \/ TellLead(s)
  \/ \E p \in Pairs : RemoveEdge(p)
  \/ \E t \in Ticket : ReopenWrite(t)

ReqSpec == ReqInit /\ [][ReqNext]_reqVars

\* The requests between the check of the graph and the write of a BLOCKS row.
Drawing ==
  { s \in Slot : inflight[s].phase \in { "checked", "writing" } /\ inflight[s].type = "BLOCKS" }

\* Requests overlap, but never two that draw a blocking relation.
OneDrawnSpec == ReqInit /\ [][ReqNext /\ \A s, q \in Drawing' : s = q]_reqVars

-----------------------------------------------------------------------------
(***************************************************************************)
(* Whenever a landing clears the way for a ticket its lead hears of it,    *)
(* also when its prerequisites land in overlapping requests, each of which *)
(* could take the other for unfinished.                                    *)
(***************************************************************************)
WayClearedIsTold == Quiet => cleared = {}

(***************************************************************************)
(* As long as blocking relations are drawn one at a time, the requests     *)
(* implement Dependencies whatever lands, is reopened or removed between   *)
(* the check of the graph and the write of the row.                        *)
(***************************************************************************)
ImplementsDependencies == DepSpec

=============================================================================
