-------------------------- MODULE DependencyProofs --------------------------
(***************************************************************************)
(* The relation stays a DAG, for any number of tickets: with handlers      *)
(* taken whole, and with requests of which no two draw a relation at once. *)
(* And the walk of wouldCreateCycle gives the answer the graph calls for,  *)
(* on every graph of no more tickets than its limit.                       *)
(***************************************************************************)
EXTENDS DependencyRequests, DependencyWalk, FiniteSetTheorems, TLAPS

-----------------------------------------------------------------------------
(* The graph                                                               *)

(***************************************************************************)
(* Taking edges away opens no ring and closes no path.                     *)
(***************************************************************************)
LEMMA FewerEdges ==
  ASSUME NEW E, NEW F, F \subseteq E
  PROVE  /\ NoRing(E) => NoRing(F)
         /\ \A b, t : ~WouldCreateCycle(E, b, t) => ~WouldCreateCycle(F, b, t)
<1>1. \A x : WaitsOn(F, x) \subseteq WaitsOn(E, x)
  BY DEF WaitsOn
<1>2. \A S : Closed(S, E) => Closed(S, F)
  BY <1>1 DEF Closed
<1>3. NoRing(E) => NoRing(F)
  BY <1>1 DEF NoRing
<1>4. ASSUME NEW b, NEW t, ~WouldCreateCycle(E, b, t)
      PROVE  ~WouldCreateCycle(F, b, t)
  BY <1>2, <1>4 DEF WouldCreateCycle
<1> QED
  BY <1>3, <1>4

(***************************************************************************)
(* The check of wouldCreateCycle is enough: an edge it lets pass closes no *)
(* ring.  A ring through the new edge would have to enter the closed set   *)
(* around the prerequisite that the blocked ticket is outside of.          *)
(***************************************************************************)
LEMMA CheckedEdge ==
  ASSUME NEW E, NEW F, NEW b \in Ticket, NEW t \in Ticket,
         NoRing(E), ~WouldCreateCycle(E, b, t), F \subseteq E \cup {<<b, t>>}
  PROVE  NoRing(F)
<1>1. PICK U \in SUBSET Ticket : b \in U /\ Closed(U, E) /\ t \notin U
  BY DEF WouldCreateCycle
<1>2. \A x : WaitsOn(F, x) \subseteq WaitsOn(E, x) \cup {b}
  BY DEF WaitsOn
<1>3. \A x : x # t => WaitsOn(F, x) \subseteq WaitsOn(E, x)
  BY DEF WaitsOn
<1>4. SUFFICES ASSUME NEW S \in SUBSET Ticket, S # {}
               PROVE  \E x \in S : WaitsOn(F, x) \cap S = {}
  BY DEF NoRing
<1>5. CASE S \cap U = {}
  <2>1. PICK x \in S : WaitsOn(E, x) \cap S = {}
    BY <1>4 DEF NoRing
  <2>2. b \notin S
    BY <1>1, <1>5
  <2> QED
    BY <1>2, <2>1, <2>2
<1>6. CASE S \cap U # {}
  <2>1. PICK x \in S \cap U : WaitsOn(E, x) \cap (S \cap U) = {}
    <3>1. S \cap U \in SUBSET Ticket
      OBVIOUS
    <3> QED
      BY <1>6, <3>1 DEF NoRing
  <2>2. WaitsOn(E, x) \subseteq U
    BY <1>1 DEF Closed
  <2>3. WaitsOn(F, x) \subseteq WaitsOn(E, x)
    BY <1>1, <1>3
  <2> QED
    BY <2>1, <2>2, <2>3
<1> QED
  BY <1>5, <1>6

(***************************************************************************)
(* In a graph without a ring the unfinished tickets have one among them    *)
(* that waits on none of the others.                                       *)
(***************************************************************************)
LEMMA DAGOpensAGate == DepTypeOK /\ GraphIsDAG => SomeoneCanStart
<1> SUFFICES ASSUME DepTypeOK, GraphIsDAG, done # Ticket
             PROVE  \E t \in Ticket \ done : Unmet(relation, done, t) = {}
  BY DEF SomeoneCanStart
<1>1. Ticket \ done # {} /\ Ticket \ done \in SUBSET Ticket
  BY DEF DepTypeOK
<1>2. PICK t \in Ticket \ done : WaitsOn(Blocks(relation), t) \cap (Ticket \ done) = {}
  BY <1>1 DEF GraphIsDAG, NoRing
<1>3. WaitsOn(Blocks(relation), t) \subseteq Ticket
  BY DEF WaitsOn
<1> QED
  BY <1>2, <1>3 DEF Unmet

-----------------------------------------------------------------------------
(* The handlers taken whole                                                *)

LEMMA RowBlocks ==
  ASSUME DepTypeOK, NEW p \in Pairs, NEW type \in Type \cup {None},
         relation' = [relation EXCEPT ![p] = type]
  PROVE  /\ relation' \in [Pairs -> Type \cup {None}]
         /\ Blocks(relation') \subseteq Blocks(relation) \cup {p}
         /\ type # "BLOCKS" => Blocks(relation') \subseteq Blocks(relation)
  BY DEF DepTypeOK, Blocks

LEMMA NothingDrawn == DepInit => GraphIsDAG
  BY DEF DepInit, GraphIsDAG, NoRing, WaitsOn, Blocks, None

LEMMA DepStep ==
  ASSUME DepTypeOK, GraphIsDAG, [DepNext]_depVars
  PROVE  DepTypeOK' /\ GraphIsDAG'
<1>1. ASSUME NEW b \in Ticket, NEW t \in Ticket, NEW type \in Type, AddDependency(b, t, type)
      PROVE  DepTypeOK' /\ GraphIsDAG'
  <2>1. <<b, t>> \in Pairs /\ type \in Type \cup {None}
    BY DEF Pairs
  <2>2. relation' = [relation EXCEPT ![<<b, t>>] = type] /\ done' = done
    BY <1>1 DEF AddDependency
  <2>3. DepTypeOK'
    BY <2>1, <2>2, RowBlocks DEF DepTypeOK
  <2>4. CASE type = "BLOCKS"
    <3>1. ~WouldCreateCycle(Blocks(relation), b, t)
      BY <1>1, <2>4 DEF AddDependency
    <3>2. Blocks(relation') \subseteq Blocks(relation) \cup {<<b, t>>}
      BY <2>1, <2>2, RowBlocks
    <3> QED
      BY <2>3, <3>1, <3>2, CheckedEdge DEF GraphIsDAG
  <2>5. CASE type # "BLOCKS"
    <3>1. Blocks(relation') \subseteq Blocks(relation)
      BY <2>1, <2>2, <2>5, RowBlocks
    <3> QED
      BY <2>3, <3>1, FewerEdges DEF GraphIsDAG
  <2> QED
    BY <2>4, <2>5
<1>2. ASSUME NEW p \in Pairs, RemoveDependency(p)
      PROVE  DepTypeOK' /\ GraphIsDAG'
  <2>1. relation' = [relation EXCEPT ![p] = None] /\ done' = done
    BY <1>2 DEF RemoveDependency
  <2>2. DepTypeOK' /\ Blocks(relation') \subseteq Blocks(relation)
    BY <2>1, RowBlocks DEF DepTypeOK, None
  <2> QED
    BY <2>2, FewerEdges DEF GraphIsDAG
<1>3. ASSUME NEW t \in Ticket, Land(t) \/ Reopen(t)
      PROVE  DepTypeOK' /\ GraphIsDAG'
  BY <1>3 DEF Land, Reopen, DepTypeOK, GraphIsDAG
<1>4. CASE UNCHANGED depVars
  BY <1>4 DEF depVars, DepTypeOK, GraphIsDAG
<1> QED
  BY <1>1, <1>2, <1>3, <1>4 DEF DepNext

(***************************************************************************)
(* Every row of the relation has a known type and every landed ticket      *)
(* exists, and the BLOCKS rows form a DAG: "edges are checked for cycles   *)
(* before they are written, so the graph stays a DAG" (schema.prisma).     *)
(***************************************************************************)
THEOREM DAGStays == DepSpec => [](DepTypeOK /\ GraphIsDAG)
<1>1. DepInit => DepTypeOK
  BY DEF DepInit, DepTypeOK
<1> QED
  BY <1>1, NothingDrawn, DepStep, PTL DEF DepSpec

(***************************************************************************)
(* Never do all unfinished tickets wait on one another.                    *)
(***************************************************************************)
THEOREM NoDeadlock == DepSpec => []SomeoneCanStart
  BY DAGStays, DAGOpensAGate, PTL

-----------------------------------------------------------------------------
(* The requests, of which no two draw a blocking relation at once          *)

\* No request is on its way from a ticket to itself.
NewPairs == { p \in Pairs : p[1] # p[2] }

Request ==
  [phase : {"idle"}]
    \cup [phase : {"checked"}, pair : NewPairs, type : Type]
    \cup [phase : {"writing"}, pair : NewPairs, type : Type, exists : BOOLEAN]
    \cup [phase : {"landed"}, ticket : Ticket]
    \cup [phase : {"counting"}, left : SUBSET Ticket]
    \cup [phase : {"telling"}, whom : Ticket, left : SUBSET Ticket]

\* What was checked stays true until it is written, with one writer of edges.
CheckHolds ==
  \A s \in Drawing :
    ~WouldCreateCycle(Blocks(relation), inflight[s].pair[1], inflight[s].pair[2])

AtMostOneDraws == \A s, q \in Drawing : s = q

ReqInv ==
  /\ DepTypeOK /\ GraphIsDAG
  /\ inflight \in [Slot -> Request]
  /\ AtMostOneDraws /\ CheckHolds

LEMMA PutRequest ==
  ASSUME NEW s \in Slot, NEW r \in Request, inflight \in [Slot -> Request], Put(s, r)
  PROVE  /\ inflight' \in [Slot -> Request]
         /\ inflight'[s] = r
         /\ \A q \in Slot \ {s} : inflight'[q] = inflight[q]
  BY DEF Put

LEMMA IdleIsRequest == Idle \in Request
  BY DEF Idle, Request

(***************************************************************************)
(* A step that draws nothing new and adds no edge keeps the checks true.   *)
(***************************************************************************)
LEMMA ChecksSurvive ==
  ASSUME ReqInv, Blocks(relation') \subseteq Blocks(relation),
         \A s \in Drawing' : s \in Drawing /\ inflight'[s].pair = inflight[s].pair
  PROVE  CheckHolds'
  BY FewerEdges DEF ReqInv, CheckHolds

LEMMA DrawsNothing ==
  ASSUME ReqInv, NEW s \in Slot, NEW r \in Request, Put(s, r),
         r.phase \notin { "checked", "writing" }
  PROVE  \A q \in Drawing' : q # s /\ q \in Drawing /\ inflight'[q] = inflight[q]
<1>1. inflight'[s] = r /\ \A q \in Slot \ {s} : inflight'[q] = inflight[q]
  BY PutRequest DEF ReqInv
<1> QED
  BY <1>1 DEF Drawing

LEMMA LoadEdgesStep ==
  ASSUME ReqInv, NEW s \in Slot, NEW b \in Ticket, NEW t \in Ticket, NEW type \in Type,
         LoadEdges(s, b, t, type)
  PROVE  inflight' \in [Slot -> Request] /\ CheckHolds' /\ UNCHANGED depVars
<1> DEFINE r == [phase |-> "checked", pair |-> <<b, t>>, type |-> type]
<1>1. Put(s, r) /\ UNCHANGED depVars
  BY DEF LoadEdges
<1>2. r \in Request
  BY DEF LoadEdges, Request, NewPairs, Pairs
<1>3. /\ inflight' \in [Slot -> Request]
      /\ inflight'[s] = r
      /\ \A q \in Slot \ {s} : inflight'[q] = inflight[q]
  BY <1>1, <1>2, PutRequest DEF ReqInv
<1>4. ASSUME NEW q \in Drawing'
      PROVE  ~WouldCreateCycle(Blocks(relation), inflight'[q].pair[1], inflight'[q].pair[2])
  <2>1. CASE q = s
    <3>1. type = "BLOCKS" /\ inflight'[q].pair = <<b, t>>
      BY <1>3, <1>4, <2>1 DEF Drawing
    <3> QED
      BY <3>1 DEF LoadEdges
  <2>2. CASE q # s
    <3>1. q \in Drawing /\ inflight'[q] = inflight[q]
      BY <1>3, <1>4, <2>2 DEF Drawing
    <3> QED
      BY <3>1 DEF ReqInv, CheckHolds
  <2> QED
    BY <2>1, <2>2
<1> QED
  BY <1>1, <1>3, <1>4 DEF CheckHolds, depVars

LEMMA FindExistingStep ==
  ASSUME ReqInv, NEW s \in Slot, FindExisting(s)
  PROVE  inflight' \in [Slot -> Request] /\ CheckHolds' /\ UNCHANGED depVars
<1>1. inflight[s] \in Request /\ inflight[s].phase = "checked"
  BY DEF FindExisting, ReqInv
<1>2. inflight[s].pair \in NewPairs /\ inflight[s].type \in Type
  BY <1>1 DEF Request
<1>3. CASE Put(s, Idle)
  <2>1. \A q \in Drawing' : q \in Drawing /\ inflight'[q] = inflight[q]
    BY <1>3, IdleIsRequest, DrawsNothing DEF Idle
  <2>2. UNCHANGED depVars
    BY DEF FindExisting
  <2>3. inflight' \in [Slot -> Request]
    BY <1>3, IdleIsRequest, PutRequest DEF ReqInv
  <2> QED
    BY <2>1, <2>2, <2>3, ChecksSurvive DEF depVars
<1>4. ASSUME NEW e \in BOOLEAN,
             Put(s, [ phase |-> "writing", pair |-> inflight[s].pair,
                      type |-> inflight[s].type, exists |-> e ])
      PROVE  inflight' \in [Slot -> Request] /\ CheckHolds' /\ UNCHANGED depVars
  <2> DEFINE r == [ phase |-> "writing", pair |-> inflight[s].pair,
                    type |-> inflight[s].type, exists |-> e ]
  <2>1. r \in Request
    BY <1>2 DEF Request
  <2>2. /\ inflight' \in [Slot -> Request]
        /\ inflight'[s] = r
        /\ \A q \in Slot \ {s} : inflight'[q] = inflight[q]
    BY <1>4, <2>1, PutRequest DEF ReqInv
  <2>3. \A q \in Drawing' : q \in Drawing /\ inflight'[q].pair = inflight[q].pair
    BY <1>1, <2>2 DEF Drawing
  <2>4. UNCHANGED depVars
    BY DEF FindExisting
  <2> QED
    BY <2>2, <2>3, <2>4, ChecksSurvive DEF depVars
<1> QED
  BY <1>3, <1>4 DEF FindExisting

(***************************************************************************)
(* The write: the edge was checked against a graph that only lost edges    *)
(* since, because nobody else was drawing one.                             *)
(***************************************************************************)
LEMMA WriteEdgeStep ==
  ASSUME ReqInv, NEW s \in Slot, WriteEdge(s)
  PROVE  inflight' \in [Slot -> Request] /\ CheckHolds' /\ [DepNext]_depVars
<1> DEFINE p == inflight[s].pair
           type == inflight[s].type
<1>1. inflight[s] \in Request /\ inflight[s].phase = "writing"
  BY DEF WriteEdge, ReqInv
<1>2. p \in NewPairs /\ type \in Type
  BY <1>1 DEF Request
<1>3. \A q \in Drawing' : q # s /\ q \in Drawing /\ inflight'[q] = inflight[q]
  BY IdleIsRequest, DrawsNothing DEF Idle, WriteEdge
<1>4. inflight' \in [Slot -> Request]
  BY IdleIsRequest, PutRequest DEF WriteEdge, ReqInv
<1>5. CASE UNCHANGED relation
  <2>1. UNCHANGED depVars
    BY <1>5 DEF WriteEdge, depVars
  <2>2. CheckHolds'
    BY <1>3, <1>5, ChecksSurvive
  <2> QED
    BY <1>4, <2>1, <2>2
<1>6. CASE relation' = [relation EXCEPT ![p] = type] /\ relation' # relation
  <2>1. PICK b \in Ticket, t \in Ticket : p = <<b, t>> /\ b # t
    BY <1>2 DEF NewPairs, Pairs
  <2>2. type = "BLOCKS" => ~WouldCreateCycle(Blocks(relation), b, t)
    BY <1>1, <2>1 DEF ReqInv, CheckHolds, Drawing
  <2>3. relation[<<b, t>>] # type
    BY <1>6, <2>1 DEF ReqInv, DepTypeOK
  <2>4. AddDependency(b, t, type)
    BY <1>6, <2>1, <2>2, <2>3 DEF AddDependency, WriteEdge
  <2>5. CheckHolds'
    <3>1. CASE type = "BLOCKS"
      <4>1. s \in Drawing
        BY <1>1, <3>1 DEF Drawing
      <4>2. Drawing' = {}
        BY <1>3, <4>1 DEF ReqInv, AtMostOneDraws
      <4> QED
        BY <4>2 DEF CheckHolds
    <3>2. CASE type # "BLOCKS"
      <4>1. Blocks(relation') \subseteq Blocks(relation)
        BY <1>2, <1>6, <3>2, RowBlocks DEF ReqInv, NewPairs
      <4> QED
        BY <1>3, <4>1, ChecksSurvive
    <3> QED
      BY <3>1, <3>2
  <2>6. DepNext
    BY <1>2, <2>4 DEF DepNext
  <2> QED
    BY <1>4, <2>5, <2>6
<1> QED
  BY <1>5, <1>6 DEF WriteEdge

LEMMA RemoveEdgeStep ==
  ASSUME ReqInv, NEW p \in Pairs, RemoveEdge(p)
  PROVE  inflight' \in [Slot -> Request] /\ CheckHolds' /\ DepNext
<1>1. RemoveDependency(p) /\ inflight' = inflight
  BY DEF RemoveEdge
<1>2. Blocks(relation') \subseteq Blocks(relation)
  BY <1>1, RowBlocks DEF ReqInv, RemoveDependency, None
<1>3. \A q \in Drawing' : q \in Drawing /\ inflight'[q].pair = inflight[q].pair
  BY <1>1 DEF Drawing
<1> QED
  BY <1>1, <1>2, <1>3, ChecksSurvive DEF DepNext, ReqInv

LEMMA LandingStep ==
  ASSUME ReqInv, NEW s \in Slot,
         \/ \E t \in Ticket : LandWrite(s, t) \/ CountWaiting(s, t)
         \/ ListDependents(s) \/ TellLead(s)
  PROVE  inflight' \in [Slot -> Request] /\ CheckHolds' /\ [DepNext]_depVars
<1> DEFINE here == inflight[s]
<1>1. here \in Request
  BY DEF ReqInv
<1>2. PICK r \in Request : Put(s, r) /\ r.phase \notin { "checked", "writing" }
  <2>1. ASSUME NEW t \in Ticket, LandWrite(s, t)
        PROVE  \E r \in Request : Put(s, r) /\ r.phase \notin { "checked", "writing" }
    BY <2>1 DEF LandWrite, Request
  <2>2. CASE ListDependents(s)
    <3>1. Dependents(here.ticket) \in SUBSET Ticket
      BY DEF Dependents
    <3>2. [phase |-> "counting", left |-> Dependents(here.ticket)] \in Request
      BY <3>1 DEF Request
    <3> QED
      BY <2>2, <3>2, IdleIsRequest DEF ListDependents, Idle
  <2>3. ASSUME NEW t \in Ticket, CountWaiting(s, t)
        PROVE  \E r \in Request : Put(s, r) /\ r.phase \notin { "checked", "writing" }
    <3>1. here.left \in SUBSET Ticket
      BY <1>1, <2>3 DEF CountWaiting, Request
    <3>2. here.left \ {t} \in SUBSET Ticket
      BY <3>1
    <3>3. Counting(here.left \ {t}) \in Request
      BY <3>2, IdleIsRequest DEF Counting, Request
    <3>4. [phase |-> "telling", whom |-> t, left |-> here.left \ {t}] \in Request
      BY <3>2 DEF Request
    <3>5. Counting(here.left \ {t}).phase \notin { "checked", "writing" }
      BY DEF Counting, Idle
    <3> QED
      BY <2>3, <3>3, <3>4, <3>5 DEF CountWaiting
  <2>4. CASE TellLead(s)
    <3>1. here.left \in SUBSET Ticket
      BY <1>1, <2>4 DEF TellLead, Request
    <3>2. Counting(here.left) \in Request
      BY <3>1, IdleIsRequest DEF Counting, Request
    <3>3. Counting(here.left).phase \notin { "checked", "writing" }
      BY DEF Counting, Idle
    <3> QED
      BY <2>4, <3>2, <3>3 DEF TellLead
  <2> QED
    BY <2>1, <2>2, <2>3, <2>4
<1>3. inflight' \in [Slot -> Request]
  BY <1>2, PutRequest DEF ReqInv
<1>4. \A q \in Drawing' : q \in Drawing /\ inflight'[q] = inflight[q]
  BY <1>2, DrawsNothing
<1>5. relation' = relation /\ [DepNext]_depVars
  BY DEF LandWrite, Land, ListDependents, CountWaiting, TellLead, depVars, DepNext
<1> QED
  BY <1>3, <1>4, <1>5, ChecksSurvive

LEMMA ReqStep ==
  ASSUME ReqInv, ReqNext, AtMostOneDraws'
  PROVE  ReqInv' /\ [DepNext]_depVars
<1>1. inflight' \in [Slot -> Request] /\ CheckHolds' /\ [DepNext]_depVars
  <2>1. ASSUME NEW s \in Slot, NEW b \in Ticket, NEW t \in Ticket, NEW type \in Type,
               LoadEdges(s, b, t, type)
        PROVE  inflight' \in [Slot -> Request] /\ CheckHolds' /\ [DepNext]_depVars
    BY <2>1, LoadEdgesStep
  <2>2. ASSUME NEW s \in Slot, FindExisting(s)
        PROVE  inflight' \in [Slot -> Request] /\ CheckHolds' /\ [DepNext]_depVars
    BY <2>2, FindExistingStep
  <2>3. ASSUME NEW t \in Ticket, ReopenWrite(t)
        PROVE  inflight' \in [Slot -> Request] /\ CheckHolds' /\ [DepNext]_depVars
    <3>1. UNCHANGED <<relation, inflight>> /\ DepNext
      BY <2>3 DEF ReopenWrite, Reopen, DepNext
    <3>2. \A q \in Drawing' : q \in Drawing /\ inflight'[q].pair = inflight[q].pair
      BY <3>1 DEF Drawing
    <3> QED
      BY <3>1, <3>2, ChecksSurvive DEF ReqInv
  <2>4. ASSUME NEW s \in Slot,
               \/ \E t \in Ticket : LandWrite(s, t) \/ CountWaiting(s, t)
               \/ ListDependents(s) \/ TellLead(s)
        PROVE  inflight' \in [Slot -> Request] /\ CheckHolds' /\ [DepNext]_depVars
    BY <2>4, LandingStep
  <2> QED
    BY <2>1, <2>2, <2>3, <2>4, WriteEdgeStep, RemoveEdgeStep DEF ReqNext
<1>2. DepTypeOK' /\ GraphIsDAG'
  BY <1>1, DepStep DEF ReqInv
<1> QED
  BY <1>1, <1>2 DEF ReqInv

(***************************************************************************)
(* For any number of tickets and of requests: while no two of them draw a  *)
(* blocking relation at once, the requests implement the handlers taken    *)
(* whole, whatever lands, is reopened, retyped or removed in between, and  *)
(* the graph stays a DAG.                                                  *)
(***************************************************************************)
THEOREM RequestsImplement == OneDrawnSpec => ImplementsDependencies /\ []GraphIsDAG
<1>1. ReqInit => ReqInv
  <2> SUFFICES ASSUME ReqInit PROVE ReqInv
    OBVIOUS
  <2>1. DepTypeOK /\ GraphIsDAG
    BY NothingDrawn DEF ReqInit, DepInit, DepTypeOK
  <2>2. inflight \in [Slot -> Request]
    BY IdleIsRequest DEF ReqInit
  <2>3. Drawing = {}
    BY DEF ReqInit, Drawing, Idle
  <2> QED
    BY <2>1, <2>2, <2>3 DEF ReqInv, AtMostOneDraws, CheckHolds
<1>2. ASSUME ReqInv, [ReqNext /\ \A s, q \in Drawing' : s = q]_reqVars
      PROVE  ReqInv' /\ [DepNext]_depVars
  <2>1. CASE ReqNext /\ \A s, q \in Drawing' : s = q
    BY <1>2, <2>1, ReqStep DEF AtMostOneDraws
  <2>2. CASE UNCHANGED reqVars
    BY <1>2, <2>2
    DEF reqVars, depVars, ReqInv, DepTypeOK, GraphIsDAG, AtMostOneDraws, CheckHolds, Drawing
  <2> QED
    BY <1>2, <2>1, <2>2
<1>3. ReqInit => DepInit
  BY DEF ReqInit
<1>4. ReqInv => GraphIsDAG
  BY DEF ReqInv
<1> QED
  BY <1>1, <1>2, <1>3, <1>4, PTL DEF OneDrawnSpec, ImplementsDependencies, DepSpec

-----------------------------------------------------------------------------
(* Who is told, with no limit on what the requests draw                    *)

\* The lead of d is on the list of slot s, or about to be.
ToBeTold(s, d) ==
  \/ inflight[s].phase = "landed" /\ relation[<<inflight[s].ticket, d>>] = "BLOCKS"
  \/ inflight[s].phase = "counting" /\ d \in inflight[s].left
  \/ inflight[s].phase = "telling" /\ d \in inflight[s].left \cup {inflight[s].whom}

ClearedIsHeld ==
  \A d \in cleared :
    Unmet(relation, done, d) = {} /\ \E s \in Slot : ToBeTold(s, d)

ToldInv ==
  /\ DepTypeOK
  /\ inflight \in [Slot -> Request]
  /\ cleared \in SUBSET Ticket
  /\ ClearedIsHeld

(***************************************************************************)
(* Enough to show of a step: its slot is left with a request, what stays   *)
(* cleared is still met, and who was to be told of it still is.            *)
(***************************************************************************)
LEMMA StillHeld ==
  ASSUME ToldInv, NEW s \in Slot, NEW r \in Request, Put(s, r), DepTypeOK',
         cleared' \subseteq cleared,
         \A d \in cleared' : /\ Unmet(relation', done', d) = {}
                             /\ \A b \in Ticket : relation'[<<b, d>>] = relation[<<b, d>>]
                             /\ ToBeTold(s, d) => ToBeTold(s, d)'
  PROVE  ToldInv'
<1>1. /\ inflight' \in [Slot -> Request] /\ inflight'[s] = r
      /\ \A q \in Slot \ {s} : inflight'[q] = inflight[q]
  BY PutRequest DEF ToldInv
<1>2. ASSUME NEW d \in cleared'
      PROVE  \E q \in Slot : ToBeTold(q, d)'
  <2>1. PICK q \in Slot : ToBeTold(q, d)
    BY <1>2 DEF ToldInv, ClearedIsHeld
  <2>2. CASE q = s
    BY <1>2, <2>1, <2>2
  <2>3. CASE q # s
    <3>1. inflight'[q] = inflight[q] /\ inflight[q] \in Request
      BY <1>1, <2>3 DEF ToldInv
    <3>2. inflight[q].phase = "landed" => inflight[q].ticket \in Ticket
      BY <3>1 DEF Request
    <3> QED
      BY <1>2, <2>1, <3>1, <3>2 DEF ToBeTold
  <2> QED
    BY <2>2, <2>3
<1> QED
  BY <1>1, <1>2 DEF ToldInv, ClearedIsHeld

LEMMA DrawStep ==
  ASSUME ToldInv, NEW s \in Slot,
         \/ \E b, t \in Ticket, type \in Type : LoadEdges(s, b, t, type)
         \/ FindExisting(s)
  PROVE  ToldInv'
<1>1. inflight[s] \in Request /\ UNCHANGED <<relation, done, cleared>>
  BY DEF ToldInv, LoadEdges, FindExisting, depVars
<1>2. inflight[s].phase \in {"idle", "checked"}
  <2>1. Idle.phase = "idle"
    BY DEF Idle
  <2> QED
    BY <2>1 DEF LoadEdges, FindExisting
<1>3. PICK r \in Request : Put(s, r)
  <2>1. ASSUME NEW b \in Ticket, NEW t \in Ticket, NEW type \in Type,
               LoadEdges(s, b, t, type)
        PROVE  \E r \in Request : Put(s, r)
    <3>1. [phase |-> "checked", pair |-> <<b, t>>, type |-> type] \in Request
      BY <2>1 DEF LoadEdges, Request, NewPairs, Pairs
    <3> QED
      BY <2>1, <3>1 DEF LoadEdges
  <2>2. ASSUME FindExisting(s)
        PROVE  \E r \in Request : Put(s, r)
    <3>1. inflight[s].pair \in NewPairs /\ inflight[s].type \in Type
      BY <1>1, <2>2 DEF FindExisting, Request
    <3>2. (relation[inflight[s].pair] # None) \in BOOLEAN
      OBVIOUS
    <3>3. [ phase |-> "writing", pair |-> inflight[s].pair, type |-> inflight[s].type,
            exists |-> relation[inflight[s].pair] # None ] \in Request
      BY <3>1, <3>2 DEF Request
    <3> QED
      BY <2>2, <3>3, IdleIsRequest DEF FindExisting
  <2> QED
    BY <2>1, <2>2
<1>4. \A d \in cleared : Unmet(relation, done, d) = {} /\ ~ToBeTold(s, d)
  BY <1>2 DEF ToldInv, ClearedIsHeld, ToBeTold
<1>5. DepTypeOK'
  BY <1>1 DEF ToldInv, DepTypeOK
<1> QED
  BY <1>1, <1>3, <1>4, <1>5, StillHeld

LEMMA DrawnStep ==
  ASSUME ToldInv, NEW s \in Slot, WriteEdge(s)
  PROVE  ToldInv'
<1> DEFINE p == inflight[s].pair
           type == inflight[s].type
<1>1. inflight[s] \in Request /\ inflight[s].phase = "writing" /\ Put(s, Idle) /\ done' = done
  BY DEF WriteEdge, ToldInv
<1>2. p \in Pairs /\ type \in Type
  BY <1>1 DEF Request, NewPairs
<1>3. \A d : ~ToBeTold(s, d)
  BY <1>1 DEF ToBeTold
<1>4. CASE UNCHANGED <<relation, cleared>>
  BY <1>1, <1>3, <1>4, IdleIsRequest, StillHeld DEF ToldInv, ClearedIsHeld, DepTypeOK
<1>5. CASE /\ relation' = [relation EXCEPT ![p] = type]
           /\ cleared' = { t \in cleared : Unmet(relation', done, t) = {} } \ {p[2]}
  <2>1. DepTypeOK'
    BY <1>1, <1>2, <1>5, RowBlocks DEF ToldInv, DepTypeOK
  <2>2. ASSUME NEW d \in cleared'
        PROVE  \A b \in Ticket : relation'[<<b, d>>] = relation[<<b, d>>]
    <3>1. d # p[2] /\ d \in Ticket
      BY <1>5, <2>2 DEF ToldInv
    <3>2. \A b \in Ticket : <<b, d>> \in Pairs /\ <<b, d>> # p
      BY <3>1 DEF Pairs
    <3> HIDE DEF p, type
    <3> QED
      BY <1>5, <3>2 DEF ToldInv, DepTypeOK
  <2> QED
    BY <1>1, <1>3, <1>5, <2>1, <2>2, IdleIsRequest, StillHeld
<1> QED
  BY <1>4, <1>5 DEF WriteEdge

\* No slot moves.
LEMMA OutsideStep ==
  ASSUME ToldInv,
         \/ \E p \in Pairs : RemoveEdge(p)
         \/ \E t \in Ticket : ReopenWrite(t)
         \/ UNCHANGED reqVars
  PROVE  ToldInv'
<1>1. inflight' = inflight /\ cleared' \subseteq cleared
  BY DEF RemoveEdge, ReopenWrite, reqVars
<1>2. DepTypeOK'
  BY DEF ToldInv, DepTypeOK, RemoveEdge, RemoveDependency, ReopenWrite, Reopen, reqVars, depVars
<1>3. ASSUME NEW d \in cleared'
      PROVE  /\ Unmet(relation', done', d) = {}
             /\ \A b \in Ticket : relation'[<<b, d>>] = relation[<<b, d>>]
  <2>1. d \in cleared /\ d \in Ticket /\ Unmet(relation, done, d) = {}
    BY <1>1, <1>3 DEF ToldInv, ClearedIsHeld
  <2>2. ASSUME NEW p \in Pairs, RemoveEdge(p)
        PROVE  /\ Unmet(relation', done', d) = {}
               /\ \A b \in Ticket : relation'[<<b, d>>] = relation[<<b, d>>]
    <3>1. relation' = [relation EXCEPT ![p] = None] /\ done' = done /\ d # p[2]
      BY <1>3, <2>2 DEF RemoveEdge, RemoveDependency
    <3>2. \A b \in Ticket : <<b, d>> \in Pairs /\ <<b, d>> # p
      BY <2>1, <3>1 DEF Pairs
    <3>3. \A b \in Ticket : relation'[<<b, d>>] = relation[<<b, d>>]
      BY <3>1, <3>2 DEF ToldInv, DepTypeOK
    <3>4. Unmet(relation', done', d) = Unmet(relation, done, d)
      BY <3>1, <3>2, <3>3 DEF Unmet, WaitsOn, Blocks
    <3> QED
      BY <2>1, <3>3, <3>4
  <2>3. ASSUME NEW t \in Ticket, ReopenWrite(t)
        PROVE  /\ Unmet(relation', done', d) = {}
               /\ \A b \in Ticket : relation'[<<b, d>>] = relation[<<b, d>>]
    BY <1>3, <2>3 DEF ReopenWrite, Reopen
  <2>4. CASE UNCHANGED reqVars
    BY <2>1, <2>4 DEF reqVars, depVars
  <2> QED
    BY <2>2, <2>3, <2>4
<1>4. ASSUME NEW d \in cleared'
      PROVE  \E s \in Slot : ToBeTold(s, d)'
  <2>1. PICK s \in Slot : ToBeTold(s, d)
    BY <1>1, <1>4 DEF ToldInv, ClearedIsHeld
  <2>2. inflight[s].phase = "landed" => inflight[s].ticket \in Ticket
    BY DEF ToldInv, Request
  <2> QED
    BY <1>1, <1>3, <1>4, <2>1, <2>2 DEF ToBeTold
<1> QED
  BY <1>1, <1>2, <1>3, <1>4 DEF ToldInv, ClearedIsHeld

(***************************************************************************)
(* A landing takes upon itself all it has freed: it frees only tickets it  *)
(* was a prerequisite of.                                                  *)
(***************************************************************************)
LEMMA LandStep ==
  ASSUME ToldInv, NEW s \in Slot, NEW t \in Ticket, LandWrite(s, t)
  PROVE  ToldInv'
<1> DEFINE r == [phase |-> "landed", ticket |-> t]
<1>1. r \in Request /\ Put(s, r) /\ relation' = relation /\ done' = done \cup {t}
  BY DEF LandWrite, Land, Request
<1>2. /\ inflight' \in [Slot -> Request] /\ inflight'[s] = r
      /\ \A q \in Slot \ {s} : inflight'[q] = inflight[q]
  BY <1>1, PutRequest DEF ToldInv
<1>3. DepTypeOK' /\ cleared' \in SUBSET Ticket
  BY <1>1 DEF ToldInv, DepTypeOK, LandWrite
<1>4. ASSUME NEW d \in cleared'
      PROVE  Unmet(relation', done', d) = {} /\ \E q \in Slot : ToBeTold(q, d)'
  <2>1. CASE d \in cleared
    <3>1. Unmet(relation, done, d) = {}
      BY <2>1 DEF ToldInv, ClearedIsHeld
    <3>2. PICK q \in Slot : ToBeTold(q, d)
      BY <2>1 DEF ToldInv, ClearedIsHeld
    <3>3. q # s
      BY <3>2 DEF ToBeTold, LandWrite, Idle
    <3> QED
      BY <1>1, <1>2, <3>1, <3>2, <3>3 DEF Unmet, ToBeTold
  <2>2. CASE d \notin cleared
    <3>1. d \in Ticket /\ Unmet(relation, done, d) # {} /\ Unmet(relation', done', d) = {}
      BY <1>1, <1>4, <2>2 DEF LandWrite
    <3>2. t \in WaitsOn(Blocks(relation), d)
      BY <1>1, <3>1 DEF Unmet
    <3>3. relation[<<t, d>>] = "BLOCKS"
      BY <3>2 DEF WaitsOn, Blocks
    <3>4. ToBeTold(s, d)'
      BY <1>1, <1>2, <3>3 DEF ToBeTold
    <3> QED
      BY <3>1, <3>4
  <2> QED
    BY <2>1, <2>2
<1> QED
  BY <1>2, <1>3, <1>4 DEF ToldInv, ClearedIsHeld

LEMMA TellingStep ==
  ASSUME ToldInv, NEW s \in Slot,
         \/ ListDependents(s)
         \/ \E t \in Ticket : CountWaiting(s, t)
         \/ TellLead(s)
  PROVE  ToldInv'
<1> DEFINE here == inflight[s]
<1>1. here \in Request /\ UNCHANGED <<relation, done>> /\ cleared' \subseteq cleared
  BY DEF ToldInv, ListDependents, CountWaiting, TellLead, depVars
<1>2. PICK r \in Request :
        /\ Put(s, r)
        /\ \A d \in cleared' : ToBeTold(s, d) => \/ r.phase = "counting" /\ d \in r.left
                                                 \/ r.phase = "telling" /\ d \in r.left \cup {r.whom}
  <2>1. CASE ListDependents(s)
    <3>1. here.phase = "landed" /\ Dependents(here.ticket) \in SUBSET Ticket /\ cleared' = cleared
      BY <2>1 DEF ListDependents, Dependents
    <3>2. \A d \in cleared : ToBeTold(s, d) => d \in Dependents(here.ticket)
      BY <3>1 DEF ToldInv, ToBeTold, Dependents
    <3>3. Dependents(here.ticket) = {} => \A d \in cleared : ~ToBeTold(s, d)
      BY <3>2
    <3>4. [phase |-> "counting", left |-> Dependents(here.ticket)] \in Request
      BY <3>1 DEF Request
    <3> QED
      BY <2>1, <3>1, <3>2, <3>3, <3>4, IdleIsRequest DEF ListDependents
  <2>2. ASSUME NEW t \in Ticket, CountWaiting(s, t)
        PROVE  \E r \in Request :
                 /\ Put(s, r)
                 /\ \A d \in cleared' : ToBeTold(s, d) =>
                      \/ r.phase = "counting" /\ d \in r.left
                      \/ r.phase = "telling" /\ d \in r.left \cup {r.whom}
    <3> DEFINE rest == here.left \ {t}
    <3>1. here.phase = "counting" /\ here.left \in SUBSET Ticket /\ cleared' = cleared
      BY <1>1, <2>2 DEF CountWaiting, Request
    <3>2. \A d \in cleared : ToBeTold(s, d) => d \in rest \cup {t}
      BY <3>1 DEF ToBeTold
    <3>3. CASE Unmet(relation, done, t) = {}
      <4>1. [phase |-> "telling", whom |-> t, left |-> rest] \in Request
        BY <3>1 DEF Request
      <4>2. Put(s, [phase |-> "telling", whom |-> t, left |-> rest])
        BY <2>2, <3>3 DEF CountWaiting
      <4> QED
        BY <3>1, <3>2, <4>1, <4>2
    <3>4. CASE Unmet(relation, done, t) # {}
      <4>1. t \notin cleared
        BY <3>4 DEF ToldInv, ClearedIsHeld
      <4>2. Counting(rest) \in Request
        BY <3>1, IdleIsRequest DEF Counting, Request
      <4>3. Put(s, Counting(rest))
        BY <2>2, <3>4 DEF CountWaiting
      <4>4. \A d \in rest : Counting(rest).phase = "counting" /\ d \in Counting(rest).left
        BY DEF Counting
      <4> QED
        BY <3>1, <3>2, <4>1, <4>2, <4>3, <4>4
    <3> QED
      BY <3>3, <3>4
  <2>3. CASE TellLead(s)
    <3>1. /\ here.phase = "telling" /\ here.left \in SUBSET Ticket
          /\ cleared' = cleared \ {here.whom}
      BY <1>1, <2>3 DEF TellLead, Request
    <3>2. \A d \in cleared' : ToBeTold(s, d) => d \in here.left
      BY <3>1 DEF ToBeTold
    <3>3. Counting(here.left) \in Request /\ Put(s, Counting(here.left))
      BY <2>3, <3>1, IdleIsRequest DEF Counting, Request, TellLead
    <3>4. \A d \in here.left :
            Counting(here.left).phase = "counting" /\ d \in Counting(here.left).left
      BY DEF Counting
    <3> QED
      BY <3>2, <3>3, <3>4
  <2> QED
    BY <2>1, <2>2, <2>3
<1>3. inflight'[s] = r
  BY <1>2, PutRequest DEF ToldInv
<1>4. \A d \in cleared' : ToBeTold(s, d) => ToBeTold(s, d)'
  BY <1>2, <1>3 DEF ToBeTold
<1>5. DepTypeOK' /\ \A d \in cleared' : Unmet(relation', done', d) = {}
  BY <1>1 DEF ToldInv, ClearedIsHeld, DepTypeOK
<1> QED
  BY <1>1, <1>2, <1>4, <1>5, StillHeld

LEMMA ToldStarts == ReqInit => ToldInv
  BY IdleIsRequest DEF ReqInit, DepInit, ToldInv, DepTypeOK, ClearedIsHeld

LEMMA ToldKeeps == ToldInv /\ [ReqNext]_reqVars => ToldInv'
  BY DrawStep, DrawnStep, OutsideStep, LandStep, TellingStep DEF ReqNext

LEMMA ToldEnough == ToldInv => WayClearedIsTold
<1>1. Idle.phase = "idle"
  BY DEF Idle
<1>2. \A s \in Slot : \A d : inflight[s] = Idle => ~ToBeTold(s, d)
  BY <1>1 DEF ToBeTold
<1> QED
  BY <1>2 DEF ToldInv, ClearedIsHeld, WayClearedIsTold, Quiet

(***************************************************************************)
(* Whenever no request is under way every lead whose ticket a landing      *)
(* freed has been told, for any number of tickets and of requests, which   *)
(* may all land, reopen, draw and remove at once.                          *)
(***************************************************************************)
THEOREM LeadsAreTold == ReqSpec \/ OneDrawnSpec => []WayClearedIsTold
<1>1. ReqSpec => []WayClearedIsTold
  BY ToldStarts, ToldKeeps, ToldEnough, PTL DEF ReqSpec
<1>2. ToldInv /\ [ReqNext /\ \A s, q \in Drawing' : s = q]_reqVars => ToldInv'
  BY ToldKeeps
<1>3. OneDrawnSpec => []WayClearedIsTold
  BY <1>2, ToldStarts, ToldEnough, PTL DEF OneDrawnSpec
<1> QED
  BY <1>1, <1>3

-----------------------------------------------------------------------------
(* The walk                                                                *)

\* Everything seen is upstream of the proposed prerequisite.
SeenIsUpstream ==
  \A S \in SUBSET Ticket : blocking \in S /\ Closed(S, edges) => seen \subseteq S

\* What was seen and left the queue has had its own prerequisites seen.
VisitedIsClosed == \A t \in seen \ queue : WaitsOn(edges, t) \subseteq seen

WalkInv ==
  /\ WalkTypeOK
  /\ blocking \in seen
  /\ SeenIsUpstream /\ VisitedIsClosed
  /\ answer = "cycle" => WouldCreateCycle(edges, blocking, blocked)
  /\ answer # "cycle" => blocked \notin seen
  /\ answer = "free"  => Closed(seen, edges)

LEMMA WalkStarts == WalkInit => WalkInv
  BY DEF WalkInit, WalkInv, WalkTypeOK, SeenIsUpstream, VisitedIsClosed, Answers,
         WouldCreateCycle

\* What a member of seen waits on is upstream, too.
LEMMA OneStepUp ==
  ASSUME WalkInv, NEW t \in seen, NEW S \in SUBSET Ticket, blocking \in S, Closed(S, edges)
  PROVE  WaitsOn(edges, t) \subseteq S
  BY DEF WalkInv, SeenIsUpstream, Closed

LEMMA VisitStep ==
  ASSUME WalkInv, NEW t \in Ticket, Visit(t)
  PROVE  WalkInv'
<1>1. t \in seen /\ UNCHANGED arguments /\ answer = "walking"
  BY DEF Visit, WalkInv, WalkTypeOK
<1>2. WaitsOn(edges, t) \in SUBSET Ticket
  BY DEF WaitsOn
<1>3. CASE blocked \in WaitsOn(edges, t)
  <2>1. answer' = "cycle" /\ UNCHANGED <<seen, queue>>
    BY <1>3 DEF Visit
  <2>2. WouldCreateCycle(edges, blocking, blocked)
    BY <1>1, <1>3, OneStepUp DEF WouldCreateCycle
  <2> QED
    BY <1>1, <2>1, <2>2
    DEF WalkInv, WalkTypeOK, SeenIsUpstream, VisitedIsClosed, arguments, Answers
<1>4. CASE blocked \notin WaitsOn(edges, t)
  <2>1. /\ seen' = seen \cup WaitsOn(edges, t)
        /\ queue' = (queue \ {t}) \cup (WaitsOn(edges, t) \ seen)
        /\ answer' = "walking"
    BY <1>1, <1>4 DEF Visit, Marked, Queued
  <2>2. WalkTypeOK'
    BY <1>1, <1>2, <2>1 DEF WalkInv, WalkTypeOK, arguments, Answers
  <2>3. SeenIsUpstream'
    BY <1>1, <2>1, OneStepUp DEF WalkInv, SeenIsUpstream, arguments
  <2>4. VisitedIsClosed'
    <3> SUFFICES ASSUME NEW u \in seen' \ queue' PROVE WaitsOn(edges, u) \subseteq seen'
      BY <1>1 DEF VisitedIsClosed, arguments
    <3>1. u \in seen /\ (u = t \/ u \notin queue)
      BY <2>1
    <3> QED
      BY <2>1, <3>1 DEF WalkInv, VisitedIsClosed
  <2>5. blocking' \in seen' /\ blocked' \notin seen'
    BY <1>1, <1>4, <2>1 DEF WalkInv, arguments
  <2> QED
    BY <2>1, <2>2, <2>3, <2>4, <2>5 DEF WalkInv
<1> QED
  BY <1>3, <1>4

LEMMA GiveUpStep ==
  ASSUME WalkInv, GiveUp, IsFiniteSet(Ticket), Cardinality(Ticket) <= MaxNodes
  PROVE  WalkInv'
<1>1. Cardinality(seen) <= Cardinality(Ticket) /\ IsFiniteSet(seen)
  BY FS_Subset DEF WalkInv, WalkTypeOK
<1>2. Cardinality(seen) \in Nat /\ Cardinality(Ticket) \in Nat
  BY <1>1, FS_CardinalityType
<1>3. queue = {}
  BY <1>1, <1>2, MaxNodesAssumption DEF GiveUp
<1>4. Closed(seen, edges)
  BY <1>3 DEF WalkInv, VisitedIsClosed, Closed
<1> QED
  BY <1>4 DEF GiveUp, WalkInv, WalkTypeOK, SeenIsUpstream, VisitedIsClosed, arguments, Answers

LEMMA AnswerFollows == WalkInv => WalkAnswersRight
  BY DEF WalkInv, WalkTypeOK, WalkAnswersRight, WouldCreateCycle

(***************************************************************************)
(* wouldCreateCycle reports a cycle exactly if the blocked ticket is       *)
(* upstream of the proposed prerequisite, rings in the graph or not, as    *)
(* long as there are no more than MAX_NODES tickets to see.                *)
(***************************************************************************)
THEOREM WalkIsRight ==
  ASSUME IsFiniteSet(Ticket), Cardinality(Ticket) <= MaxNodes
  PROVE  WalkSpec => []WalkAnswersRight
<1>1. ASSUME WalkInv, [WalkNext]_walkVars PROVE WalkInv'
  <2>1. CASE UNCHANGED walkVars
    BY <1>1, <2>1
    DEF WalkInv, WalkTypeOK, SeenIsUpstream, VisitedIsClosed, walkVars, arguments
  <2> QED
    BY <1>1, <2>1, VisitStep, GiveUpStep DEF WalkNext
<1> QED
  BY <1>1, WalkStarts, AnswerFollows, PTL DEF WalkSpec

\* The types hold whatever the limit and however many tickets there are.
LEMMA WalkTyped ==
  ASSUME WalkTypeOK, [WalkNext]_walkVars
  PROVE  WalkTypeOK'
<1>1. CASE UNCHANGED walkVars
  BY <1>1 DEF WalkTypeOK, walkVars, arguments
<1>2. ASSUME NEW t \in Ticket, Visit(t) PROVE WalkTypeOK'
  <2>1. WaitsOn(edges, t) \subseteq Ticket
    BY DEF WalkTypeOK, WaitsOn, Pairs
  <2> QED
    BY <1>2, <2>1 DEF Visit, Marked, Queued, WalkTypeOK, Answers, arguments
<1>3. CASE GiveUp
  BY <1>3 DEF GiveUp, WalkTypeOK, Answers, arguments
<1> QED
  BY <1>1, <1>2, <1>3 DEF WalkNext

(***************************************************************************)
(* Each turn of the loop that does not end it visits a ticket not visited  *)
(* before, rings in the graph or not, whatever MAX_NODES is: at most one   *)
(* turn for each ticket, which is why the walk ends.                       *)
(***************************************************************************)
THEOREM WalkVisitsOnce == WalkSpec => TurnsUseUpTickets
<1>1. ASSUME WalkTypeOK, WalkNext, answer' = "walking"
      PROVE  \E t \in queue : seen' \ queue' = (seen \ queue) \cup {t}
  <2>1. PICK t \in Ticket : Visit(t)
    BY <1>1 DEF WalkNext, GiveUp
  <2>2. t \in queue /\ seen' = Marked(t) /\ queue' = Queued(t)
    BY <1>1, <2>1 DEF Visit
  <2>3. seen' \ queue' = (seen \ queue) \cup {t}
    BY <1>1, <2>2 DEF WalkTypeOK, Marked, Queued
  <2> QED
    BY <2>2, <2>3
<1>2. WalkInit => WalkTypeOK
  BY WalkStarts DEF WalkInv
<1> QED
  BY <1>1, <1>2, WalkTyped, PTL DEF WalkSpec, TurnsUseUpTickets

=============================================================================
