----------------------------- MODULE Server_proofs -----------------------------
(***************************************************************************)
(* Proofs about Server, for every set of requests, pool and answer: types, *)
(* the single holder of the engine, the queue gauge, and the event stream. *)
(*                                                                         *)
(* The gauge is a counter that is decremented, so that it is a natural     *)
(* number at all depends on its counting the requests that wait: type      *)
(* correctness, the gauge and the single holder are proved together.       *)
(***************************************************************************)
EXTENDS Server, FiniteSetTheorems, SequenceTheorems, TLAPS

Waiting == {r \in Request : at[r] \in {"waiting", "locked"}}

(* A connection is in the backlog once, and is nowhere else. *)
Queued ==
  \A i, j \in 1 .. Len(backlog) :
    at[backlog[i]] = "backlog" /\ (backlog[i] = backlog[j] => i = j)

Inv == TypeOK /\ OneHolder /\ GaugeCounts /\ Queued

-----------------------------------------------------------------------------
LEMMA WaitingFinite == IsFiniteSet(Waiting) /\ Cardinality(Waiting) \in Nat
<1>1. Waiting \in SUBSET Request
  BY DEF Waiting
<1> QED
  BY <1>1, FS_Subset, FS_CardinalityType, ServerAssumption

(* How the set of those who wait changes with the place of one request.    *)
LEMMA WaitingMoves ==
  ASSUME at \in [Request -> Place], NEW r \in Request, NEW place, Goto(r, place)
  PROVE  /\ at[r] \notin {"waiting", "locked"} /\ place \notin {"waiting", "locked"}
              => Waiting' = Waiting
         /\ at[r] \in {"waiting", "locked"} /\ place \in {"waiting", "locked"}
              => Waiting' = Waiting
         /\ at[r] \notin {"waiting", "locked"} /\ place \in {"waiting", "locked"}
              => Waiting' = Waiting \cup {r} /\ r \notin Waiting
         /\ at[r] \in {"waiting", "locked"} /\ place \notin {"waiting", "locked"}
              => Waiting' = Waiting \ {r} /\ r \in Waiting
  BY DEF Goto, Waiting

(* A step that changes neither the gauge nor who waits.                    *)
LEMMA GaugeKept ==
  ASSUME GaugeCounts, Waiting' = Waiting, queueDepth' = queueDepth
  PROVE  GaugeCounts'
  BY DEF GaugeCounts, Waiting

LEMMA GaugeUp ==
  ASSUME GaugeCounts, NEW r \in Request, r \notin Waiting,
         Waiting' = Waiting \cup {r}, Enqueue
  PROVE  GaugeCounts' /\ queueDepth' \in Nat
<1>1. Cardinality(Waiting') = Cardinality(Waiting) + 1
  BY WaitingFinite, FS_AddElement
<1>2. queueDepth = Cardinality(Waiting) /\ Cardinality(Waiting) \in Nat
  BY WaitingFinite DEF GaugeCounts, Waiting
<1>3. queueDepth' = Cardinality(Waiting')
  BY <1>1, <1>2 DEF Enqueue
<1> QED
  BY <1>1, <1>2, <1>3 DEF GaugeCounts, Waiting

LEMMA GaugeDown ==
  ASSUME GaugeCounts, NEW r \in Request, r \in Waiting,
         Waiting' = Waiting \ {r}, LeaveQueue(r)
  PROVE  GaugeCounts' /\ queueDepth' \in Nat
<1>1. Cardinality(Waiting') = Cardinality(Waiting) - 1
  BY WaitingFinite, FS_RemoveElement
<1>2. Cardinality(Waiting') \in Nat
  <2>1. IsFiniteSet(Waiting')
    BY WaitingFinite, FS_RemoveElement
  <2> QED
    BY <2>1, FS_CardinalityType
<1>3. queueDepth = Cardinality(Waiting) /\ Cardinality(Waiting) \in Nat
  BY WaitingFinite DEF GaugeCounts, Waiting
<1>4. queueDepth' = Cardinality(Waiting')
  BY <1>1, <1>3 DEF LeaveQueue
<1> QED
  BY <1>2, <1>4 DEF GaugeCounts, Waiting

-----------------------------------------------------------------------------
(* The conjuncts of TypeOK about the stream, and the rest but the gauge.   *)
NetTyped ==
  /\ sink \in [Request -> BOOLEAN]
  /\ alive \in [Request -> BOOLEAN]
  /\ deltas \in [Request -> 0 .. MaxDeltas]
  /\ said \in [Request -> Seq(Event)]
  /\ wire \in [Request -> Seq(Nat)]
  /\ todo \in [Request -> Seq(Event)]

LEMMA SendTyped ==
  ASSUME NetTyped, NEW r \in Request, NEW e \in Event, Send(r, e)
  PROVE  /\ sink' \in [Request -> BOOLEAN]
         /\ said' \in [Request -> Seq(Event)]
         /\ wire' \in [Request -> Seq(Nat)]
<1>1. Append(said[r], e) \in Seq(Event) /\ Len(said[r]) + 1 \in Nat
  BY AppendProperties, LenProperties DEF NetTyped
<1>2. Append(wire[r], Len(said[r]) + 1) \in Seq(Nat)
  BY <1>1, AppendProperties DEF NetTyped
<1>3. (sink[r] /\ conn[r] = "open") \in BOOLEAN
  OBVIOUS
<1> QED
  BY <1>1, <1>2, <1>3 DEF NetTyped, Send

LEMMA SendDeltaTyped ==
  ASSUME NetTyped, NEW r \in Request, SendDelta(r)
  PROVE  /\ sink' \in [Request -> BOOLEAN]
         /\ alive' \in [Request -> BOOLEAN]
         /\ said' \in [Request -> Seq(Event)]
         /\ wire' \in [Request -> Seq(Nat)]
<1>1. CASE UNCHANGED <<said, sink, wire, alive>>
  BY <1>1 DEF NetTyped
<1>2. CASE Send(r, "delta") /\ alive' = [alive EXCEPT ![r] = sink'[r]]
  <2>1. "delta" \in Event
    BY DEF Event
  <2>2. /\ sink' \in [Request -> BOOLEAN]
        /\ said' \in [Request -> Seq(Event)]
        /\ wire' \in [Request -> Seq(Nat)]
    BY <1>2, <2>1, SendTyped
  <2>3. sink'[r] \in BOOLEAN
    BY <2>2
  <2> QED
    BY <1>2, <2>2, <2>3 DEF NetTyped
<1> QED
  BY <1>1, <1>2 DEF SendDelta

-----------------------------------------------------------------------------
LEMMA QueuedKept ==
  ASSUME Inv, NEW r \in Request, NEW place, at[r] # "backlog", Goto(r, place),
         backlog' = backlog
  PROVE  Queued'
<1>1. ASSUME NEW i \in 1 .. Len(backlog)
      PROVE  backlog[i] \in Request /\ backlog[i] # r
  BY <1>1, ElementOfSeq DEF Inv, TypeOK, Queued
<1> QED
  BY <1>1 DEF Inv, TypeOK, Queued, Goto

(* One request moves between places that are not the engine's.             *)
LEMMA HolderKept ==
  ASSUME Inv, NEW r \in Request, NEW place, Goto(r, place), engine' = engine,
         at[r] \in {"locked", "running", "tail"} <=> place \in {"locked", "running", "tail"}
  PROVE  OneHolder'
<1>1. at \in [Request -> Place]
  BY DEF Inv, TypeOK
<1>2. ASSUME NEW q \in Request
      PROVE  at'[q] = IF q = r THEN place ELSE at[q]
  BY <1>1 DEF Goto
<1>3. ASSUME NEW q \in Request
      PROVE  at'[q] \in {"locked", "running", "tail"} <=> engine = q
  <2>1. at[q] \in {"locked", "running", "tail"} <=> engine = q
    BY DEF Inv, OneHolder
  <2>2. CASE q = r
    BY <1>2, <2>1, <2>2
  <2>3. CASE q # r
    BY <1>2, <2>1, <2>3
  <2> QED
    BY <2>2, <2>3
<1> QED
  BY <1>3 DEF OneHolder

LEMMA InvPlaces == Inv => at \in [Request -> Place]
  BY DEF Inv, TypeOK

(* A step that moves one request, not out of the backlog and neither into  *)
(* nor out of the queue or the engine.                                     *)
LEMMA MoveKeeps ==
  ASSUME Inv, TypeOK', NEW r \in Request, NEW place, Goto(r, place), at[r] # "backlog",
         backlog' = backlog, engine' = engine, queueDepth' = queueDepth,
         at[r] \notin {"waiting", "locked"}, place \notin {"waiting", "locked"},
         at[r] \in {"locked", "running", "tail"} <=> place \in {"locked", "running", "tail"}
  PROVE  Inv'
<1>1. OneHolder' /\ Queued'
  BY HolderKept, QueuedKept
<1>2. GaugeCounts'
  BY InvPlaces, WaitingMoves, GaugeKept DEF Inv
<1> QED
  BY <1>1, <1>2 DEF Inv

(* A step that moves none. *)
LEMMA StayKeeps ==
  ASSUME Inv, TypeOK', UNCHANGED <<at, backlog, engine, queueDepth>>
  PROVE  Inv'
<1>1. GaugeCounts'
  BY GaugeKept DEF Inv, Waiting
<1> QED
  BY <1>1 DEF Inv, OneHolder, Queued

-----------------------------------------------------------------------------
LEMMA ArriveKeeps ==
  ASSUME Inv, NEW r \in Request, Arrive(r)
  PROVE  Inv'
<1>1. /\ backlog' \in Seq(Request)
      /\ Len(backlog') = Len(backlog) + 1
      /\ backlog'[Len(backlog) + 1] = r
      /\ \A i \in 1 .. Len(backlog) : backlog'[i] = backlog[i]
  BY AppendProperties DEF Arrive, Inv, TypeOK
<1>2. kind' \in [Request -> Kind] /\ images' \in [Request -> Nat]
  <2>1. PICK k \in Asked[r] : kind' = [kind EXCEPT ![r] = k]
    BY DEF Arrive
  <2>2. k \in Kind
    BY <2>1, ServerAssumption
  <2>3. PICK n \in 0 .. MaxImages[r] : images' = [images EXCEPT ![r] = n]
    BY DEF Arrive
  <2>4. n \in Nat
    BY <2>3, ServerAssumption
  <2> QED
    BY <2>1, <2>2, <2>3, <2>4 DEF Inv, TypeOK
<1>3. TypeOK'
  BY <1>1, <1>2 DEF Arrive, Goto, Inv, TypeOK, Place, metricVars, towerVars, netVars
<1>4. OneHolder'
  BY HolderKept DEF Arrive
<1>5. GaugeCounts'
  <2>1. Waiting' = Waiting
    <3>1. Goto(r, "backlog") /\ at[r] = "away"
      BY DEF Arrive
    <3> QED
      BY <3>1, InvPlaces, WaitingMoves
  <2> QED
    BY <2>1, GaugeKept DEF Arrive, metricVars, Inv
<1>6. Queued'
  <2>1. Len(backlog) \in Nat
    BY LenProperties DEF Inv, TypeOK
  <2>2. ASSUME NEW i \in 1 .. Len(backlog)
        PROVE  backlog[i] \in Request /\ backlog[i] # r /\ at'[backlog[i]] = "backlog"
    BY <2>2, ElementOfSeq DEF Inv, TypeOK, Queued, Arrive, Goto
  <2>3. at'[r] = "backlog"
    BY DEF Inv, TypeOK, Arrive, Goto
  <2>4. \A i \in 1 .. Len(backlog') : i \in 1 .. Len(backlog) \/ i = Len(backlog) + 1
    BY <1>1, <2>1
  <2> QED
    BY <1>1, <2>1, <2>2, <2>3, <2>4 DEF Inv, Queued
<1> QED
  BY <1>3, <1>4, <1>5, <1>6 DEF Inv

LEMMA TakeKeeps ==
  ASSUME Inv, NEW r \in Request, Take(r)
  PROVE  Inv'
<1>1. /\ backlog' \in Seq(Request)
      /\ Len(backlog) \in Nat \ {0}
      /\ Len(backlog') = Len(backlog) - 1
      /\ backlog[1] = r
      /\ \A i \in 1 .. Len(backlog') : backlog'[i] = backlog[i + 1]
  BY HeadTailProperties, EmptySeq, LenProperties DEF Take, Inv, TypeOK
<1>2. at[r] = "backlog"
  BY <1>1 DEF Inv, Queued
<1> PICK place \in {"handler", "replied"} :
       /\ Goto(r, place)
       /\ outcome' = outcome \/ outcome' = [outcome EXCEPT ![r] = "severed"]
  BY DEF Take
<1>3. TypeOK'
  BY <1>1 DEF Take, Goto, Inv, TypeOK, Place, metricVars, towerVars, netVars
<1>4. OneHolder'
  BY <1>2, HolderKept DEF Take
<1>5. GaugeCounts'
  <2>1. Waiting' = Waiting
    BY <1>2, InvPlaces, WaitingMoves
  <2> QED
    BY <2>1, GaugeKept DEF Take, metricVars, Inv
<1>6. Queued'
  <2>1. ASSUME NEW i \in 1 .. Len(backlog')
        PROVE  /\ i + 1 \in 1 .. Len(backlog)
               /\ backlog[i + 1] \in Request
               /\ backlog[i + 1] # r
               /\ at'[backlog'[i]] = "backlog"
    <3>1. i + 1 \in 1 .. Len(backlog) /\ i + 1 # 1
      BY <1>1, <2>1
    <3>2. backlog[i + 1] \in Request
      BY <3>1, ElementOfSeq DEF Inv, TypeOK
    <3>3. backlog[i + 1] # r /\ at[backlog[i + 1]] = "backlog"
      BY <1>1, <3>1 DEF Inv, Queued
    <3> QED
      BY <1>1, <3>1, <3>2, <3>3 DEF Take, Goto, Inv, TypeOK
  <2>2. ASSUME NEW i \in 1 .. Len(backlog'), NEW j \in 1 .. Len(backlog'),
               backlog'[i] = backlog'[j]
        PROVE  i = j
    <3>1. i + 1 \in 1 .. Len(backlog) /\ j + 1 \in 1 .. Len(backlog)
      BY <2>1
    <3>2. backlog[i + 1] = backlog[j + 1]
      BY <1>1, <2>2
    <3>3. \A m, n \in 1 .. Len(backlog) : backlog[m] = backlog[n] => m = n
      BY DEF Inv, Queued
    <3>4. i + 1 = j + 1
      BY <3>1, <3>2, <3>3
    <3> QED
      BY <3>4
  <2> QED
    BY <2>1, <2>2 DEF Queued
<1> QED
  BY <1>3, <1>4, <1>5, <1>6 DEF Inv

LEMMA CloseKeeps ==
  ASSUME Inv, NEW r \in Request, Close(r)
  PROVE  Inv'
<1>1. Goto(r, "closed") /\ at[r] = "replied" /\ backlog' = backlog /\ engine' = engine
      /\ queueDepth' = queueDepth
  BY DEF Close, metricVars
<1>2. TypeOK'
  BY DEF Close, Goto, Inv, TypeOK, Place, metricVars, towerVars, netVars
<1> QED
  BY <1>1, <1>2, MoveKeeps

LEMMA ProbeKeeps ==
  ASSUME Inv, NEW r \in Request, Probe(r)
  PROVE  Inv'
<1>1. Goto(r, "replied") /\ at[r] = "handler" /\ backlog' = backlog /\ engine' = engine
      /\ queueDepth' = queueDepth
  BY DEF Probe, metricVars
<1>2. TypeOK'
  BY DEF Probe, Goto, Inv, TypeOK, Place, metricVars, towerVars, netVars
<1> QED
  BY <1>1, <1>2, MoveKeeps

LEMMA FailKeeps ==
  ASSUME Inv, NEW r \in Request, Fail(r)
  PROVE  Inv'
<1>1. Goto(r, "replied") /\ at[r] = "handler" /\ backlog' = backlog /\ engine' = engine
      /\ queueDepth' = queueDepth
  BY DEF Fail, metricVars
<1>2. TypeOK'
  BY DEF Fail, Goto, Inv, TypeOK, Place, metricVars, towerVars, netVars
<1> QED
  BY <1>1, <1>2, MoveKeeps

LEMMA RefuseKeeps ==
  ASSUME Inv, NEW r \in Request, Refuse(r)
  PROVE  Inv'
<1>1. Goto(r, "replied") /\ at[r] = "handler" /\ backlog' = backlog /\ engine' = engine
      /\ queueDepth' = queueDepth
  BY DEF Refuse
<1>2. TypeOK'
  BY DEF Refuse, Goto, Inv, TypeOK, Place, metricVars, towerVars, netVars
<1> QED
  BY <1>1, <1>2, MoveKeeps

LEMMA WriteBodyKeeps ==
  ASSUME Inv, NEW r \in Request, WriteBody(r)
  PROVE  Inv'
<1>1. Goto(r, "replied") /\ at[r] = "writing" /\ backlog' = backlog /\ engine' = engine
      /\ queueDepth' = queueDepth
  BY DEF WriteBody, metricVars
<1>2. TypeOK'
  BY DEF WriteBody, Goto, Inv, TypeOK, Place, metricVars, towerVars, netVars
<1> QED
  BY <1>1, <1>2, MoveKeeps

LEMMA StopKeeps ==
  ASSUME Inv, Stop
  PROVE  Inv'
<1>1. TypeOK'
  BY DEF Stop, Inv, TypeOK, metricVars, towerVars, netVars
<1> QED
  BY <1>1, StayKeeps DEF Stop, metricVars

LEMMA NetworkKeeps ==
  ASSUME Inv, NEW r \in Request, Network(r)
  PROVE  Inv'
<1>1. TypeOK'
  BY DEF Network, Inv, TypeOK, metricVars, towerVars
<1> QED
  BY <1>1, StayKeeps DEF Network, metricVars

-----------------------------------------------------------------------------
LEMMA LaunchKeeps ==
  ASSUME Inv, NEW r \in Request, Launch(r)
  PROVE  Inv'
<1>1. launched[r] + 1 \in 1 .. Kernels
  <2>1. launched[r] \in 0 .. Kernels
    BY DEF Inv, TypeOK
  <2>2. launched[r] < Kernels
    BY DEF Launch
  <2> QED
    BY <2>1, <2>2, ServerAssumption
<1>2. Len(embeds[r]) + 1 \in Nat
  BY LenProperties DEF Inv, TypeOK
<1>3. tower' \in Scratch
  <2>1. <<r, Len(embeds[r]) + 1>> \in Image
    BY <1>2 DEF Image
  <2>2. tower.of \in Image \cup {NoImage}
    BY DEF Inv, TypeOK, Scratch
  <2>3. tower' = AfterKernel(<<r, Len(embeds[r]) + 1>>, launched[r] + 1)
    BY DEF Launch
  <2>4. 1 \in 0 .. Kernels /\ 0 \in 0 .. Kernels
    BY ServerAssumption
  <2> QED
    BY <1>1, <2>1, <2>2, <2>3, <2>4 DEF AfterKernel, Scratch, Garbled
<1>4. launched' \in [Request -> 0 .. Kernels]
  <2>1. launched' = [launched EXCEPT ![r] = launched[r] + 1]
    BY DEF Launch
  <2> QED
    BY <1>1, <2>1 DEF Inv, TypeOK
<1>5. TypeOK'
  BY <1>3, <1>4 DEF Launch, Inv, TypeOK, metricVars, netVars
<1> QED
  BY <1>5, StayKeeps DEF Launch, metricVars

LEMMA CopyOutKeeps ==
  ASSUME Inv, NEW r \in Request, CopyOut(r)
  PROVE  Inv'
<1>1. Append(embeds[r], tower) \in Seq(Scratch)
  BY AppendProperties DEF Inv, TypeOK
<1>2. 0 \in 0 .. Kernels
  BY ServerAssumption
<1>3. TypeOK'
  BY <1>1, <1>2 DEF CopyOut, Inv, TypeOK, metricVars, netVars
<1> QED
  BY <1>3, StayKeeps DEF CopyOut, metricVars

LEMMA AdmitKeeps ==
  ASSUME Inv, NEW r \in Request, Admit(r)
  PROVE  Inv'
<1>1. at[r] = "handler" /\ backlog' = backlog /\ engine' = engine
  BY DEF Admit
<1>2. CASE kind[r] = "stream" /\ Goto(r, "provider") /\ UNCHANGED queueDepth
  <2>1. TypeOK'
    BY <1>2 DEF Admit, Goto, Inv, TypeOK, Place, towerVars, netVars
  <2> QED
    BY <1>1, <1>2, <2>1, MoveKeeps
<1>3. CASE kind[r] = "body" /\ Goto(r, "waiting") /\ Enqueue
  <2>1. Waiting' = Waiting \cup {r} /\ r \notin Waiting
    BY <1>1, <1>3, InvPlaces, WaitingMoves
  <2>2. GaugeCounts' /\ queueDepth' \in Nat
    BY <1>3, <2>1, GaugeUp DEF Inv
  <2>3. TypeOK'
    BY <1>3, <2>2 DEF Admit, Goto, Inv, TypeOK, Place, towerVars, netVars
  <2>4. OneHolder' /\ Queued'
    BY <1>1, <1>3, HolderKept, QueuedKept
  <2> QED
    BY <2>2, <2>3, <2>4 DEF Inv
<1> QED
  BY <1>2, <1>3, Zenon DEF Admit

LEMMA CallProviderKeeps ==
  ASSUME Inv, NEW r \in Request, CallProvider(r)
  PROVE  Inv'
<1>1. at[r] = "provider" /\ backlog' = backlog /\ engine' = engine
  BY DEF CallProvider
<1>2. CASE Enqueue /\ Goto(r, "waiting") /\ UNCHANGED outcome
  <2>1. Waiting' = Waiting \cup {r} /\ r \notin Waiting
    BY <1>1, <1>2, InvPlaces, WaitingMoves
  <2>2. GaugeCounts' /\ queueDepth' \in Nat
    BY <1>2, <2>1, GaugeUp DEF Inv
  <2>3. TypeOK'
    BY <1>2, <2>2 DEF CallProvider, Goto, Inv, TypeOK, Place, towerVars, netVars
  <2>4. OneHolder' /\ Queued'
    BY <1>1, <1>2, HolderKept, QueuedKept
  <2> QED
    BY <2>2, <2>3, <2>4 DEF Inv
<1>3. CASE /\ outcome' = [outcome EXCEPT ![r] = "severed"]
           /\ Goto(r, "replied") /\ UNCHANGED queueDepth
  <2>1. TypeOK'
    BY <1>3 DEF CallProvider, Goto, Inv, TypeOK, Place, towerVars, netVars
  <2> QED
    BY <1>1, <1>3, <2>1, MoveKeeps
<1> QED
  BY <1>2, <1>3 DEF CallProvider

-----------------------------------------------------------------------------
LEMMA NetIsTyped == Inv => NetTyped
  BY DEF Inv, TypeOK, NetTyped

LEMMA LockKeeps ==
  ASSUME Inv, NEW r \in Request, Lock(r)
  PROVE  Inv'
<1>1. /\ at[r] = "waiting" /\ Goto(r, "locked") /\ backlog' = backlog
      /\ engine = NoRequest /\ engine' = r /\ queueDepth' = queueDepth
  BY DEF Lock, Free, metricVars
<1>2. TypeOK'
  BY DEF Lock, Goto, Inv, TypeOK, Place, metricVars, towerVars, netVars
<1>3. GaugeCounts'
  <2>1. Waiting' = Waiting
    BY <1>1, InvPlaces, WaitingMoves
  <2> QED
    BY <1>1, <2>1, GaugeKept DEF Inv
<1>4. Queued'
  BY <1>1, QueuedKept
<1>5. OneHolder'
  <2>1. ASSUME NEW q \in Request
        PROVE  at'[q] \in {"locked", "running", "tail"} <=> engine' = q
    <3>1. at[q] \notin {"locked", "running", "tail"}
      BY <1>1, ServerAssumption DEF Inv, OneHolder
    <3>2. at'[q] = IF q = r THEN "locked" ELSE at[q]
      BY <1>1, InvPlaces DEF Goto
    <3> QED
      BY <1>1, <3>1, <3>2
  <2> QED
    BY <2>1 DEF OneHolder
<1> QED
  BY <1>2, <1>3, <1>4, <1>5 DEF Inv

LEMMA DequeueKeeps ==
  ASSUME Inv, NEW r \in Request, Dequeue(r)
  PROVE  Inv'
<1>1. /\ at[r] = "locked" /\ Goto(r, "running") /\ backlog' = backlog
      /\ engine' = engine /\ LeaveQueue(r)
  BY DEF Dequeue
<1>2. GaugeCounts' /\ queueDepth' \in Nat
  <2>1. Waiting' = Waiting \ {r} /\ r \in Waiting
    BY <1>1, InvPlaces, WaitingMoves
  <2> QED
    BY <1>1, <2>1, GaugeDown DEF Inv
<1>3. /\ sink' \in [Request -> BOOLEAN]
      /\ said' \in [Request -> Seq(Event)]
      /\ wire' \in [Request -> Seq(Nat)]
  <2>1. "role" \in Event
    BY DEF Event
  <2>2. CASE Send(r, "role")
    BY <2>1, <2>2, NetIsTyped, SendTyped
  <2>3. CASE UNCHANGED <<said, sink, wire>>
    BY <2>3 DEF Inv, TypeOK
  <2> QED
    BY <2>2, <2>3 DEF Dequeue
<1>4. TypeOK'
  BY <1>2, <1>3 DEF Dequeue, Goto, Inv, TypeOK, Place, towerVars
<1>5. OneHolder' /\ Queued'
  BY <1>1, HolderKept, QueuedKept
<1> QED
  BY <1>2, <1>4, <1>5 DEF Inv

LEMMA OnDeltaKeeps ==
  ASSUME Inv, NEW r \in Request, OnDelta(r)
  PROVE  Inv'
<1>1. SendDelta(r)
  BY DEF OnDelta
<1>2. deltas' \in [Request -> 0 .. MaxDeltas]
  <2>1. deltas[r] \in 0 .. MaxDeltas /\ deltas[r] < MaxDeltas
    BY DEF OnDelta, Inv, TypeOK
  <2>2. deltas[r] + 1 \in 0 .. MaxDeltas
    BY <2>1, ServerAssumption
  <2>3. deltas' = [deltas EXCEPT ![r] = deltas[r] + 1]
    BY DEF OnDelta
  <2> QED
    BY <2>2, <2>3 DEF Inv, TypeOK
<1>3. /\ sink' \in [Request -> BOOLEAN]
      /\ alive' \in [Request -> BOOLEAN]
      /\ said' \in [Request -> Seq(Event)]
      /\ wire' \in [Request -> Seq(Nat)]
  BY <1>1, NetIsTyped, SendDeltaTyped
<1>4. TypeOK'
  BY <1>2, <1>3 DEF OnDelta, Inv, TypeOK, metricVars, towerVars
<1> QED
  BY <1>4, StayKeeps DEF OnDelta, metricVars

(* The engine is let go by the request that holds it. *)
LEMMA ReleaseKeeps ==
  ASSUME Inv, TypeOK', NEW r \in Request, at[r] \in {"running", "tail"},
         NEW place, place \in {"writing", "replied"}, Goto(r, place), Release,
         backlog' = backlog, queueDepth' = queueDepth
  PROVE  Inv'
<1>1. GaugeCounts'
  <2>1. Waiting' = Waiting
    BY InvPlaces, WaitingMoves
  <2> QED
    BY <2>1, GaugeKept DEF Inv
<1>2. Queued'
  BY QueuedKept
<1>3. OneHolder'
  <2>1. ASSUME NEW q \in Request
        PROVE  at'[q] \notin {"locked", "running", "tail"} /\ engine' # q
    <3>1. engine = r
      BY DEF Inv, OneHolder
    <3>2. at[q] \in {"locked", "running", "tail"} => q = r
      BY <3>1 DEF Inv, OneHolder
    <3>3. at'[q] = IF q = r THEN place ELSE at[q]
      BY InvPlaces DEF Goto
    <3> QED
      BY <3>2, <3>3, ServerAssumption DEF Release
  <2> QED
    BY <2>1 DEF OneHolder
<1> QED
  BY <1>1, <1>2, <1>3 DEF Inv

LEMMA UnlockKeeps ==
  ASSUME Inv, NEW r \in Request, Unlock(r)
  PROVE  Inv'
<1>1. TypeOK'
  BY DEF Unlock, Release, Goto, Inv, TypeOK, Place, metricVars, towerVars, netVars
<1>2. at[r] = "tail" /\ Goto(r, "replied") /\ Release /\ backlog' = backlog
      /\ queueDepth' = queueDepth
  BY DEF Unlock, metricVars
<1> QED
  BY <1>1, <1>2, ReleaseKeeps

LEMMA EndingTyped ==
  ASSUME NEW carry \in {<<>>, <<"delta">>}, NEW calls \in {<<>>, <<"calls">>},
         NEW usage \in {<<>>, <<"usage">>}
  PROVE  Ending(carry, calls, usage) \in Seq(Event)
<1>1. \A e \in Event : <<e>> \in Seq(Event)
  OBVIOUS
<1>2. <<>> \in Seq(Event)
  OBVIOUS
<1>3. /\ "delta" \in Event /\ "calls" \in Event /\ "finish" \in Event
      /\ "usage" \in Event /\ "DONE" \in Event
  BY DEF Event
<1>4. /\ <<"delta">> \in Seq(Event) /\ <<"calls">> \in Seq(Event)
      /\ <<"finish">> \in Seq(Event) /\ <<"usage">> \in Seq(Event)
      /\ <<"DONE">> \in Seq(Event)
  BY <1>1, <1>3
<1>5. carry \in Seq(Event)
  BY <1>2, <1>4
<1>6. calls \in Seq(Event)
  BY <1>2, <1>4
<1>7. usage \in Seq(Event)
  BY <1>2, <1>4
<1>8. \A s, t \in Seq(Event) : s \o t \in Seq(Event)
  OBVIOUS
<1> QED
  BY <1>4, <1>5, <1>6, <1>7, <1>8, Zenon DEF Ending

LEMMA GeneratedKeeps ==
  ASSUME Inv, NEW r \in Request, Generated(r)
  PROVE  Inv'
<1>1. at[r] = "running" /\ backlog' = backlog /\ queueDepth' = queueDepth
  BY DEF Generated, metricVars
<1>2. CASE /\ UNCHANGED <<said, sink, wire, alive, todo>>
           /\ Goto(r, "writing")
           /\ Release
  <2>1. TypeOK'
    BY <1>2 DEF Generated, Release, Goto, Inv, TypeOK, Place, metricVars, towerVars
  <2> QED
    BY <1>1, <1>2, <2>1, ReleaseKeeps
<1>3. CASE /\ SendDelta(r)
           /\ \E carry \in {<<>>, <<"delta">>}, calls \in {<<>>, <<"calls">>},
                 usage \in {<<>>, <<"usage">>} :
                todo' = [todo EXCEPT ![r] = Ending(carry, calls, usage)]
           /\ Goto(r, "tail")
           /\ UNCHANGED engine
  <2>1. todo' \in [Request -> Seq(Event)]
    <3>1. PICK carry \in {<<>>, <<"delta">>}, calls \in {<<>>, <<"calls">>},
               usage \in {<<>>, <<"usage">>} :
            todo' = [todo EXCEPT ![r] = Ending(carry, calls, usage)]
      BY <1>3, Zenon
    <3>2. Ending(carry, calls, usage) \in Seq(Event)
      BY EndingTyped, Zenon
    <3>3. todo \in [Request -> Seq(Event)]
      BY DEF Inv, TypeOK
    <3> QED
      BY <3>1, <3>2, <3>3
  <2>2. /\ sink' \in [Request -> BOOLEAN]
        /\ alive' \in [Request -> BOOLEAN]
        /\ said' \in [Request -> Seq(Event)]
        /\ wire' \in [Request -> Seq(Nat)]
    BY <1>3, NetIsTyped, SendDeltaTyped
  <2>3. TypeOK'
    BY <1>3, <2>1, <2>2 DEF Generated, Goto, Inv, TypeOK, Place, metricVars, towerVars
  <2> QED
    BY <1>1, <1>3, <2>3, MoveKeeps
<1> QED
  BY <1>2, <1>3, Zenon DEF Generated

LEMMA EndEventKeeps ==
  ASSUME Inv, NEW r \in Request, EndEvent(r)
  PROVE  Inv'
<1>1. todo[r] \in Seq(Event) /\ todo[r] # <<>>
  BY DEF EndEvent, Inv, TypeOK
<1>2. Head(todo[r]) \in Event /\ Tail(todo[r]) \in Seq(Event)
  BY <1>1, HeadTailProperties
<1>3. todo' \in [Request -> Seq(Event)]
  BY <1>2 DEF EndEvent, Inv, TypeOK
<1>4. /\ sink' \in [Request -> BOOLEAN]
      /\ alive' \in [Request -> BOOLEAN]
      /\ said' \in [Request -> Seq(Event)]
      /\ wire' \in [Request -> Seq(Nat)]
  <2>1. CASE ~alive[r]
    BY <2>1 DEF EndEvent, Inv, TypeOK
  <2>2. CASE alive[r]
    <3>1. /\ Send(r, Head(todo[r]))
          /\ alive' = IF Head(todo[r]) = "delta" THEN [alive EXCEPT ![r] = sink'[r]] ELSE alive
      BY <2>2 DEF EndEvent
    <3>2. /\ sink' \in [Request -> BOOLEAN]
          /\ said' \in [Request -> Seq(Event)]
          /\ wire' \in [Request -> Seq(Nat)]
      BY <1>2, <3>1, NetIsTyped, SendTyped
    <3> QED
      BY <3>1, <3>2 DEF Inv, TypeOK
  <2> QED
    BY <2>1, <2>2
<1>5. TypeOK'
  BY <1>3, <1>4 DEF EndEvent, Inv, TypeOK, metricVars, towerVars
<1> QED
  BY <1>5, StayKeeps DEF EndEvent, metricVars

-----------------------------------------------------------------------------
LEMMA InvInit == Init => Inv
<1> SUFFICES ASSUME Init
             PROVE  Inv
  OBVIOUS
<1>1. TypeOK
  <2>1. /\ backlog \in Seq(Request)
        /\ embeds \in [Request -> Seq(Scratch)]
        /\ said \in [Request -> Seq(Event)]
        /\ wire \in [Request -> Seq(Nat)]
        /\ todo \in [Request -> Seq(Event)]
    BY EmptySeq DEF Init
  <2>2. 0 \in 0 .. Kernels /\ 0 \in 0 .. MaxDeltas
    BY ServerAssumption
  <2>3. tower \in Scratch
    BY <2>2 DEF Init, Garbled, Scratch
  <2>4. /\ launched \in [Request -> 0 .. Kernels]
        /\ deltas \in [Request -> 0 .. MaxDeltas]
        /\ images \in [Request -> Nat]
    BY <2>2 DEF Init
  <2>5. /\ at \in [Request -> Place]
        /\ kind \in [Request -> Kind]
        /\ conn \in [Request -> {"open", "stalled", "gone"}]
        /\ outcome \in [Request -> {"none", "answer", "error", "severed"}]
        /\ sink \in [Request -> BOOLEAN]
        /\ alive \in [Request -> BOOLEAN]
    BY DEF Init, Place, Kind
  <2>6. /\ stopping \in BOOLEAN
        /\ engine \in Request \cup {NoRequest}
        /\ queueDepth \in Nat
        /\ errors \in Nat
    BY DEF Init
  <2> QED
    BY <2>1, <2>3, <2>4, <2>5, <2>6 DEF TypeOK
<1>2. OneHolder
  BY ServerAssumption DEF Init, OneHolder
<1>3. GaugeCounts
  <2>1. {r \in Request : at[r] \in {"waiting", "locked"}} = {}
    BY DEF Init
  <2> QED
    BY <2>1, FS_EmptySet DEF Init, GaugeCounts
<1>4. Queued
  BY EmptySeq DEF Init, Queued
<1> QED
  BY <1>1, <1>2, <1>3, <1>4 DEF Inv

LEMMA InvStep == Inv /\ [Next]_vars => Inv'
<1> SUFFICES ASSUME Inv, [Next]_vars
             PROVE  Inv'
  OBVIOUS
<1>1. CASE UNCHANGED vars
  <2>1. TypeOK'
    BY <1>1 DEF vars, Inv, TypeOK, metricVars, towerVars, netVars
  <2> QED
    BY <1>1, <2>1, StayKeeps DEF vars, metricVars
<1>2. CASE Stop
  BY <1>2, StopKeeps
<1>3. ASSUME NEW r \in Request, Arrive(r) \/ Network(r) \/ Serve(r)
      PROVE  Inv'
  BY <1>3, ArriveKeeps, TakeKeeps, CloseKeeps, NetworkKeeps, ProbeKeeps, RefuseKeeps,
     FailKeeps, LaunchKeeps, CopyOutKeeps, AdmitKeeps, CallProviderKeeps, LockKeeps,
     DequeueKeeps, OnDeltaKeeps, GeneratedKeeps, EndEventKeeps, UnlockKeeps,
     WriteBodyKeeps, Zenon DEF Serve
<1> QED
  BY <1>1, <1>2, <1>3 DEF Next

THEOREM InvAlways == Spec => []Inv
  BY InvInit, InvStep, PTL DEF Spec

(***************************************************************************)
(* Every variable keeps its type; that the gauge never falls below zero is *)
(* part of it.                                                             *)
(***************************************************************************)
THEOREM TypeCorrect == Spec => []TypeOK
<1>1. Inv => TypeOK
  BY DEF Inv
<1> QED
  BY <1>1, InvAlways, PTL

(***************************************************************************)
(* However handlers interleave, the request loop has at most one of them   *)
(* in it, and that one holds g_engine.                                     *)
(***************************************************************************)
THEOREM SingleHolder == Spec => []OneHolder
<1>1. Inv => OneHolder
  BY DEF Inv
<1> QED
  BY <1>1, InvAlways, PTL

(***************************************************************************)
(* The queue gauge counts exactly the requests that wait, whatever number  *)
(* of them there is and however each of them ends.                         *)
(***************************************************************************)
THEOREM GaugeExact == Spec => []GaugeCounts
<1>1. Inv => GaugeCounts
  BY DEF Inv
<1> QED
  BY <1>1, InvAlways, PTL

-----------------------------------------------------------------------------
(***************************************************************************)
(* The event stream of a request, whatever its client does at whatever     *)
(* moment: what reaches the socket is a prefix of what was written, in the *)
(* order that clients parse, and all of it unless a write failed.          *)
(*                                                                         *)
(* The order of what was said follows from that of what is left to say:    *)
(* `todo` is in order, and everything said goes before everything in it.   *)
(* An event that is dropped, because the client is gone, does no harm to   *)
(* either.                                                                 *)
(***************************************************************************)
(* May event b come somewhere behind event a? *)
Before(a, b) ==
  /\ b # "role" /\ a # "DONE"
  /\ b = "delta" => a \in {"role", "delta"}
  /\ a = "finish" => b \in {"usage", "DONE"}

Ordered(s) == \A i, j \in 1 .. Len(s) : i < j => Before(s[i], s[j])

Crossed(s, t) == \A i \in 1 .. Len(s), j \in 1 .. Len(t) : Before(s[i], t[j])

Text(s) == \A i \in 1 .. Len(s) : s[i] \in {"role", "delta"}

EndsDone(s) == s # <<>> /\ s[Len(s)] = "DONE"

(* The wire has the first events in their order, all of them while every   *)
(* write has worked -- and then the provider thinks its client is there.   *)
Wired(r) ==
  /\ \A i \in 1 .. Len(wire[r]) : wire[r][i] = i
  /\ sink[r] => Len(wire[r]) = Len(said[r])

Early == {"away", "backlog", "handler", "provider", "waiting", "locked"}

StreamInv(r) ==
  /\ Wired(r)
  /\ sink[r] => alive[r]
  /\ Ordered(said[r]) /\ Ordered(todo[r]) /\ Crossed(said[r], todo[r])
  /\ at[r] \in Early => said[r] = <<>>
  /\ at[r] \in Early \cup {"running"} => todo[r] = <<>>
  /\ at[r] = "running" => Text(said[r])
  /\ at[r] = "tail" /\ sink[r] => IF todo[r] = <<>> THEN EndsDone(said[r]) ELSE EndsDone(todo[r])
  /\ at[r] = "writing" => kind[r] = "body"
  /\ outcome[r] = "answer" =>
       /\ at[r] \in {"replied", "closed"}
       /\ kind[r] = "stream" /\ sink[r] => EndsDone(said[r])

StreamsInv == \A r \in Request : StreamInv(r)

-----------------------------------------------------------------------------
(* A step leaves the stream of another request alone.                      *)
LEMMA SameStream ==
  ASSUME NEW q \in Request, StreamInv(q), at'[q] = at[q], kind'[q] = kind[q],
         sink'[q] = sink[q], alive'[q] = alive[q], said'[q] = said[q], wire'[q] = wire[q],
         todo'[q] = todo[q], outcome'[q] = outcome[q]
  PROVE  StreamInv(q)'
BY DEF StreamInv, Wired

(* It is enough to look at the request that makes the step.                *)
LEMMA OnlyOne ==
  ASSUME Inv, StreamsInv, NEW r \in Request, StreamInv(r)',
         \A q \in Request \ {r} :
           /\ at'[q] = at[q] /\ kind'[q] = kind[q] /\ sink'[q] = sink[q]
           /\ alive'[q] = alive[q] /\ said'[q] = said[q] /\ wire'[q] = wire[q]
           /\ todo'[q] = todo[q] /\ outcome'[q] = outcome[q]
  PROVE  StreamsInv'
<1> SUFFICES ASSUME NEW q \in Request
             PROVE  StreamInv(q)'
  BY DEF StreamsInv
<1>1. CASE q = r
  BY <1>1
<1>2. CASE q # r
  BY <1>2, SameStream DEF StreamsInv
<1> QED
  BY <1>1, <1>2

(* The request moves, and its stream stays as it is.                       *)
LEMMA Moves ==
  ASSUME Inv, StreamsInv, NEW r \in Request, NEW place \in Place, Goto(r, place),
         UNCHANGED <<sink, alive, said, wire, todo>>,
         \A q \in Request \ {r} : kind'[q] = kind[q] /\ outcome'[q] = outcome[q],
         place \in Early => at[r] \in Early,
         place \notin {"running", "tail"},
         place = "writing" => kind'[r] = "body",
         outcome'[r] = "answer" =>
           /\ place \in {"replied", "closed"}
           /\ kind'[r] = "stream" /\ sink[r] => EndsDone(said[r])
  PROVE  StreamsInv'
<1>1. /\ at'[r] = place
      /\ \A q \in Request \ {r} : at'[q] = at[q]
  BY DEF Goto, Inv, TypeOK
<1>2. StreamInv(r)
  BY DEF StreamsInv
<1>3. StreamInv(r)'
  BY <1>1, <1>2 DEF StreamInv, Wired
<1> QED
  BY <1>1, <1>3, OnlyOne

-----------------------------------------------------------------------------
(* An event is sent, or fails to be, behind everything said so far.        *)
LEMMA SaysOneMore ==
  ASSUME Inv, NEW r \in Request, StreamInv(r), NEW e \in Event, Send(r, e)
  PROVE  /\ Wired(r)'
         /\ sink'[r] => sink[r]
         /\ said'[r] # <<>> /\ said'[r][Len(said'[r])] = e
         /\ Len(said'[r]) = Len(said[r]) + 1 /\ Len(said[r]) \in Nat
         /\ said'[r][Len(said[r]) + 1] = e
         /\ \A i \in 1 .. Len(said[r]) : said'[r][i] = said[r][i]
         /\ \A q \in Request \ {r} : /\ said'[q] = said[q] /\ sink'[q] = sink[q]
                                     /\ wire'[q] = wire[q]
<1> DEFINE works == sink[r] /\ conn[r] = "open"
<1>1. /\ said \in [Request -> Seq(Event)] /\ wire \in [Request -> Seq(Nat)]
      /\ sink \in [Request -> BOOLEAN]
  BY DEF Inv, TypeOK
<1>2. /\ said'[r] = Append(said[r], e) /\ sink'[r] = works
      /\ wire'[r] = IF works THEN Append(wire[r], Len(said[r]) + 1) ELSE wire[r]
      /\ \A q \in Request \ {r} : /\ said'[q] = said[q] /\ sink'[q] = sink[q]
                                  /\ wire'[q] = wire[q]
  BY <1>1 DEF Send
<1>3. /\ Len(said[r]) \in Nat /\ Len(wire[r]) \in Nat
      /\ Append(said[r], e) # <<>>
      /\ Len(Append(said[r], e)) = Len(said[r]) + 1
      /\ Append(said[r], e)[Len(said[r]) + 1] = e
      /\ \A i \in 1 .. Len(said[r]) : Append(said[r], e)[i] = said[r][i]
  BY <1>1, AppendProperties, LenProperties
<1>4. Wired(r)'
  <2>1. CASE works
    <3>1. Len(wire[r]) = Len(said[r]) /\ \A i \in 1 .. Len(wire[r]) : wire[r][i] = i
      BY <2>1 DEF StreamInv, Wired
    <3>2. /\ Len(wire'[r]) = Len(wire[r]) + 1
          /\ wire'[r][Len(wire[r]) + 1] = Len(said[r]) + 1
          /\ \A i \in 1 .. Len(wire[r]) : wire'[r][i] = wire[r][i]
      BY <1>1, <1>2, <1>3, <2>1, AppendProperties
    <3>3. \A i \in 1 .. Len(wire[r]) + 1 : i \in 1 .. Len(wire[r]) \/ i = Len(wire[r]) + 1
      BY <1>3
    <3> QED
      BY <1>2, <1>3, <3>1, <3>2, <3>3 DEF Wired
  <2>2. CASE ~ works
    BY <1>2, <2>2 DEF StreamInv, Wired
  <2> QED
    BY <2>1, <2>2
<1> QED
  BY <1>2, <1>3, <1>4

LEMMA OrderedMore ==
  ASSUME NEW s, NEW s2, NEW e, Len(s) \in Nat, Len(s2) = Len(s) + 1,
         \A i \in 1 .. Len(s) : s2[i] = s[i], s2[Len(s) + 1] = e,
         Ordered(s), \A i \in 1 .. Len(s) : Before(s[i], e)
  PROVE  Ordered(s2)
<1> SUFFICES ASSUME NEW i \in 1 .. Len(s2), NEW j \in 1 .. Len(s2), i < j
             PROVE  Before(s2[i], s2[j])
  BY DEF Ordered
<1>1. i \in 1 .. Len(s) /\ (j \in 1 .. Len(s) \/ j = Len(s) + 1)
  OBVIOUS
<1> QED
  BY <1>1 DEF Ordered

(* More text is in order as long as there was nothing but text.            *)
LEMMA TextMore ==
  ASSUME NEW s, NEW s2, Len(s) \in Nat, Len(s2) = Len(s) + 1,
         \A i \in 1 .. Len(s) : s2[i] = s[i], s2[Len(s) + 1] = "delta",
         Ordered(s), Text(s)
  PROVE  Ordered(s2) /\ Text(s2)
<1>1. \A i \in 1 .. Len(s) : Before(s[i], "delta")
  BY DEF Text, Before
<1>2. Ordered(s2)
  BY <1>1, OrderedMore
<1>3. \A i \in 1 .. Len(s2) : i \in 1 .. Len(s) \/ i = Len(s) + 1
  OBVIOUS
<1> QED
  BY <1>2, <1>3 DEF Text

(* What on_delta does to the stream of a request that generates.           *)
LEMMA DeltaSaid ==
  ASSUME Inv, NEW r \in Request, StreamInv(r), at[r] = "running", SendDelta(r)
  PROVE  /\ Wired(r)' /\ (sink'[r] => alive'[r])
         /\ Ordered(said'[r]) /\ Text(said'[r])
         /\ \A q \in Request \ {r} : /\ said'[q] = said[q] /\ sink'[q] = sink[q]
                                     /\ wire'[q] = wire[q] /\ alive'[q] = alive[q]
<1>1. CASE UNCHANGED <<said, sink, wire, alive>>
  BY <1>1 DEF StreamInv, Wired
<1>2. CASE Send(r, "delta") /\ alive' = [alive EXCEPT ![r] = sink'[r]]
  <2>1. "delta" \in Event
    BY DEF Event
  <2>2. /\ Wired(r)' /\ Len(said[r]) \in Nat /\ Len(said'[r]) = Len(said[r]) + 1
        /\ said'[r][Len(said[r]) + 1] = "delta"
        /\ \A i \in 1 .. Len(said[r]) : said'[r][i] = said[r][i]
        /\ \A q \in Request \ {r} : /\ said'[q] = said[q] /\ sink'[q] = sink[q]
                                    /\ wire'[q] = wire[q]
    BY <1>2, <2>1, SaysOneMore
  <2>3. Ordered(said'[r]) /\ Text(said'[r])
    BY <2>2, TextMore DEF StreamInv
  <2>4. alive'[r] = sink'[r] /\ \A q \in Request \ {r} : alive'[q] = alive[q]
    BY <1>2 DEF Inv, TypeOK
  <2> QED
    BY <2>2, <2>3, <2>4
<1> QED
  BY <1>1, <1>2 DEF SendDelta

-----------------------------------------------------------------------------
(* One sequence behind another. *)
LEMMA OrderedConcat ==
  ASSUME NEW s \in Seq(Event), NEW t \in Seq(Event), Ordered(s), Ordered(t), Crossed(s, t)
  PROVE  s \o t \in Seq(Event) /\ Ordered(s \o t)
<1>1. /\ s \o t \in Seq(Event) /\ Len(s \o t) = Len(s) + Len(t)
      /\ \A i \in 1 .. Len(s) + Len(t) :
           (s \o t)[i] = IF i <= Len(s) THEN s[i] ELSE t[i - Len(s)]
      /\ Len(s) \in Nat /\ Len(t) \in Nat
  BY ConcatProperties, LenProperties
<1> SUFFICES ASSUME NEW i \in 1 .. Len(s) + Len(t), NEW j \in 1 .. Len(s) + Len(t), i < j
             PROVE  Before((s \o t)[i], (s \o t)[j])
  BY <1>1 DEF Ordered
<1>2. CASE j <= Len(s)
  <2>1. i <= Len(s) /\ i \in 1 .. Len(s) /\ j \in 1 .. Len(s)
    BY <1>1, <1>2
  <2> QED
    BY <1>1, <1>2, <2>1 DEF Ordered
<1>3. CASE i <= Len(s) /\ ~ (j <= Len(s))
  <2>1. i \in 1 .. Len(s) /\ j - Len(s) \in 1 .. Len(t)
    BY <1>1, <1>3
  <2> QED
    BY <1>1, <1>3, <2>1 DEF Crossed
<1>4. CASE ~ (i <= Len(s)) /\ ~ (j <= Len(s))
  <2>1. i - Len(s) \in 1 .. Len(t) /\ j - Len(s) \in 1 .. Len(t) /\ i - Len(s) < j - Len(s)
    BY <1>1, <1>4
  <2> QED
    BY <1>1, <1>4, <2>1 DEF Ordered
<1>5. i <= Len(s) \/ ~ (i <= Len(s))
  OBVIOUS
<1> QED
  BY <1>1, <1>2, <1>3, <1>4, <1>5

(* All elements of a sequence of events are in a set. *)
Only(s, set) == \A i \in 1 .. Len(s) : s[i] \in set

LEMMA OnlyConcat ==
  ASSUME NEW s \in Seq(Event), NEW t \in Seq(Event), NEW A, NEW B, Only(s, A), Only(t, B)
  PROVE  Only(s \o t, A \cup B)
<1>1. /\ Len(s \o t) = Len(s) + Len(t)
      /\ \A i \in 1 .. Len(s) + Len(t) :
           (s \o t)[i] = IF i <= Len(s) THEN s[i] ELSE t[i - Len(s)]
      /\ Len(s) \in Nat /\ Len(t) \in Nat
  BY ConcatProperties, LenProperties
<1> SUFFICES ASSUME NEW i \in 1 .. Len(s) + Len(t)
             PROVE  (s \o t)[i] \in A \cup B
  BY <1>1 DEF Only
<1>2. CASE i <= Len(s)
  <2>1. i \in 1 .. Len(s)
    BY <1>1, <1>2
  <2> QED
    BY <1>1, <1>2, <2>1 DEF Only
<1>3. CASE ~ (i <= Len(s))
  <2>1. i - Len(s) \in 1 .. Len(t)
    BY <1>1, <1>3
  <2> QED
    BY <1>1, <1>3, <2>1 DEF Only
<1> QED
  BY <1>2, <1>3

LEMMA OnlyCrossed ==
  ASSUME NEW s, NEW t, NEW A, NEW B, Only(s, A), Only(t, B),
         \A a \in A, b \in B : Before(a, b)
  PROVE  Crossed(s, t)
BY DEF Only, Crossed

(* The ending of a stream is in order, is not begun again, and ends.       *)
LEMMA EndingOrdered ==
  ASSUME NEW carry \in {<<>>, <<"delta">>}, NEW calls \in {<<>>, <<"calls">>},
         NEW usage \in {<<>>, <<"usage">>}
  PROVE  /\ Ordered(Ending(carry, calls, usage))
         /\ Only(Ending(carry, calls, usage), Event \ {"role"})
         /\ EndsDone(Ending(carry, calls, usage))
         /\ Ending(carry, calls, usage) \in Seq(Event)
<1> DEFINE f == <<"finish">>
<1> DEFINE done == <<"DONE">>
<1>1. carry \in Seq(Event) /\ Ordered(carry) /\ Only(carry, {"delta"})
  <2>1. CASE carry = <<>>
    BY <2>1 DEF Ordered, Only
  <2>2. CASE carry = <<"delta">>
    BY <2>2 DEF Ordered, Only, Event
  <2> QED
    BY <2>1, <2>2
<1>2. calls \in Seq(Event) /\ Ordered(calls) /\ Only(calls, {"calls"})
  <2>1. CASE calls = <<>>
    BY <2>1 DEF Ordered, Only
  <2>2. CASE calls = <<"calls">>
    BY <2>2 DEF Ordered, Only, Event
  <2> QED
    BY <2>1, <2>2
<1>3. usage \in Seq(Event) /\ Ordered(usage) /\ Only(usage, {"usage"})
  <2>1. CASE usage = <<>>
    BY <2>1 DEF Ordered, Only
  <2>2. CASE usage = <<"usage">>
    BY <2>2 DEF Ordered, Only, Event
  <2> QED
    BY <2>1, <2>2
<1>4. f \in Seq(Event) /\ Ordered(f) /\ Only(f, {"finish"})
  BY DEF Ordered, Only, Event
<1>5. done \in Seq(Event) /\ Ordered(done) /\ Only(done, {"DONE"}) /\ Len(done) = 1
  BY DEF Ordered, Only, Event
<1> HIDE DEF f, done
<1>6. carry \o calls \in Seq(Event) /\ Ordered(carry \o calls)
      /\ Only(carry \o calls, {"delta"} \cup {"calls"})
  <2>1. Crossed(carry, calls)
    <3>1. \A a \in {"delta"}, b \in {"calls"} : Before(a, b)
      BY DEF Before
    <3> QED
      BY <1>1, <1>2, <3>1, OnlyCrossed
  <2> QED
    BY <1>1, <1>2, <2>1, OrderedConcat, OnlyConcat
<1> DEFINE u == carry \o calls
<1> DEFINE v == u \o f
<1> DEFINE w == v \o usage
<1> HIDE DEF u, v, w
<1>7. v \in Seq(Event) /\ Ordered(v) /\ Only(v, ({"delta"} \cup {"calls"}) \cup {"finish"})
  <2>1. u \in Seq(Event) /\ Ordered(u) /\ Only(u, {"delta"} \cup {"calls"})
    BY <1>6 DEF u
  <2>2. Crossed(u, f)
    <3>1. \A a \in {"delta"} \cup {"calls"}, b \in {"finish"} : Before(a, b)
      BY DEF Before
    <3> QED
      BY <2>1, <1>4, <3>1, OnlyCrossed
  <2> QED
    BY <2>1, <1>4, <2>2, OrderedConcat, OnlyConcat DEF v
<1>8. w \in Seq(Event) /\ Ordered(w)
      /\ Only(w, (({"delta"} \cup {"calls"}) \cup {"finish"}) \cup {"usage"})
  <2>1. Crossed(v, usage)
    <3>1. \A a \in ({"delta"} \cup {"calls"}) \cup {"finish"}, b \in {"usage"} : Before(a, b)
      BY DEF Before
    <3> QED
      BY <1>7, <1>3, <3>1, OnlyCrossed
  <2> QED
    BY <1>7, <1>3, <2>1, OrderedConcat, OnlyConcat DEF w
<1>9. /\ w \o done \in Seq(Event) /\ Ordered(w \o done)
      /\ Only(w \o done, ((({"delta"} \cup {"calls"}) \cup {"finish"}) \cup {"usage"}) \cup {"DONE"})
  <2>1. Crossed(w, done)
    <3>1. \A a \in (({"delta"} \cup {"calls"}) \cup {"finish"}) \cup {"usage"}, b \in {"DONE"} :
            Before(a, b)
      BY DEF Before
    <3> QED
      BY <1>8, <1>5, <3>1, OnlyCrossed
  <2> QED
    BY <1>8, <1>5, <2>1, OrderedConcat, OnlyConcat
<1>10. EndsDone(w \o done)
  <2>1. /\ Len(w \o done) = Len(w) + 1 /\ Len(w) \in Nat
        /\ \A i \in 1 .. Len(w) + 1 :
             (w \o done)[i] = IF i <= Len(w) THEN w[i] ELSE done[i - Len(w)]
    <3>1. /\ Len(w \o done) = Len(w) + Len(done)
          /\ \A i \in 1 .. Len(w) + Len(done) :
               (w \o done)[i] = IF i <= Len(w) THEN w[i] ELSE done[i - Len(w)]
      BY <1>5, <1>8, ConcatProperties
    <3>2. Len(w) \in Nat
      BY <1>8, LenProperties
    <3> QED
      BY <1>5, <3>1, <3>2
  <2>2. Len(w) + 1 \in 1 .. Len(w) + 1 /\ ~ (Len(w) + 1 <= Len(w)) /\ Len(w) + 1 - Len(w) = 1
    BY <2>1
  <2>3. (w \o done)[Len(w) + 1] = done[1]
    BY <2>1, <2>2
  <2>4. w \o done # <<>>
    BY <1>9, <2>1, EmptySeq
  <2> QED
    BY <2>1, <2>3, <2>4 DEF EndsDone, done
<1>11. Only(w \o done, Event \ {"role"})
  BY <1>9 DEF Only, Event
<1>12. w \o done = Ending(carry, calls, usage)
  BY DEF Ending, u, v, w, f, done
<1> QED
  BY <1>9, <1>10, <1>11, <1>12
-----------------------------------------------------------------------------
LEMMA StreamArrive ==
  ASSUME Inv, StreamsInv, NEW r \in Request, Arrive(r)
  PROVE  StreamsInv'
<1>1. /\ Goto(r, "backlog") /\ at[r] = "away"
      /\ UNCHANGED <<sink, alive, said, wire, todo, outcome>>
      /\ \A q \in Request \ {r} : kind'[q] = kind[q]
  BY DEF Arrive, Inv, TypeOK, netVars
<1>2. outcome'[r] # "answer"
  BY <1>1 DEF StreamsInv, StreamInv
<1>3. "backlog" \in Place /\ "away" \in Early
  BY DEF Place, Early
<1> QED
  BY <1>1, <1>2, <1>3, Moves

(* The steps that take a request along before it has said anything.        *)
LEMMA StreamEarly ==
  ASSUME Inv, StreamsInv, NEW r \in Request,
         Admit(r) \/ Lock(r)
  PROVE  StreamsInv'
<1>1. PICK place \in Early : Goto(r, place)
  BY DEF Admit, Lock, Early
<1>2. /\ at[r] \in Early
      /\ UNCHANGED <<sink, alive, said, wire, todo, outcome, kind>>
  BY DEF Admit, Lock, Early, netVars
<1>3. outcome'[r] # "answer" /\ place \in Place /\ place \notin {"running", "tail", "writing"}
  BY <1>1, <1>2 DEF StreamsInv, StreamInv, Early, Place
<1> QED
  BY <1>1, <1>2, <1>3, Moves

(* The steps that end a request without a stream. *)
LEMMA StreamRefused ==
  ASSUME Inv, StreamsInv, NEW r \in Request,
         Probe(r) \/ Refuse(r) \/ Fail(r) \/ WriteBody(r) \/ Close(r)
  PROVE  StreamsInv'
<1>1. PICK place \in {"replied", "closed"} : Goto(r, place)
  BY DEF Probe, Refuse, Fail, WriteBody, Close
<1>2. /\ UNCHANGED <<sink, alive, said, wire, todo, kind>>
      /\ \A q \in Request \ {r} : outcome'[q] = outcome[q]
  BY DEF Probe, Refuse, Fail, WriteBody, Close, netVars, Inv, TypeOK
<1>3. outcome'[r] = "answer" => (kind'[r] = "stream" /\ sink[r] => EndsDone(said[r]))
  <2>1. CASE Probe(r) \/ Refuse(r) \/ Fail(r)
    BY <2>1 DEF Probe, Refuse, Fail, Inv, TypeOK
  <2>2. CASE WriteBody(r)
    BY <2>2 DEF WriteBody, StreamsInv, StreamInv
  <2>3. CASE Close(r)
    BY <2>3 DEF Close, netVars, StreamsInv, StreamInv
  <2> QED
    BY <2>1, <2>2, <2>3
<1>4. place \in Place /\ place \notin Early /\ place \notin {"running", "tail", "writing"}
  BY <1>1 DEF Early, Place
<1> QED
  BY <1>1, <1>2, <1>3, <1>4, Moves

(* The steps that may give a connection up before anything was said. *)
LEMMA StreamSevered ==
  ASSUME Inv, StreamsInv, NEW r \in Request, Take(r) \/ CallProvider(r)
  PROVE  StreamsInv'
<1>1. /\ at[r] \in {"backlog", "provider"}
      /\ UNCHANGED <<sink, alive, said, wire, todo, kind>>
  <2>1. CASE Take(r)
    <3>1. 1 \in 1 .. Len(backlog) /\ Head(backlog) = backlog[1]
      BY <2>1, HeadTailProperties, EmptySeq, LenProperties DEF Take, Inv, TypeOK
    <3>2. at[r] = "backlog"
      BY <2>1, <3>1 DEF Take, Inv, Queued
    <3> QED
      BY <2>1, <3>2 DEF Take, netVars
  <2>2. CASE CallProvider(r)
    BY <2>2 DEF CallProvider, netVars
  <2> QED
    BY <2>1, <2>2
<1>2. PICK place \in {"handler", "waiting", "replied"} :
        /\ Goto(r, place)
        /\ outcome' = outcome \/ outcome' = [outcome EXCEPT ![r] = "severed"]
  BY DEF Take, CallProvider
<1>3. /\ outcome'[r] # "answer"
      /\ \A q \in Request \ {r} : outcome'[q] = outcome[q]
  BY <1>1, <1>2 DEF StreamsInv, StreamInv, Inv, TypeOK
<1>4. place \in Place /\ place \notin {"running", "tail", "writing"} /\ at[r] \in Early
  BY <1>1, <1>2 DEF Early, Place
<1> QED
  BY <1>1, <1>2, <1>3, <1>4, Moves

(* Steps of the tower, the network and the signal handler. *)
LEMMA StreamAside ==
  ASSUME StreamsInv, UNCHANGED <<at, kind, sink, alive, said, wire, todo, outcome>>
  PROVE  StreamsInv'
BY SameStream DEF StreamsInv

LEMMA StreamDequeue ==
  ASSUME Inv, StreamsInv, NEW r \in Request, Dequeue(r)
  PROVE  StreamsInv'
<1>1. /\ at[r] = "locked" /\ Goto(r, "running")
      /\ UNCHANGED <<kind, alive, todo, outcome>>
      /\ Send(r, "role") \/ UNCHANGED <<said, sink, wire>>
  BY DEF Dequeue
<1>2. at'[r] = "running" /\ \A q \in Request \ {r} : at'[q] = at[q]
  BY <1>1 DEF Goto, Inv, TypeOK
<1>3. /\ StreamInv(r) /\ at[r] \in Early /\ said[r] = <<>> /\ todo[r] = <<>>
      /\ Len(said[r]) = 0
  BY <1>1, EmptySeq DEF StreamsInv, StreamInv, Early
<1>4. /\ Wired(r)' /\ (sink'[r] => sink[r])
      /\ Len(said'[r]) <= 1 /\ Len(said'[r]) \in Nat
      /\ \A i \in 1 .. Len(said'[r]) : said'[r][i] = "role"
      /\ \A q \in Request \ {r} : /\ said'[q] = said[q] /\ sink'[q] = sink[q]
                                  /\ wire'[q] = wire[q]
  <2>1. CASE Send(r, "role")
    <3>1. "role" \in Event
      BY DEF Event
    <3>2. /\ Wired(r)' /\ (sink'[r] => sink[r])
          /\ Len(said'[r]) = Len(said[r]) + 1
          /\ said'[r][Len(said[r]) + 1] = "role"
          /\ \A q \in Request \ {r} : /\ said'[q] = said[q] /\ sink'[q] = sink[q]
                                      /\ wire'[q] = wire[q]
      BY <1>3, <2>1, <3>1, SaysOneMore
    <3> QED
      BY <1>3, <3>2
  <2>2. CASE UNCHANGED <<said, sink, wire>>
    BY <1>3, <2>2 DEF StreamInv, Wired
  <2> QED
    BY <1>1, <2>1, <2>2
<1>5. Ordered(said'[r]) /\ Text(said'[r])
  BY <1>4 DEF Ordered, Text
<1>6. Ordered(todo'[r]) /\ Crossed(said'[r], todo'[r]) /\ todo'[r] = <<>>
  BY <1>1, <1>3, EmptySeq DEF Ordered, Crossed
<1>7. StreamInv(r)'
  BY <1>1, <1>2, <1>3, <1>4, <1>5, <1>6 DEF StreamInv, Early
<1> QED
  BY <1>1, <1>2, <1>4, <1>7, OnlyOne

LEMMA StreamOnDelta ==
  ASSUME Inv, StreamsInv, NEW r \in Request, OnDelta(r)
  PROVE  StreamsInv'
<1>1. /\ at[r] = "running" /\ SendDelta(r)
      /\ UNCHANGED <<at, kind, todo, outcome>>
  BY DEF OnDelta
<1>2. StreamInv(r) /\ todo[r] = <<>>
  BY <1>1 DEF StreamsInv, StreamInv
<1>3. /\ Wired(r)' /\ (sink'[r] => alive'[r])
      /\ Ordered(said'[r]) /\ Text(said'[r])
      /\ \A q \in Request \ {r} : /\ said'[q] = said[q] /\ sink'[q] = sink[q]
                                  /\ wire'[q] = wire[q] /\ alive'[q] = alive[q]
  BY <1>1, <1>2, DeltaSaid
<1>4. Ordered(todo'[r]) /\ Crossed(said'[r], todo'[r]) /\ todo'[r] = <<>>
  BY <1>1, <1>2, EmptySeq DEF Ordered, Crossed
<1>5. StreamInv(r)'
  BY <1>1, <1>2, <1>3, <1>4 DEF StreamInv, Early
<1> QED
  BY <1>1, <1>3, <1>5, OnlyOne

LEMMA StreamGenerated ==
  ASSUME Inv, StreamsInv, NEW r \in Request, Generated(r)
  PROVE  StreamsInv'
<1>1. at[r] = "running" /\ UNCHANGED <<kind, outcome>>
  BY DEF Generated
<1>2. StreamInv(r) /\ outcome[r] # "answer"
  BY <1>1 DEF StreamsInv, StreamInv
<1>3. CASE /\ kind[r] = "body"
           /\ UNCHANGED <<said, sink, wire, alive, todo>>
           /\ Goto(r, "writing")
  <2>1. "writing" \in Place /\ "writing" \notin Early
    BY DEF Place, Early
  <2> QED
    BY <1>1, <1>2, <1>3, <2>1, Moves
<1>4. CASE /\ SendDelta(r)
           /\ \E carry \in {<<>>, <<"delta">>}, calls \in {<<>>, <<"calls">>},
                 usage \in {<<>>, <<"usage">>} :
                todo' = [todo EXCEPT ![r] = Ending(carry, calls, usage)]
           /\ Goto(r, "tail")
  <2>1. /\ Wired(r)' /\ (sink'[r] => alive'[r])
        /\ Ordered(said'[r]) /\ Text(said'[r])
        /\ \A q \in Request \ {r} : /\ said'[q] = said[q] /\ sink'[q] = sink[q]
                                    /\ wire'[q] = wire[q] /\ alive'[q] = alive[q]
    BY <1>1, <1>2, <1>4, DeltaSaid
  <2>2. PICK carry \in {<<>>, <<"delta">>}, calls \in {<<>>, <<"calls">>},
             usage \in {<<>>, <<"usage">>} :
          todo' = [todo EXCEPT ![r] = Ending(carry, calls, usage)]
    BY <1>4, Zenon
  <2> DEFINE e == Ending(carry, calls, usage)
  <2>3. Ordered(e) /\ Only(e, Event \ {"role"}) /\ EndsDone(e)
    BY EndingOrdered
  <2> HIDE DEF e
  <2>4. todo'[r] = e /\ \A q \in Request \ {r} : todo'[q] = todo[q]
    BY <2>2 DEF Inv, TypeOK, e
  <2>5. Crossed(said'[r], e)
    <3>1. Only(said'[r], {"role", "delta"})
      BY <2>1 DEF Text, Only
    <3>2. \A a \in {"role", "delta"}, b \in Event \ {"role"} : Before(a, b)
      BY DEF Before
    <3> QED
      BY <2>3, <3>1, <3>2, OnlyCrossed
  <2>6. at'[r] = "tail" /\ \A q \in Request \ {r} : at'[q] = at[q]
    BY <1>4 DEF Goto, Inv, TypeOK
  <2>7. StreamInv(r)'
    BY <1>1, <1>2, <2>1, <2>3, <2>4, <2>5, <2>6 DEF StreamInv, Early, EndsDone
  <2> QED
    BY <1>1, <2>1, <2>4, <2>6, <2>7, OnlyOne
<1> QED
  BY <1>3, <1>4, Zenon DEF Generated

(* The first event of the ending leaves `todo`, sent or not. *)
LEMMA StreamEndEvent ==
  ASSUME Inv, StreamsInv, NEW r \in Request, EndEvent(r)
  PROVE  StreamsInv'
<1> DEFINE t == todo[r]
<1> DEFINE n == Len(todo[r])
<1>1. /\ at[r] = "tail" /\ t # <<>> /\ UNCHANGED <<at, kind, outcome>>
      /\ todo' = [todo EXCEPT ![r] = Tail(@)]
  BY DEF EndEvent
<1>2. StreamInv(r)
  BY DEF StreamsInv
<1>3. t \in Seq(Event)
  BY DEF Inv, TypeOK
<1>4. /\ n \in Nat \ {0} /\ Len(Tail(t)) = n - 1
      /\ Head(t) = t[1] /\ Head(t) \in Event
      /\ \A i \in 1 .. n - 1 : Tail(t)[i] = t[i + 1]
      /\ Tail(t) = <<>> <=> n = 1
  <2>1. n \in Nat \ {0}
    BY <1>1, <1>3, EmptySeq, LenProperties
  <2>2. /\ Head(t) = t[1] /\ Head(t) \in Event /\ Tail(t) \in Seq(Event)
        /\ Len(Tail(t)) = Len(t) - 1
        /\ \A i \in 1 .. Len(Tail(t)) : Tail(t)[i] = t[i + 1]
    BY <1>1, <1>3, HeadTailProperties
  <2>3. Tail(t) = <<>> <=> Len(Tail(t)) = 0
    BY <2>2, EmptySeq
  <2> QED
    BY <2>1, <2>2, <2>3
<1>5. todo'[r] = Tail(t) /\ \A q \in Request \ {r} : todo'[q] = todo[q]
  BY <1>1 DEF Inv, TypeOK
<1>6. Ordered(t) /\ Crossed(said[r], t) /\ Ordered(said[r]) /\ Wired(r)
      /\ (sink[r] => alive[r]) /\ (sink[r] => EndsDone(t))
  BY <1>1, <1>2 DEF StreamInv
<1> HIDE DEF t
<1>7. Ordered(Tail(t))
  <2> SUFFICES ASSUME NEW i \in 1 .. n - 1, NEW j \in 1 .. n - 1, i < j
               PROVE  Before(Tail(t)[i], Tail(t)[j])
    BY <1>4 DEF Ordered
  <2>1. i + 1 \in 1 .. n /\ j + 1 \in 1 .. n /\ i + 1 < j + 1
    BY <1>4
  <2> QED
    BY <1>4, <1>6, <2>1 DEF Ordered, t
<1>8. Crossed(said[r], Tail(t)) /\ \A i \in 1 .. Len(said[r]) : Before(said[r][i], t[1])
  <2>1. 1 \in 1 .. n /\ \A j \in 1 .. n - 1 : j + 1 \in 1 .. n
    BY <1>4
  <2> QED
    BY <1>4, <1>6, <2>1 DEF Crossed, t
<1>9. sink[r] => IF Tail(t) = <<>> THEN t[1] = "DONE" ELSE EndsDone(Tail(t))
  <2>1. CASE Tail(t) = <<>>
    BY <1>4, <1>6, <2>1 DEF EndsDone, t
  <2>2. CASE Tail(t) # <<>>
    <3>1. n - 1 \in 1 .. n - 1 /\ n - 1 + 1 = n
      BY <1>4, <2>2
    <3>2. Tail(t)[n - 1] = t[n]
      BY <1>4, <3>1
    <3> QED
      BY <1>4, <1>6, <2>2, <3>2 DEF EndsDone, t
  <2> QED
    BY <2>1, <2>2
<1>10. CASE ~ alive[r]
  <2>1. UNCHANGED <<said, sink, wire, alive>>
    BY <1>10 DEF EndEvent
  <2>2. StreamInv(r)'
    BY <1>1, <1>2, <1>5, <1>6, <1>7, <1>8, <1>10, <2>1 DEF StreamInv, Wired, Early
  <2> QED
    BY <1>1, <1>5, <2>1, <2>2, OnlyOne
<1>11. CASE alive[r]
  <2>1. /\ Send(r, t[1])
        /\ alive' = IF t[1] = "delta" THEN [alive EXCEPT ![r] = sink'[r]] ELSE alive
    BY <1>4, <1>11 DEF EndEvent, t
  <2>2. /\ Wired(r)' /\ (sink'[r] => sink[r])
        /\ said'[r] # <<>> /\ said'[r][Len(said'[r])] = t[1]
        /\ Len(said'[r]) = Len(said[r]) + 1 /\ Len(said[r]) \in Nat
        /\ said'[r][Len(said[r]) + 1] = t[1]
        /\ \A i \in 1 .. Len(said[r]) : said'[r][i] = said[r][i]
        /\ \A q \in Request \ {r} : /\ said'[q] = said[q] /\ sink'[q] = sink[q]
                                    /\ wire'[q] = wire[q]
    BY <1>2, <1>4, <2>1, SaysOneMore
  <2>3. Ordered(said'[r])
    BY <1>6, <1>8, <2>2, OrderedMore
  <2>4. Crossed(said'[r], Tail(t))
    <3> SUFFICES ASSUME NEW i \in 1 .. Len(said[r]) + 1, NEW j \in 1 .. n - 1
                 PROVE  Before(said'[r][i], Tail(t)[j])
      BY <1>4, <2>2 DEF Crossed
    <3>1. CASE i \in 1 .. Len(said[r])
      BY <1>4, <1>8, <2>2, <3>1 DEF Crossed
    <3>2. CASE i = Len(said[r]) + 1
      <4>1. 1 \in 1 .. n /\ j + 1 \in 1 .. n /\ 1 < j + 1
        BY <1>4
      <4>2. Before(t[1], t[j + 1])
        BY <1>6, <4>1 DEF Ordered, t
      <4> QED
        BY <1>4, <2>2, <3>2, <4>2
    <3>3. i \in 1 .. Len(said[r]) \/ i = Len(said[r]) + 1
      <4>1. Len(said[r]) \in Nat
        BY <2>2
      <4> QED
        BY <4>1
    <3> QED
      BY <3>1, <3>2, <3>3
  <2>5. /\ sink'[r] => alive'[r]
        /\ \A q \in Request \ {r} : alive'[q] = alive[q]
    BY <1>6, <2>1, <2>2 DEF Inv, TypeOK
  <2>6. sink'[r] => IF Tail(t) = <<>> THEN EndsDone(said'[r]) ELSE EndsDone(Tail(t))
    BY <1>9, <2>2 DEF EndsDone
  <2>7. StreamInv(r)'
    BY <1>1, <1>2, <1>5, <1>7, <2>2, <2>3, <2>4, <2>5, <2>6 DEF StreamInv, Early
  <2> QED
    BY <1>1, <1>5, <2>2, <2>5, <2>7, OnlyOne
<1> QED
  BY <1>10, <1>11

LEMMA StreamUnlock ==
  ASSUME Inv, StreamsInv, NEW r \in Request, Unlock(r)
  PROVE  StreamsInv'
<1>1. /\ at[r] = "tail" /\ todo[r] = <<>> /\ Goto(r, "replied")
      /\ outcome' = [outcome EXCEPT ![r] = "answer"]
      /\ UNCHANGED <<sink, alive, said, wire, todo, kind>>
  BY DEF Unlock, netVars
<1>2. \A q \in Request \ {r} : outcome'[q] = outcome[q]
  BY <1>1 DEF Inv, TypeOK
<1>3. sink[r] => EndsDone(said[r])
  BY <1>1 DEF StreamsInv, StreamInv
<1>4. "replied" \in Place /\ "replied" \notin Early
  BY DEF Place, Early
<1> QED
  BY <1>1, <1>2, <1>3, <1>4, Moves

-----------------------------------------------------------------------------
LEMMA StreamInit == Init => StreamsInv
<1> SUFFICES ASSUME Init, NEW r \in Request
             PROVE  StreamInv(r)
  BY DEF StreamsInv
<1>1. /\ at[r] = "away" /\ said[r] = <<>> /\ wire[r] = <<>> /\ todo[r] = <<>>
      /\ sink[r] = TRUE /\ alive[r] = TRUE /\ outcome[r] = "none"
  BY DEF Init
<1>2. Len(said[r]) = 0 /\ Len(wire[r]) = 0 /\ Len(todo[r]) = 0
  BY <1>1, EmptySeq
<1> QED
  BY <1>1, <1>2 DEF StreamInv, Wired, Ordered, Crossed

LEMMA StreamStep == Inv /\ StreamsInv /\ [Next]_vars => StreamsInv'
<1> SUFFICES ASSUME Inv, StreamsInv, [Next]_vars
             PROVE  StreamsInv'
  OBVIOUS
<1>1. CASE UNCHANGED vars
  BY <1>1, StreamAside DEF vars, netVars
<1>2. CASE Stop
  BY <1>2, StreamAside DEF Stop, netVars
<1>3. ASSUME NEW r \in Request, Arrive(r) \/ Network(r) \/ Serve(r)
      PROVE  StreamsInv'
  <2>1. CASE Network(r) \/ Launch(r) \/ CopyOut(r)
    BY <2>1, StreamAside DEF Network, Launch, CopyOut, netVars
  <2> QED
    BY <1>3, <2>1, StreamArrive, StreamEarly, StreamRefused, StreamSevered, StreamDequeue,
       StreamOnDelta, StreamGenerated, StreamEndEvent, StreamUnlock, Zenon DEF Serve
<1> QED
  BY <1>1, <1>2, <1>3 DEF Next

LEMMA StreamsAlways == Spec => [](Inv /\ StreamsInv)
<1>1. Inv /\ StreamsInv /\ [Next]_vars => (Inv /\ StreamsInv)'
  BY InvStep, StreamStep
<1> QED
  BY InvInit, StreamInit, <1>1, PTL DEF Spec

(***************************************************************************)
(* A stall, a hang-up or a SIGTERM between any two writes never takes an   *)
(* event out of the middle of a stream, nor puts one out of order.         *)
(***************************************************************************)
THEOREM StreamsWellFormed == Spec => []WellFormed
<1>1. StreamsInv => WellFormed
  BY DEF StreamsInv, StreamInv, Wired, Ordered, Before, WellFormed
<1> QED
  BY <1>1, StreamsAlways, PTL

(***************************************************************************)
(* A stream that no write failed on has all its events on the wire, with   *)
(* [DONE] behind them, by the time the engine is let go.                   *)
(***************************************************************************)
THEOREM StreamsComplete == Spec => []CompleteUnlessCut
<1>1. StreamsInv => CompleteUnlessCut
  BY DEF StreamsInv, StreamInv, Wired, EndsDone, CompleteUnlessCut, Last
<1> QED
  BY <1>1, StreamsAlways, PTL
===============================================================================
