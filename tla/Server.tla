-------------------------------- MODULE Server --------------------------------
(***************************************************************************)
(* The HTTP side of the server (src/server/server.cpp, run_server): the    *)
(* worker pool of httplib, the handlers, the mutex g_engine, the queue     *)
(* depth gauge, the event stream of a streaming answer, the vision tower   *)
(* that handlers use before they ask for the mutex, and the signal         *)
(* handler. What generate() computes is Engine's matter: here it hands the *)
(* stream some number of deltas.                                           *)
(*                                                                         *)
(* A request is one connection. `conn` is what the client does with it:    *)
(* it may stall past the write timeout and come back, or go away for good. *)
(* The stream is a list of events; `wire` holds the numbers of the events  *)
(* that reached the socket.                                                *)
(***************************************************************************)
EXTENDS Naturals, Sequences, SequencesExt, FiniteSets

CONSTANTS
  Request,      \* connections of a behaviour
  NoRequest,
  Asked,        \* what the client of each request may ask for
  MaxImages,    \* bound on the images of each request
  Fickle,       \* requests whose client may stall or hang up
  Workers,      \* threads the pool has, or may still start
  Kernels,      \* kernels of one vision_forward, in the order launched
  MaxDeltas     \* bound on the calls of on_delta before the answer ends

Kind == {"probe", "body", "stream"}

ASSUME ServerAssumption ==
  /\ IsFiniteSet(Request)
  /\ Asked \in [Request -> SUBSET Kind]
  /\ NoRequest \notin Request
  /\ Workers \in Nat \ {0}
  /\ Kernels \in Nat \ {0}
  /\ Fickle \subseteq Request
  /\ MaxImages \in [Request -> Nat]
  /\ MaxDeltas \in Nat

VARIABLES
  at,           \* where each request is
  kind,         \* what it asks for
  images,       \* images it carries
  backlog,      \* connections no thread has taken yet
  stopping,     \* the listening socket is closed
  engine,       \* who holds g_engine
  queueDepth, errors,    \* g_metrics
  launched,     \* kernels of the current image each handler has launched
  tower,        \* what the tower's scratch holds
  embeds,       \* the embeddings each request has copied out, one per image
  conn, sink,   \* the client's end; has every write of the DataSink worked?
  alive,        \* the provider's own flag
  deltas,       \* calls of on_delta so far
  said, wire,   \* events the provider tried to send; those that were sent
  todo,         \* events left once generate() has returned
  outcome       \* what the client was answered

netVars == <<conn, sink, alive, deltas, said, wire, todo>>
towerVars == <<launched, tower, embeds>>
metricVars == <<queueDepth, errors>>
vars == <<at, kind, images, backlog, stopping, engine, metricVars, towerVars,
          netVars, outcome>>

Place == {"away", "backlog", "handler", "provider", "waiting", "locked", "running",
          "tail", "writing", "replied", "closed"}
Event == {"role", "delta", "calls", "finish", "usage", "DONE"}
Image == Request \X Nat
NoImage == <<NoRequest, 0>>
Garbled == [of |-> NoImage, done |-> 0]     \* no image's features
Scratch == [of : Image \cup {NoImage}, done : 0 .. Kernels]

TypeOK ==
  /\ at \in [Request -> Place]
  /\ kind \in [Request -> Kind]
  /\ images \in [Request -> Nat]
  /\ backlog \in Seq(Request)
  /\ stopping \in BOOLEAN
  /\ engine \in Request \cup {NoRequest}
  /\ queueDepth \in Nat
  /\ errors \in Nat
  /\ launched \in [Request -> 0 .. Kernels]
  /\ tower \in Scratch
  /\ embeds \in [Request -> Seq(Scratch)]
  /\ conn \in [Request -> {"open", "stalled", "gone"}]
  /\ sink \in [Request -> BOOLEAN]
  /\ alive \in [Request -> BOOLEAN]
  /\ deltas \in [Request -> 0 .. MaxDeltas]
  /\ said \in [Request -> Seq(Event)]
  /\ wire \in [Request -> Seq(Nat)]
  /\ todo \in [Request -> Seq(Event)]
  /\ outcome \in [Request -> {"none", "answer", "error", "severed"}]

Init ==
  /\ at = [r \in Request |-> "away"]
  /\ kind = [r \in Request |-> "probe"]
  /\ images = [r \in Request |-> 0]
  /\ backlog = <<>>
  /\ stopping = FALSE
  /\ engine = NoRequest
  /\ queueDepth = 0
  /\ errors = 0
  /\ launched = [r \in Request |-> 0]
  /\ tower = Garbled
  /\ embeds = [r \in Request |-> <<>>]
  /\ conn = [r \in Request |-> "open"]
  /\ sink = [r \in Request |-> TRUE]
  /\ alive = [r \in Request |-> TRUE]
  /\ deltas = [r \in Request |-> 0]
  /\ said = [r \in Request |-> <<>>]
  /\ wire = [r \in Request |-> <<>>]
  /\ todo = [r \in Request |-> <<>>]
  /\ outcome = [r \in Request |-> "none"]

Goto(r, place) == at' = [at EXCEPT ![r] = place]

(* g_engine, and the gauge of those who wait for it.                       *)
FreeAlways == TRUE                                            \* a fault
FreeUnlessStopping == engine = NoRequest /\ ~stopping         \* a fault
Free == engine = NoRequest

Release == engine' = NoRequest

Enqueue == queueDepth' = queueDepth + 1

LeaveQueueIfStream(r) ==                                      \* a fault
  IF kind[r] = "stream" THEN queueDepth' = queueDepth - 1 ELSE UNCHANGED queueDepth
LeaveQueue(r) == queueDepth' = queueDepth - 1

-----------------------------------------------------------------------------
(* httplib: connections wait for a thread, and a thread stays with its     *)
(* connection until that is closed. The pool starts a thread for a         *)
(* connection while it has none idle and is below its limit.               *)
OnThread == {r \in Request : at[r] \notin {"away", "backlog", "closed"}}

Arrive(r) ==
  /\ at[r] = "away"
  /\ ~stopping
  /\ \E k \in Asked[r] : kind' = [kind EXCEPT ![r] = k]
  /\ \E n \in 0 .. MaxImages[r] :
       /\ n > 0 => kind'[r] # "probe"
       /\ images' = [images EXCEPT ![r] = n]
  /\ backlog' = Append(backlog, r)
  /\ Goto(r, "backlog")
  /\ UNCHANGED <<stopping, engine, metricVars, towerVars, netVars, outcome>>

(* The thread waits for the request's first bytes, unless these are there  *)
(* already only for the keep-alive timeout and while the server listens.   *)
Take(r) ==
  /\ backlog # <<>> /\ Head(backlog) = r
  /\ Cardinality(OnThread) < Workers
  /\ backlog' = Tail(backlog)
  /\ \/ Goto(r, "handler") /\ UNCHANGED outcome
     \/ Goto(r, "replied") /\ outcome' = [outcome EXCEPT ![r] = "severed"]
  /\ UNCHANGED <<kind, images, stopping, engine, metricVars, towerVars, netVars>>

(* The response is complete; the keep-alive timeout frees the thread.      *)
Close(r) ==
  /\ at[r] = "replied"
  /\ Goto(r, "closed")
  /\ UNCHANGED <<kind, images, backlog, stopping, engine, metricVars, towerVars,
                 netVars, outcome>>

(* SIGTERM: Server::stop closes the listening socket, nothing else.        *)
Stop ==
  /\ ~stopping
  /\ stopping' = TRUE
  /\ UNCHANGED <<at, kind, images, backlog, engine, metricVars, towerVars, netVars,
                 outcome>>

(* The client of a stream stalls past the write timeout, reads again, or   *)
(* hangs up. Nobody looks at the connection of any other request.          *)
Network(r) ==
  /\ r \in Fickle
  /\ at[r] \in {"provider", "waiting", "locked", "running", "tail"} /\ kind[r] = "stream"
  /\ \E c \in {"open", "stalled", "gone"} :
       /\ conn[r] # "gone" /\ c # conn[r]
       /\ conn' = [conn EXCEPT ![r] = c]
  /\ UNCHANGED <<at, kind, images, backlog, stopping, engine, metricVars, towerVars,
                 sink, alive, deltas, said, wire, todo, outcome>>

-----------------------------------------------------------------------------
(* The handler, before the mutex.                                          *)

(* /health, /v1/models, /metrics and /.                                    *)
Probe(r) ==
  /\ at[r] = "handler" /\ kind[r] = "probe"
  /\ outcome' = [outcome EXCEPT ![r] = "answer"]
  /\ Goto(r, "replied")
  /\ UNCHANGED <<kind, images, backlog, stopping, engine, metricVars, towerVars, netVars>>

(* A 400: the JSON does not parse, the prompt cannot be rendered, an image *)
(* cannot be decoded or stored, there is no room to generate.              *)
Refuse(r) ==
  /\ at[r] = "handler" /\ kind[r] # "probe"
  /\ errors' = errors + 1
  /\ outcome' = [outcome EXCEPT ![r] = "error"]
  /\ Goto(r, "replied")
  /\ UNCHANGED <<kind, images, backlog, stopping, engine, queueDepth, towerVars, netVars>>

(* `stop` or `include_usage` is of the wrong type: the conversion throws   *)
(* past the handler and httplib answers 500.                               *)
Fail(r) ==
  /\ at[r] = "handler" /\ kind[r] # "probe"
  /\ Len(embeds[r]) = images[r]
  /\ outcome' = [outcome EXCEPT ![r] = "error"]
  /\ Goto(r, "replied")
  /\ UNCHANGED <<kind, images, backlog, stopping, engine, metricVars, towerVars, netVars>>

(* The scratch after kernel k of `img`: the first kernel reads the pixels, *)
(* every other one whatever the kernel before it should have left.         *)
AfterKernel(img, k) ==
  IF k = 1 THEN [of |-> img, done |-> 1]
  ELSE IF tower.done = k - 1 THEN [of |-> tower.of, done |-> k]
  ELSE Garbled

Launch(r) ==
  /\ at[r] = "handler" /\ Len(embeds[r]) < images[r]
  /\ launched[r] < Kernels
  /\ launched' = [launched EXCEPT ![r] = @ + 1]
  /\ tower' = AfterKernel(<<r, Len(embeds[r]) + 1>>, launched[r] + 1)
  /\ UNCHANGED <<at, kind, images, backlog, stopping, engine, metricVars, embeds,
                 netVars, outcome>>

CopyOut(r) ==
  /\ at[r] = "handler" /\ Len(embeds[r]) < images[r]
  /\ launched[r] = Kernels
  /\ embeds' = [embeds EXCEPT ![r] = Append(@, tower)]
  /\ launched' = [launched EXCEPT ![r] = 0]
  /\ UNCHANGED <<at, kind, images, backlog, stopping, engine, metricVars, tower,
                 netVars, outcome>>

(* A streaming answer is left to the provider, which httplib calls after   *)
(* the handler has returned; any other one queues for the mutex.           *)
Admit(r) ==
  /\ at[r] = "handler" /\ kind[r] # "probe"
  /\ Len(embeds[r]) = images[r]
  /\ \/ kind[r] = "stream" /\ Goto(r, "provider") /\ UNCHANGED queueDepth
     \/ kind[r] = "body" /\ Goto(r, "waiting") /\ Enqueue
  /\ UNCHANGED <<kind, images, backlog, stopping, engine, errors, towerVars, netVars,
                 outcome>>

-----------------------------------------------------------------------------
(* httplib asks for the body only while the server is not shutting down    *)
(* and the client is there; otherwise the connection closes with none.     *)
CallProvider(r) ==
  /\ at[r] = "provider"
  /\ \/ /\ ~stopping /\ conn[r] = "open"
        /\ Enqueue
        /\ Goto(r, "waiting")
        /\ UNCHANGED outcome
     \/ /\ stopping \/ conn[r] # "open"
        /\ outcome' = [outcome EXCEPT ![r] = "severed"]
        /\ Goto(r, "replied")
        /\ UNCHANGED queueDepth
  /\ UNCHANGED <<kind, images, backlog, stopping, engine, errors, towerVars, netVars>>

Lock(r) ==
  /\ at[r] = "waiting"
  /\ Free
  /\ engine' = r
  /\ Goto(r, "locked")
  /\ UNCHANGED <<kind, images, backlog, stopping, metricVars, towerVars, netVars, outcome>>

SendUnlatched(r, e) ==                                        \* a fault
  LET works == conn[r] = "open"
  IN /\ said' = [said EXCEPT ![r] = Append(@, e)]
     /\ sink' = [sink EXCEPT ![r] = works]
     /\ wire' = IF works THEN [wire EXCEPT ![r] = Append(@, Len(said[r]) + 1)] ELSE wire

SendUntimed(r, e) ==                                          \* a fault
  LET works == sink[r] /\ conn[r] = "open"
  IN /\ sink[r] => conn[r] # "stalled"
     /\ said' = [said EXCEPT ![r] = Append(@, e)]
     /\ sink' = [sink EXCEPT ![r] = works]
     /\ wire' = IF works THEN [wire EXCEPT ![r] = Append(@, Len(said[r]) + 1)] ELSE wire

(* DataSink::write: a write to a client that has stalled fails when its    *)
(* time is up, and once one has failed no later one is tried.              *)
Send(r, e) ==
  LET works == sink[r] /\ conn[r] = "open"
  IN /\ said' = [said EXCEPT ![r] = Append(@, e)]
     /\ sink' = [sink EXCEPT ![r] = works]
     /\ wire' = IF works THEN [wire EXCEPT ![r] = Append(@, Len(said[r]) + 1)] ELSE wire

(* The mutex is held: the request has left the queue, and a chat stream    *)
(* opens with the role. Nobody looks at whether that write worked.         *)
Dequeue(r) ==
  /\ at[r] = "locked"
  /\ LeaveQueue(r)
  /\ \/ kind[r] = "stream" /\ Send(r, "role")
     \/ UNCHANGED <<said, sink, wire>>         \* not a chat, or not a stream
  /\ Goto(r, "running")
  /\ UNCHANGED <<kind, images, backlog, stopping, engine, errors, towerVars, conn,
                 alive, deltas, todo, outcome>>

SendDeltaOrGiveUp(r) ==                                       \* a fault
  \/ UNCHANGED <<said, sink, wire>> /\ alive' = [alive EXCEPT ![r] = FALSE]
  \/ Send(r, "delta") /\ alive' = [alive EXCEPT ![r] = sink'[r]]

(* on_delta: what the UTF-8 carry holds back is not sent, and counts as a  *)
(* success.                                                                *)
SendDelta(r) ==
  \/ UNCHANGED <<said, sink, wire, alive>>
  \/ Send(r, "delta") /\ alive' = [alive EXCEPT ![r] = sink'[r]]

(* generate() calls on_delta while the client takes what it is given.      *)
OnDelta(r) ==
  /\ at[r] = "running" /\ kind[r] = "stream"
  /\ alive[r] /\ deltas[r] < MaxDeltas
  /\ deltas' = [deltas EXCEPT ![r] = @ + 1]
  /\ SendDelta(r)
  /\ UNCHANGED <<at, kind, images, backlog, stopping, engine, metricVars, towerVars,
                 conn, todo, outcome>>

EndingTextLast(carry, calls, usage) ==                        \* a fault
  calls \o <<"finish">> \o carry \o usage \o <<"DONE">>
Ending(carry, calls, usage) ==
  carry \o calls \o <<"finish">> \o usage \o <<"DONE">>

(* generate() returns, for a stream after one more on_delta if its flush   *)
(* releases something -- also when the client is known to be gone.         *)
Generated(r) ==
  /\ at[r] = "running"
  /\ \/ /\ kind[r] = "body"
        /\ UNCHANGED <<said, sink, wire, alive, todo>>
        /\ Goto(r, "writing")
        /\ Release
     \/ /\ kind[r] = "stream"
        /\ SendDelta(r)
        /\ \E carry \in {<<>>, <<"delta">>}, calls \in {<<>>, <<"calls">>},
              usage \in {<<>>, <<"usage">>} :
             todo' = [todo EXCEPT ![r] = Ending(carry, calls, usage)]
        /\ Goto(r, "tail")
        /\ UNCHANGED engine
  /\ UNCHANGED <<kind, images, backlog, stopping, metricVars, towerVars, conn, deltas,
                 outcome>>

(* The rest of the stream, each event only if the client is believed to be *)
(* there. Only the carry's own write tells the provider it is not.         *)
EndEvent(r) ==
  /\ at[r] = "tail" /\ todo[r] # <<>>
  /\ todo' = [todo EXCEPT ![r] = Tail(@)]
  /\ IF alive[r]
     THEN /\ Send(r, Head(todo[r]))
          /\ alive' = IF Head(todo[r]) = "delta" THEN [alive EXCEPT ![r] = sink'[r]] ELSE alive
     ELSE UNCHANGED <<said, sink, wire, alive>>
  /\ UNCHANGED <<at, kind, images, backlog, stopping, engine, metricVars, towerVars,
                 conn, deltas, outcome>>

(* sink.done(); the lock guard goes out of scope.                          *)
Unlock(r) ==
  /\ at[r] = "tail" /\ todo[r] = <<>>
  /\ Release
  /\ outcome' = [outcome EXCEPT ![r] = "answer"]
  /\ Goto(r, "replied")
  /\ UNCHANGED <<kind, images, backlog, stopping, metricVars, towerVars, netVars>>

(* A body is written by httplib, after the mutex is free.                  *)
WriteBody(r) ==
  /\ at[r] = "writing"
  /\ outcome' = [outcome EXCEPT ![r] = "answer"]
  /\ Goto(r, "replied")
  /\ UNCHANGED <<kind, images, backlog, stopping, engine, metricVars, towerVars, netVars>>

Serve(r) ==
  \/ Take(r) \/ Probe(r) \/ Refuse(r) \/ Fail(r) \/ Launch(r) \/ CopyOut(r) \/ Admit(r)
  \/ CallProvider(r) \/ Lock(r) \/ Dequeue(r) \/ OnDelta(r) \/ Generated(r)
  \/ EndEvent(r) \/ Unlock(r) \/ WriteBody(r) \/ Close(r)

Next ==
  \/ \E r \in Request : Arrive(r) \/ Network(r) \/ Serve(r)
  \/ Stop

Spec == Init /\ [][Next]_vars

(* Threads run, the mutex is eventually had (there are finitely many       *)
(* requests), writes succeed or time out. Clients owe nothing.             *)
FairSpec == Spec /\ \A r \in Request : WF_vars(Serve(r))

-----------------------------------------------------------------------------
(* At most one request is between lock and unlock, and it is the one that  *)
(* holds g_engine: the request loop never runs twice at once.              *)
OneHolder ==
  \A r \in Request : at[r] \in {"locked", "running", "tail"} <=> engine = r

(* The gauge that /health and /metrics show counts the requests that wait  *)
(* for the engine, and nobody else, whichever way a request ends.          *)
GaugeCounts ==
  queueDepth = Cardinality({r \in Request : at[r] \in {"waiting", "locked"}})

(* What a client has received of a stream is a prefix of what was written: *)
(* a stall between two writes never takes an event out of the middle. And  *)
(* it comes in the order clients parse: nothing after [DONE], no text      *)
(* after the finish reason, usage in a chunk of its own behind it.         *)
WellFormed ==
  \A r \in Request :
    /\ \A i \in 1 .. Len(wire[r]) : wire[r][i] = i
    /\ \A i, j \in 1 .. Len(said[r]) :
         i < j => /\ said[r][j] # "role"
                  /\ said[r][i] # "DONE"
                  /\ said[r][j] = "delta" => said[r][i] \in {"role", "delta"}
                  /\ said[r][i] = "finish" => said[r][j] \in {"usage", "DONE"}

(* A stream that no write failed on is complete when the engine is let go: *)
(* everything is on the wire and the last event is [DONE].                 *)
CompleteUnlessCut ==
  \A r \in Request :
    kind[r] = "stream" /\ outcome[r] = "answer" /\ sink[r] =>
      /\ said[r] # <<>>
      /\ Len(wire[r]) = Len(said[r])
      /\ Last(said[r]) = "DONE"

(* The embeddings a request takes to the engine are its own images', whole *)
(* and in order, also when handlers of several requests are at the tower.  *)
OwnImages ==
  \A r \in Request : \A i \in 1 .. Len(embeds[r]) :
    embeds[r][i] = [of |-> <<r, i>>, done |-> Kernels]

(* Every accepted connection is dealt with, whatever its client and the    *)
(* others do: a stream whose client stops reading in the middle gives the  *)
(* engine back when its write times out, those queued for the engine get   *)
(* it, and a connection that found every thread taken gets one.            *)
Answered == \A r \in Request : at[r] = "backlog" ~> at[r] = "closed"

(* After SIGTERM the pool drains, so listen() returns.                     *)
Drains == stopping ~> (\A r \in Request : at[r] \in {"away", "closed"})
===============================================================================
