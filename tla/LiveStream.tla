----------------------------- MODULE LiveStream -----------------------------
(***************************************************************************)
(* Live events (agent_runtime/live, event_stream.py): streams publish their *)
(* events to a server that keeps the latest ones and passes each on to the *)
(* viewers connected by web socket.                                        *)
(*                                                                         *)
(* An event is <<publisher, number>>.  A publisher is synchronous: it      *)
(* waits for the answer to each POST, and gives up for good at the first   *)
(* one that fails or takes longer than its timeout, although the server    *)
(* may still be working on it.  The server is one asyncio loop: a handler  *)
(* runs without interruption from one await to the next, so that each step *)
(* here is one such stretch, and any handler may run next.  A send that is *)
(* awaited may take as long as the viewer is slow.                         *)
(***************************************************************************)
EXTENDS Integers, Sequences, FiniteSets

CONSTANTS
  Publishers,  \* EventStreams with live on, one per scenario that is run
  Viewers,     \* web sockets; one that reconnects is another one
  MaxLen,      \* maxlen of recent_events
  MaxEvents,   \* bound: events of all publishers together
  MaxRestarts  \* bound: how often the server dies and comes back

ASSUME LiveAssumption ==
  /\ IsFiniteSet(Publishers)
  /\ MaxLen \in Nat \ {0}
  /\ MaxEvents \in Nat
  /\ MaxRestarts \in Nat

VARIABLES
  emitted,       \* EventStream.events, by its length
  waiting,       \* the publisher is inside urlopen
  disabled,      \* LivePublisher._disabled
  requests,      \* events posted that no handler has taken up
  recent_events,
  handlers,      \* running ingest_event calls: event -> where its broadcast is
  clients,       \* LiveClientManager.clients
  session,       \* events_socket of each viewer
  closed,        \* viewers whose end of the socket is closed
  inbox,         \* the events sent to each viewer, snapshot first
  log,           \* history: every event this server has taken up
  joined,        \* history: how long the log was when a viewer was added
  restarts       \* history

publisherVars == <<emitted, waiting, disabled>>
viewerVars == <<session, closed, inbox, joined>>
liveVars == <<publisherVars, requests, recent_events, handlers, clients, viewerVars,
              log, restarts>>

Event == Publishers \X (1..MaxEvents)

LastOf(s, k) == SubSeq(s, IF Len(s) > k THEN Len(s) - k + 1 ELSE 1, Len(s))

LiveInit ==
  /\ emitted = [p \in Publishers |-> 0]
  /\ waiting = [p \in Publishers |-> FALSE]
  /\ disabled = [p \in Publishers |-> FALSE]
  /\ requests = {}
  /\ recent_events = << >>
  /\ handlers = << >>
  /\ clients = {}
  /\ session = [v \in Viewers |-> "none"]
  /\ closed = {}
  /\ inbox = [v \in Viewers |-> << >>]
  /\ log = << >>
  /\ joined = [v \in Viewers |-> 0]
  /\ restarts = 0
-----------------------------------------------------------------------------
(* The publisher's side.                                                   *)

\* EventStream.emit: remembered here, and posted unless publishing is off.
Emit(p) ==
  /\ ~waiting[p]
  /\ Cardinality({e \in Event : e[2] <= emitted[e[1]]}) < MaxEvents
  /\ emitted' = [emitted EXCEPT ![p] = @ + 1]
  /\ IF disabled[p]
     THEN UNCHANGED <<waiting, requests>>
     ELSE /\ waiting' = [waiting EXCEPT ![p] = TRUE]
          /\ requests' = requests \cup {<<p, emitted[p] + 1>>}
  /\ UNCHANGED <<disabled, recent_events, handlers, clients, viewerVars, log, restarts>>

\* Slip: a failed POST is only logged.
SwitchOffNever(p) == disabled

SwitchOff(p) == [disabled EXCEPT ![p] = TRUE]

\* The answer takes longer than the timeout: publishing is off, the request is not
\* taken back.
TimeOut(p) ==
  /\ waiting[p]
  /\ waiting' = [waiting EXCEPT ![p] = FALSE]
  /\ disabled' = SwitchOff(p)
  /\ UNCHANGED <<emitted, requests, recent_events, handlers, clients, viewerVars, log,
                 restarts>>

\* The request never reaches a handler; a publisher still waiting gets an error.
LoseRequest(e) ==
  /\ e \in requests
  /\ requests' = requests \ {e}
  /\ IF waiting[e[1]]
     THEN /\ waiting' = [waiting EXCEPT ![e[1]] = FALSE]
          /\ disabled' = SwitchOff(e[1])
     ELSE UNCHANGED <<waiting, disabled>>
  /\ UNCHANGED <<emitted, recent_events, handlers, clients, viewerVars, log, restarts>>
-----------------------------------------------------------------------------
(* The server's side.                                                      *)

\* broadcast of e: the clients it is still going to send to, and those that failed.
Broadcasting(e, left, disconnected) ==
  [x \in DOMAIN handlers \cup {e} |->
     IF x = e THEN [left |-> left, disconnected |-> disconnected] ELSE handlers[x]]

\* ingest_event up to its first send: remember the event, list the clients.
Ingest(e) ==
  /\ e \in requests
  /\ requests' = requests \ {e}
  /\ recent_events' = LastOf(Append(recent_events, e), MaxLen)
  /\ handlers' = Broadcasting(e, clients, {})
  /\ log' = Append(log, e)
  /\ UNCHANGED <<publisherVars, clients, viewerVars, restarts>>

\* A send to an open socket; messages of one socket arrive in the order sent.
Send(e, v) ==
  /\ e \in DOMAIN handlers
  /\ v \in handlers[e].left
  /\ v \notin closed
  /\ inbox' = [inbox EXCEPT ![v] = Append(@, e)]
  /\ handlers' = Broadcasting(e, handlers[e].left \ {v}, handlers[e].disconnected)
  /\ UNCHANGED <<publisherVars, requests, recent_events, clients, session, closed, joined,
                 log, restarts>>

\* Slip: the exception ends the loop over the clients.
LeftAfterFailureNone(left, v) == {}

LeftAfterFailure(left, v) == left \ {v}

\* A send to a closed socket raises, or the close has not been noticed yet.
SendFails(e, v) ==
  /\ e \in DOMAIN handlers
  /\ v \in handlers[e].left
  /\ v \in closed
  /\ \E noticed \in {{}, {v}} :
       handlers' = Broadcasting(e, IF noticed = {} THEN handlers[e].left \ {v}
                                   ELSE LeftAfterFailure(handlers[e].left, v),
                                handlers[e].disconnected \cup noticed)
  /\ UNCHANGED <<publisherVars, requests, recent_events, clients, viewerVars, log, restarts>>

Without(cs, gone) == cs \ gone

\* The broadcast is over: forget the clients that failed, answer the publisher.
Answer(e) ==
  /\ e \in DOMAIN handlers
  /\ handlers[e].left = {}
  /\ clients' = Without(clients, handlers[e].disconnected)
  /\ handlers' = [x \in DOMAIN handlers \ {e} |-> handlers[x]]
  /\ waiting' = [waiting EXCEPT ![e[1]] = FALSE]
  /\ UNCHANGED <<emitted, disabled, requests, recent_events, viewerVars, log, restarts>>

\* A viewer asks for a socket: events_socket awaits accept().
Connect(v) ==
  /\ session[v] = "none"
  /\ session' = [session EXCEPT ![v] = "accepting"]
  /\ UNCHANGED <<publisherVars, requests, recent_events, handlers, clients, closed, inbox,
                 joined, log, restarts>>

\* Accepted: added to the clients and sent what is remembered, with no await between.
Join(v) ==
  /\ session[v] = "accepting"
  /\ v \notin closed
  /\ session' = [session EXCEPT ![v] = "serving"]
  /\ clients' = clients \cup {v}
  /\ inbox' = [inbox EXCEPT ![v] = recent_events]
  /\ joined' = [joined EXCEPT ![v] = Len(log)]
  /\ UNCHANGED <<publisherVars, requests, recent_events, handlers, closed, log, restarts>>

\* accept() raises: the viewer was never added.
AcceptFails(v) ==
  /\ session[v] = "accepting"
  /\ v \in closed
  /\ session' = [session EXCEPT ![v] = "over"]
  /\ UNCHANGED <<publisherVars, requests, recent_events, handlers, clients, closed, inbox,
                 joined, log, restarts>>

\* The viewer goes away.
Close(v) ==
  /\ session[v] \in {"accepting", "serving"}
  /\ closed' = closed \cup {v}
  /\ UNCHANGED <<publisherVars, requests, recent_events, handlers, clients, session, inbox,
                 joined, log, restarts>>

\* send_json or receive_text raises in events_socket: disconnect(websocket).
Leave(v) ==
  /\ session[v] = "serving"
  /\ v \in closed
  /\ session' = [session EXCEPT ![v] = "over"]
  /\ clients' = Without(clients, {v})
  /\ UNCHANGED <<publisherVars, requests, recent_events, handlers, closed, inbox, joined,
                 log, restarts>>

\* The server process dies and is started again: all it held is gone, its sockets
\* close, and the publishers it kept waiting get an error.
Restart ==
  /\ restarts < MaxRestarts
  /\ restarts' = restarts + 1
  /\ disabled' = [p \in Publishers |-> disabled[p] \/ waiting[p]]
  /\ waiting' = [p \in Publishers |-> FALSE]
  /\ requests' = {}
  /\ recent_events' = << >>
  /\ handlers' = << >>
  /\ clients' = {}
  /\ session' = [v \in Viewers |-> IF session[v] = "none" THEN "none" ELSE "over"]
  /\ closed' = {v \in Viewers : session[v] # "none"}
  /\ log' = << >>
  /\ UNCHANGED <<emitted, inbox, joined>>

LiveNext ==
  \/ \E p \in Publishers : Emit(p) \/ TimeOut(p)
  \/ \E e \in requests : LoseRequest(e) \/ Ingest(e)
  \/ \E e \in DOMAIN handlers : Answer(e) \/ \E v \in Viewers : Send(e, v) \/ SendFails(e, v)
  \/ \E v \in Viewers : Connect(v) \/ Join(v) \/ AcceptFails(v) \/ Close(v) \/ Leave(v)
  \/ Restart

LiveSpec == LiveInit /\ [][LiveNext]_liveVars

\* The event loop runs every handler on, and an awaited send ends: the message goes
\* out, or the socket is given up.  Nothing makes publishers or viewers act.
LiveFairness ==
  /\ \A e \in Event :
       /\ WF_liveVars(e \in requests /\ (LoseRequest(e) \/ Ingest(e)))
       /\ WF_liveVars(Answer(e))
       /\ \A v \in Viewers : WF_liveVars(Send(e, v) \/ SendFails(e, v))
  /\ \A v \in Viewers : WF_liveVars(Join(v) \/ AcceptFails(v)) /\ WF_liveVars(Leave(v))

LiveFairSpec == LiveSpec /\ LiveFairness
-----------------------------------------------------------------------------
SeqRange(s) == {s[i] : i \in DOMAIN s}

\* A viewer that stays connected misses nothing and sees nothing twice: the events
\* it was sent and those some broadcast still owes it are, each once, the ones
\* remembered when it joined and all taken up since.
Owed(v) == {e \in DOMAIN handlers : v \in handlers[e].left}
Due(v) ==
  LET kept == IF joined[v] < MaxLen THEN joined[v] ELSE MaxLen
  IN  {log[i] : i \in (joined[v] - kept + 1)..Len(log)}
ExactlyOnce ==
  \A v \in Viewers : session[v] = "serving" /\ v \notin closed =>
    /\ v \in clients
    /\ SeqRange(inbox[v]) \cup Owed(v) = Due(v)
    /\ Len(inbox[v]) + Cardinality(Owed(v)) = Cardinality(Due(v))

\* What the server took up of a stream is a piece of it without holes, and as
\* long as publishing is on all of it, the event being posted apart.
NoSilentGap ==
  \A p \in Publishers :
    LET seen == {i \in 1..MaxEvents : <<p, i>> \in SeqRange(log)}
    IN  /\ \A i, j \in seen : \A k \in i..j : k \in seen
        /\ restarts = 0 /\ ~disabled[p] =>
             seen \cup (IF waiting[p] THEN {emitted[p]} ELSE {}) = 1..emitted[p]

\* A viewer that stays gets every event taken up while it is connected.
ViewersCatchUp ==
  \A v \in Viewers : \A e \in Event :
    (session[v] = "serving" /\ e \in Due(v)) ~> (e \in SeqRange(inbox[v]) \/ v \in closed)
=============================================================================
