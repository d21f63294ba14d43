-------------------------- MODULE LiveStreamProofs --------------------------
(***************************************************************************)
(* That the live stream loses and repeats nothing, for any publishers,     *)
(* viewers, lengths and numbers of restarts.                               *)
(***************************************************************************)
EXTENDS LiveStream, TLAPS, SequenceTheorems, FiniteSetTheorems

\* The numbers of a stream's events; what was taken up, and how far an event has come.
Number == 1..MaxEvents
Taken == SeqRange(log)
Posted(p, i) == <<p, i>> \in requests
Seen(p, i) == <<p, i>> \in Taken
Broadcast(p, i) == <<p, i>> \in DOMAIN handlers

\* Types of the publishers' side; a broadcast is of an event taken up.
StreamTypeOK ==
  /\ emitted \in [Publishers -> 0..MaxEvents]
  /\ waiting \in [Publishers -> BOOLEAN]
  /\ disabled \in [Publishers -> BOOLEAN]
  /\ requests \subseteq Event
  /\ log \in Seq(Event)
  /\ DOMAIN handlers \subseteq Taken
  /\ restarts \in Nat

\* What is posted was emitted and not taken up before; a stream has one post at a time.
Fresh(p) ==
  /\ waiting[p] => emitted[p] > 0
  /\ \A i \in Number :
       /\ Seen(p, i) => i <= emitted[p]
       /\ Posted(p, i) =>
            /\ i <= emitted[p]
            /\ ~Seen(p, i)
            /\ \A j \in Number : Posted(p, j) => i = j

\* What is posted is the next number after those taken up, which have no holes.
InTurn(p) ==
  /\ \A i, j \in Number : Seen(p, i) /\ Seen(p, j) => \A k \in i..j : Seen(p, k)
  /\ \A i, j \in Number : Posted(p, i) /\ Seen(p, j) => j < i /\ Seen(p, i - 1)

\* While publishing is on, the publisher waits for whatever of its own is under way,
\* which is its latest event; with nothing under way the latest event was taken up.
Current(p) ==
  ~disabled[p] =>
    /\ \A i \in Number : Posted(p, i) \/ Broadcast(p, i) => waiting[p] /\ i = emitted[p]
    /\ (\A i \in Number : ~Posted(p, i)) => \A j \in Number : Seen(p, j) => Seen(p, emitted[p])
    /\ restarts = 0 =>
         /\ \A i \in Number : i < emitted[p] => Seen(p, i)
         /\ emitted[p] > 0 => Seen(p, emitted[p]) \/ waiting[p]

\* What is known of all streams.
StreamInv ==
  /\ StreamTypeOK
  /\ \A p \in Publishers : Fresh(p) /\ InTurn(p) /\ Current(p)

\* No event is taken up twice, the latest are remembered, and only viewers that are gone
\* have failed a send.
ServerInv ==
  /\ \A i, j \in DOMAIN log : log[i] = log[j] => i = j
  /\ recent_events = LastOf(log, MaxLen)
  /\ \A e \in DOMAIN handlers : handlers[e].disconnected \subseteq closed

\* Types of the viewers' side.
ViewerTypeOK ==
  /\ session \in [Viewers -> {"none", "accepting", "serving", "over"}]
  /\ inbox \in [Viewers -> Seq(Event)]
  /\ joined \in [Viewers -> Nat]

\* Nobody sends to a viewer before it has joined.
Untold(v) ==
  session[v] \in {"none", "accepting"} =>
    v \notin clients /\ \A e \in DOMAIN handlers : v \notin handlers[e].left

\* ExactlyOnce for one viewer.
Told(v) ==
  session[v] = "serving" /\ v \notin closed =>
    /\ joined[v] <= Len(log)
    /\ v \in clients
    /\ SeqRange(inbox[v]) \cup Owed(v) = Due(v)
    /\ Len(inbox[v]) + Cardinality(Owed(v)) = Cardinality(Due(v))

\* What is known of all viewers.
ViewerInv ==
  /\ ViewerTypeOK
  /\ \A v \in Viewers : Untold(v) /\ Told(v)

\* The inductive invariant.
LiveInv == StreamInv /\ ServerInv /\ ViewerInv
-----------------------------------------------------------------------------
(* Sequences, and the bound of Emit.                                        *)

\* What a sequence holds after one more element.
LEMMA AppendRange ==
  ASSUME NEW S, NEW s \in Seq(S), NEW x \in S
  PROVE  /\ Append(s, x) \in Seq(S)
         /\ Len(Append(s, x)) = Len(s) + 1
         /\ SeqRange(Append(s, x)) = SeqRange(s) \cup {x}
<1>1. /\ Append(s, x) \in Seq(S)
      /\ Len(Append(s, x)) = Len(s) + 1
      /\ \A i \in 1..Len(s) : Append(s, x)[i] = s[i]
      /\ Append(s, x)[Len(s) + 1] = x
  BY AppendProperties
<1>2. Len(s) \in Nat /\ DOMAIN s = 1..Len(s) /\ DOMAIN Append(s, x) = 1..(Len(s) + 1)
  BY <1>1, LenProperties
<1>3. SeqRange(Append(s, x)) = SeqRange(s) \cup {x}
  BY <1>1, <1>2 DEF SeqRange
<1>4. QED BY <1>1, <1>3

\* No stream ever emits more than MaxEvents, for all of them together do not.
LEMMA EmitIsBounded ==
  ASSUME NEW p \in Publishers, emitted \in [Publishers -> 0..MaxEvents],
         Cardinality({e \in Event : e[2] <= emitted[e[1]]}) < MaxEvents
  PROVE  emitted[p] + 1 \in 1..MaxEvents
<1> DEFINE all == {e \in Event : e[2] <= emitted[e[1]]}
           own == [i \in 1..emitted[p] |-> <<p, i>>]
<1>1. MaxEvents \in Nat /\ IsFiniteSet(Publishers) /\ emitted[p] \in 0..MaxEvents
  BY LiveAssumption
<1>2. IsFiniteSet(1..MaxEvents) /\ IsFiniteSet(1..emitted[p])
      /\ Cardinality(1..emitted[p]) = emitted[p]
  BY <1>1, FS_Interval
<1>3. IsFiniteSet(Event)
  BY <1>1, <1>2, FS_Product, Zenon DEF Event
<1>4. IsFiniteSet(all) /\ Cardinality(all) \in Nat
  <2>1. all \in SUBSET Event
    OBVIOUS
  <2>2. QED BY <2>1, <1>3, FS_Subset, FS_CardinalityType, Zenon
<1>5. own \in Injection(1..emitted[p], all)
  <2>1. \A i \in 1..emitted[p] : own[i] \in all
    BY <1>1 DEF Event
  <2>2. \A i, j \in 1..emitted[p] : own[i] = own[j] => i = j
    OBVIOUS
  <2> HIDE DEF all
  <2>3. own \in [1..emitted[p] -> all]
    BY <2>1
  <2>4. QED BY <2>2, <2>3 DEF Injection, IsInjective
<1>6. emitted[p] <= Cardinality(all)
  <2> HIDE DEF all, own
  <2>1. QED BY <1>2, <1>4, <1>5, FS_Injection
<1>7. QED
  BY <1>1, <1>4, <1>6
-----------------------------------------------------------------------------
(* The streams.                                                             *)

\* At the start nothing was emitted.
LEMMA StreamInitInv == LiveInit => StreamInv
<1> SUFFICES ASSUME LiveInit PROVE StreamInv
  OBVIOUS
<1>1. /\ emitted = [p \in Publishers |-> 0]
      /\ waiting = [p \in Publishers |-> FALSE]
      /\ disabled = [p \in Publishers |-> FALSE]
      /\ requests = {} /\ log = << >> /\ handlers = << >> /\ restarts = 0
  BY DEF LiveInit
<1>2. Taken = {} /\ DOMAIN handlers = {} /\ log \in Seq(Event)
  BY <1>1 DEF Taken, SeqRange
<1>3. StreamTypeOK
  BY <1>1, <1>2, LiveAssumption DEF StreamTypeOK
<1>4. ASSUME NEW p \in Publishers PROVE Fresh(p) /\ InTurn(p) /\ Current(p)
  BY <1>1, <1>2, LiveAssumption DEF Fresh, InTurn, Current, Seen, Posted, Broadcast, Number
<1>5. QED
  BY <1>3, <1>4 DEF StreamInv

\* The next number is posted only when the one before it has been dealt with.
LEMMA EmitStream == ASSUME NEW p \in Publishers, StreamInv, Emit(p) PROVE StreamInv'
<1>1. /\ emitted' = [emitted EXCEPT ![p] = emitted[p] + 1]
      /\ emitted[p] + 1 \in 1..MaxEvents
      /\ ~waiting[p]
      /\ disabled' = disabled /\ log' = log /\ handlers' = handlers /\ restarts' = restarts
      /\ disabled[p] => waiting' = waiting /\ requests' = requests
      /\ ~disabled[p] => /\ waiting' = [waiting EXCEPT ![p] = TRUE]
                         /\ requests' = requests \cup {<<p, emitted[p] + 1>>}
  BY EmitIsBounded DEF Emit, StreamInv, StreamTypeOK
<1>2. Taken' = Taken
  BY <1>1 DEF Taken
<1>3. StreamTypeOK'
  <2>1. MaxEvents \in Nat /\ StreamTypeOK
    BY LiveAssumption DEF StreamInv
  <2>2. emitted' \in [Publishers -> 0..MaxEvents]
    BY <1>1, <2>1 DEF StreamTypeOK
  <2>3. waiting' \in [Publishers -> BOOLEAN] /\ disabled' \in [Publishers -> BOOLEAN]
    BY <1>1, <2>1 DEF StreamTypeOK
  <2>4. requests' \subseteq Event
    BY <1>1, <2>1 DEF StreamTypeOK, Event
  <2>5. QED
    BY <1>1, <1>2, <2>1, <2>2, <2>3, <2>4 DEF StreamTypeOK
<1>4. ASSUME NEW q \in Publishers PROVE Fresh(q)' /\ InTurn(q)' /\ Current(q)'
  <2>1. Fresh(q) /\ InTurn(q) /\ Current(q) /\ MaxEvents \in Nat
    BY LiveAssumption DEF StreamInv
  <2>2. emitted[q] \in 0..MaxEvents /\ emitted[p] \in 0..MaxEvents
        /\ emitted'[q] = IF q = p THEN emitted[p] + 1 ELSE emitted[q]
    BY <1>1 DEF StreamInv, StreamTypeOK
  <2>3. /\ \A i \in Number : Seen(q, i)' <=> Seen(q, i)
        /\ \A i \in Number : Broadcast(q, i)' <=> Broadcast(q, i)
    BY <1>1, <1>2 DEF Seen, Broadcast
  <2>4. \A i \in Number : Posted(q, i)' <=>
                           Posted(q, i) \/ (q = p /\ ~disabled[p] /\ i = emitted[p] + 1)
    BY <1>1 DEF Posted
  <2>5. waiting'[q] = IF q = p /\ ~disabled[p] THEN TRUE ELSE waiting[q]
    BY <1>1 DEF StreamInv, StreamTypeOK
  <2>6. q = p /\ ~disabled[p] => \A i \in Number : ~Posted(q, i) /\ ~Broadcast(q, i)
    BY <1>1, <2>1 DEF Current
  <2>7. Fresh(q)'
    BY <1>1, <2>1, <2>2, <2>3, <2>4, <2>5, <2>6 DEF Fresh, Number
  <2>8. InTurn(q)'
    <3>1. \A i, j \in Number : Seen(q, i)' /\ Seen(q, j)' => \A k \in i..j : Seen(q, k)'
      BY <2>1, <2>3 DEF InTurn, Number
    <3>2. ASSUME NEW i \in Number, NEW j \in Number, Posted(q, i)', Seen(q, j)'
          PROVE  j < i /\ Seen(q, i - 1)'
      <4>1. CASE Posted(q, i)
        <5>1. j < i /\ Seen(q, i - 1)
          BY <2>1, <2>3, <3>2, <4>1 DEF InTurn
        <5>2. i - 1 \in Number
          BY <2>1, <5>1 DEF Number
        <5>3. QED BY <2>3, <5>1, <5>2
      <4>2. CASE ~Posted(q, i)
        <5>1. q = p /\ ~disabled[p] /\ i = emitted[p] + 1 /\ Seen(q, j)
          BY <2>3, <2>4, <3>2, <4>2
        <5>2. j <= emitted[p]
          BY <2>1, <5>1 DEF Fresh
        <5>3. Seen(q, emitted[p])
          BY <2>1, <2>6, <5>1 DEF Current
        <5>4. i - 1 = emitted[p] /\ j < i /\ i - 1 \in Number
          BY <2>2, <5>1, <5>2 DEF Number
        <5>5. QED BY <2>3, <5>3, <5>4
      <4>3. QED BY <4>1, <4>2
    <3>3. QED BY <3>1, <3>2 DEF InTurn
  <2>9. Current(q)'
    BY <1>1, <2>1, <2>2, <2>3, <2>4, <2>5, <2>6 DEF Current, Fresh, Number
  <2>10. QED BY <2>7, <2>8, <2>9
<1>5. QED
  BY <1>3, <1>4 DEF StreamInv

\* Giving up only takes posts back, and of those only where publishing is off for good.
LEMMA GivingUpStream ==
  ASSUME StreamInv,
         emitted' = emitted, log' = log, handlers' = handlers, restarts' = restarts,
         requests' \subseteq requests,
         waiting' \in [Publishers -> BOOLEAN], disabled' \in [Publishers -> BOOLEAN],
         \A q \in Publishers :
           /\ waiting'[q] => waiting[q]
           /\ ~disabled'[q] => /\ ~disabled[q]
                               /\ waiting'[q] = waiting[q]
                               /\ \A i \in Number : Posted(q, i)' <=> Posted(q, i)
  PROVE  StreamInv'
<1>1. Taken' = Taken
  BY DEF Taken
<1>2. StreamTypeOK'
  BY <1>1 DEF StreamInv, StreamTypeOK
<1>3. ASSUME NEW q \in Publishers PROVE Fresh(q)' /\ InTurn(q)' /\ Current(q)'
  <2>1. Fresh(q) /\ InTurn(q) /\ Current(q)
    BY DEF StreamInv
  <2>2. \A i : (Seen(q, i)' <=> Seen(q, i)) /\ (Broadcast(q, i)' <=> Broadcast(q, i))
    BY <1>1 DEF Seen, Broadcast
  <2>3. \A i \in Number : Posted(q, i)' => Posted(q, i)
    BY DEF Posted
  <2>4. Fresh(q)'
    BY <2>1, <2>2, <2>3 DEF Fresh
  <2>5. InTurn(q)'
    BY <2>1, <2>2, <2>3 DEF InTurn
  <2>6. Current(q)'
    BY <2>1, <2>2, <2>3 DEF Current
  <2>7. QED BY <2>4, <2>5, <2>6
<1>4. QED
  BY <1>2, <1>3 DEF StreamInv

\* A time-out switches publishing off and leaves the post where it is.
LEMMA TimeOutStream == ASSUME NEW p \in Publishers, StreamInv, TimeOut(p) PROVE StreamInv'
<1>1. StreamTypeOK
  BY DEF StreamInv
<1>2. /\ waiting' = [waiting EXCEPT ![p] = FALSE] /\ disabled' = [disabled EXCEPT ![p] = TRUE]
      /\ UNCHANGED <<emitted, log, handlers, restarts, requests>>
  BY DEF TimeOut, SwitchOff
<1>3. waiting' \in [Publishers -> BOOLEAN] /\ disabled' \in [Publishers -> BOOLEAN]
  BY <1>1, <1>2 DEF StreamTypeOK
<1>4. \A q \in Publishers : /\ waiting'[q] = IF q = p THEN FALSE ELSE waiting[q]
                            /\ disabled'[q] = IF q = p THEN TRUE ELSE disabled[q]
  BY <1>1, <1>2 DEF StreamTypeOK
<1>5. QED
  BY <1>2, <1>3, <1>4, GivingUpStream DEF Posted

\* A lost post is one its publisher waits for, or one of a publisher that gave up.
LEMMA LoseStream == ASSUME NEW e \in requests, StreamInv, LoseRequest(e) PROVE StreamInv'
<1> DEFINE p == e[1]
<1>1. StreamTypeOK
  BY DEF StreamInv
<1>2. e \in Event /\ p \in Publishers /\ e[2] \in Number /\ e = <<p, e[2]>>
  BY <1>1 DEF StreamTypeOK, Event, Number
<1>3. /\ UNCHANGED <<emitted, log, handlers, restarts>>
      /\ requests' = requests \ {e}
      /\ waiting[p] => /\ waiting' = [waiting EXCEPT ![p] = FALSE]
                       /\ disabled' = [disabled EXCEPT ![p] = TRUE]
      /\ ~waiting[p] => waiting' = waiting /\ disabled' = disabled
  BY DEF LoseRequest, SwitchOff
<1>4. ~waiting[p] => disabled[p]
  BY <1>2 DEF StreamInv, Current, Posted
<1>5. waiting' \in [Publishers -> BOOLEAN] /\ disabled' \in [Publishers -> BOOLEAN]
  BY <1>1, <1>2, <1>3 DEF StreamTypeOK
<1>6. \A q \in Publishers : /\ waiting'[q] => waiting[q]
                            /\ q # p => waiting'[q] = waiting[q] /\ disabled'[q] = disabled[q]
                            /\ disabled'[p]
  BY <1>1, <1>2, <1>3, <1>4 DEF StreamTypeOK
<1>7. \A q \in Publishers, i \in Number : q # p => (Posted(q, i)' <=> Posted(q, i))
  BY <1>2, <1>3 DEF Posted
<1>8. QED
  BY <1>3, <1>5, <1>6, <1>7, GivingUpStream

\* The event taken up is the next one of its stream.
LEMMA IngestStream == ASSUME NEW e \in requests, StreamInv, Ingest(e) PROVE StreamInv'
<1> DEFINE p == e[1]
           n == e[2]
<1>1. StreamTypeOK
  BY DEF StreamInv
<1>2. e \in Event /\ p \in Publishers /\ n \in Number /\ e = <<p, n>>
  BY <1>1 DEF StreamTypeOK, Event, Number
<1>3. /\ UNCHANGED <<emitted, waiting, disabled, restarts>>
      /\ requests' = requests \ {e}
      /\ DOMAIN handlers' = DOMAIN handlers \cup {e}
      /\ log' = Append(log, e)
  BY DEF Ingest, Broadcasting, publisherVars
<1>4. log' \in Seq(Event) /\ Taken' = Taken \cup {e}
  BY <1>1, <1>2, <1>3, AppendRange DEF Taken, StreamTypeOK
<1>5. StreamTypeOK'
  BY <1>1, <1>3, <1>4 DEF StreamTypeOK
<1> HIDE DEF p, n
<1>6. ASSUME NEW q \in Publishers PROVE Fresh(q)' /\ InTurn(q)' /\ Current(q)'
  <2>1. Fresh(q) /\ InTurn(q) /\ Current(q) /\ MaxEvents \in Nat
    BY LiveAssumption DEF StreamInv
  <2>2. \A i : /\ Seen(q, i)' <=> Seen(q, i) \/ (q = p /\ i = n)
               /\ Broadcast(q, i)' <=> Broadcast(q, i) \/ (q = p /\ i = n)
               /\ Posted(q, i)' <=> Posted(q, i) /\ ~(q = p /\ i = n)
    BY <1>2, <1>3, <1>4 DEF Seen, Broadcast, Posted
  <2>3. Posted(p, n)
    BY <1>2 DEF Posted
  <2>4. Fresh(q)'
    BY <1>2, <1>3, <2>1, <2>2, <2>3 DEF Fresh
  <2>5. InTurn(q)'
    <3>1. ASSUME NEW i \in Number, NEW j \in Number, Seen(q, i)', Seen(q, j)', NEW k \in i..j
          PROVE  Seen(q, k)'
      BY <1>2, <2>1, <2>2, <2>3, <3>1 DEF InTurn, Number
    <3>2. \A i, j \in Number : Posted(q, i)' /\ Seen(q, j)' => j < i /\ Seen(q, i - 1)'
      BY <1>2, <2>1, <2>2, <2>3 DEF InTurn, Fresh, Number
    <3>3. QED BY <3>1, <3>2 DEF InTurn
  <2>6. Current(q)'
    BY <1>2, <1>3, <2>1, <2>2, <2>3 DEF Current, Fresh, Number
  <2>7. QED BY <2>4, <2>5, <2>6
<1>7. QED
  BY <1>5, <1>6 DEF StreamInv

\* The answer lets the publisher go on; what it waited for is taken up.
LEMMA AnswerStream == ASSUME NEW e \in DOMAIN handlers, StreamInv, Answer(e) PROVE StreamInv'
<1> DEFINE p == e[1]
           n == e[2]
<1>1. StreamTypeOK
  BY DEF StreamInv
<1>2. Taken \subseteq Event
  BY <1>1, LenProperties DEF StreamTypeOK, Taken, SeqRange
<1>3. e \in Taken /\ p \in Publishers /\ n \in Number /\ e = <<p, n>>
  BY <1>1, <1>2 DEF StreamTypeOK, Event, Number
<1>4. /\ UNCHANGED <<emitted, disabled, requests, log, restarts>>
      /\ waiting' = [waiting EXCEPT ![p] = FALSE]
      /\ DOMAIN handlers' = DOMAIN handlers \ {e}
  BY DEF Answer
<1>5. Taken' = Taken
  BY <1>4 DEF Taken
<1>6. StreamTypeOK'
  BY <1>1, <1>3, <1>4, <1>5 DEF StreamTypeOK
<1>7. \A q \in Publishers : waiting'[q] = IF q = p THEN FALSE ELSE waiting[q]
  BY <1>1, <1>4 DEF StreamTypeOK
<1> HIDE DEF p, n
<1>8. ASSUME NEW q \in Publishers PROVE Fresh(q)' /\ InTurn(q)' /\ Current(q)'
  <2>1. Fresh(q) /\ InTurn(q) /\ Current(q) /\ MaxEvents \in Nat
    BY LiveAssumption DEF StreamInv
  <2>2. \A i : /\ Seen(q, i)' <=> Seen(q, i)
               /\ Broadcast(q, i)' <=> Broadcast(q, i) /\ ~(q = p /\ i = n)
               /\ Posted(q, i)' <=> Posted(q, i)
    BY <1>3, <1>4, <1>5 DEF Seen, Broadcast, Posted
  <2>3. Broadcast(p, n) /\ Seen(p, n)
    BY <1>3 DEF Broadcast, Seen
  <2>4. Fresh(q)'
    BY <1>4, <1>7, <2>1, <2>2 DEF Fresh
  <2>5. InTurn(q)'
    BY <2>1, <2>2 DEF InTurn
  <2>6. Current(q)'
    BY <1>3, <1>4, <1>7, <2>1, <2>2, <2>3 DEF Current, Fresh
  <2>7. QED BY <2>4, <2>5, <2>6
<1>9. QED
  BY <1>6, <1>8 DEF StreamInv

\* A new server has taken up nothing, and whoever waited for the old one has given up.
LEMMA RestartStream == StreamInv /\ Restart => StreamInv'
<1> SUFFICES ASSUME StreamInv, Restart PROVE StreamInv'
  OBVIOUS
<1>1. StreamTypeOK
  BY DEF StreamInv
<1>2. /\ emitted' = emitted
      /\ waiting' = [p \in Publishers |-> FALSE]
      /\ disabled' = [p \in Publishers |-> disabled[p] \/ waiting[p]]
      /\ requests' = {} /\ log' = << >> /\ handlers' = << >> /\ restarts' = restarts + 1
  BY DEF Restart
<1>3. Taken' = {} /\ DOMAIN handlers' = {} /\ log' \in Seq(Event)
  BY <1>2 DEF Taken, SeqRange
<1>4. StreamTypeOK'
  BY <1>1, <1>2, <1>3 DEF StreamTypeOK
<1>5. ASSUME NEW p \in Publishers PROVE Fresh(p)' /\ InTurn(p)' /\ Current(p)'
  BY <1>1, <1>2, <1>3
  DEF StreamTypeOK, Fresh, InTurn, Current, Seen, Posted, Broadcast, Number
<1>6. QED
  BY <1>4, <1>5 DEF StreamInv

\* Sends and viewers do not touch the streams.
LEMMA OtherStream ==
  ASSUME StreamInv, UNCHANGED <<publisherVars, requests, log, restarts>>,
         DOMAIN handlers' = DOMAIN handlers
  PROVE  StreamInv'
<1>1. Taken' = Taken
  BY DEF Taken
<1>2. StreamTypeOK'
  BY <1>1 DEF StreamInv, StreamTypeOK, publisherVars
<1>3. ASSUME NEW p \in Publishers PROVE Fresh(p)' /\ InTurn(p)' /\ Current(p)'
  <2>1. Fresh(p) /\ InTurn(p) /\ Current(p)
    BY DEF StreamInv
  <2>2. \A i : /\ Seen(p, i)' <=> Seen(p, i)
               /\ Broadcast(p, i)' <=> Broadcast(p, i)
               /\ Posted(p, i)' <=> Posted(p, i)
    BY <1>1 DEF Seen, Broadcast, Posted
  <2>3. QED
    BY <2>1, <2>2 DEF Fresh, InTurn, Current, publisherVars
<1>4. QED
  BY <1>2, <1>3 DEF StreamInv

\* Every step keeps what is known of the streams.
LEMMA StreamStepInv == StreamInv /\ [LiveNext]_liveVars => StreamInv'
<1> SUFFICES ASSUME StreamInv, [LiveNext]_liveVars PROVE StreamInv'
  OBVIOUS
<1>1. ASSUME NEW p \in Publishers, Emit(p) \/ TimeOut(p) PROVE StreamInv'
  BY <1>1, EmitStream, TimeOutStream
<1>2. ASSUME NEW e \in requests, LoseRequest(e) \/ Ingest(e) PROVE StreamInv'
  BY <1>2, LoseStream, IngestStream
<1>3. ASSUME NEW e \in DOMAIN handlers, Answer(e) PROVE StreamInv'
  BY <1>3, AnswerStream
<1>4. ASSUME NEW e \in DOMAIN handlers, NEW v \in Viewers, Send(e, v) \/ SendFails(e, v)
      PROVE  StreamInv'
  <2>1. UNCHANGED <<publisherVars, requests, log, restarts>> /\ DOMAIN handlers' = DOMAIN handlers
    BY <1>4 DEF Send, SendFails, Broadcasting
  <2>2. QED BY <2>1, OtherStream
<1>5. ASSUME NEW v \in Viewers, Connect(v) \/ Join(v) \/ AcceptFails(v) \/ Close(v) \/ Leave(v)
      PROVE  StreamInv'
  <2>1. UNCHANGED <<publisherVars, requests, log, restarts, handlers>>
    BY <1>5 DEF Connect, Join, AcceptFails, Close, Leave
  <2>2. QED BY <2>1, OtherStream
<1>6. CASE Restart
  BY <1>6, RestartStream
<1>7. CASE UNCHANGED liveVars
  BY <1>7, OtherStream DEF liveVars
<1>8. QED
  BY <1>1, <1>2, <1>3, <1>4, <1>5, <1>6, <1>7 DEF LiveNext

\* StreamInv holds in every reachable state.
LEMMA StreamInvariance == LiveSpec => []StreamInv
BY StreamInitInv, StreamStepInv, PTL DEF LiveSpec

\* What the server took up of a stream has no holes, and while publishing is on it is all
\* of it: for any number of streams and events, time-outs, lost posts and restarts.
THEOREM NoGap == LiveSpec => []NoSilentGap
<1>1. StreamInv => NoSilentGap
  <2> SUFFICES ASSUME StreamInv, NEW p \in Publishers
               PROVE  LET seen == {i \in 1..MaxEvents : <<p, i>> \in SeqRange(log)}
                      IN  /\ \A i, j \in seen : \A k \in i..j : k \in seen
                          /\ restarts = 0 /\ ~disabled[p] =>
                               seen \cup (IF waiting[p] THEN {emitted[p]} ELSE {}) = 1..emitted[p]
    BY DEF NoSilentGap
  <2> DEFINE seen == {i \in 1..MaxEvents : <<p, i>> \in SeqRange(log)}
  <2>1. Fresh(p) /\ InTurn(p) /\ Current(p) /\ MaxEvents \in Nat /\ emitted[p] \in 0..MaxEvents
    BY LiveAssumption DEF StreamInv, StreamTypeOK
  <2>2. \A i : i \in seen <=> i \in Number /\ Seen(p, i)
    BY DEF Seen, Taken, Number
  <2> HIDE DEF seen
  <2>3. \A i, j \in seen : \A k \in i..j : k \in seen
    BY <2>1, <2>2 DEF InTurn, Number
  <2>4. ASSUME restarts = 0, ~disabled[p]
        PROVE  seen \cup (IF waiting[p] THEN {emitted[p]} ELSE {}) = 1..emitted[p]
    <3>1. \A i \in 1..emitted[p] : i \in seen \/ (waiting[p] /\ i = emitted[p])
      BY <2>1, <2>2, <2>4 DEF Current, Number
    <3>2. \A i \in seen : i \in 1..emitted[p]
      BY <2>1, <2>2 DEF Fresh, Number
    <3>3. waiting[p] => emitted[p] \in 1..emitted[p]
      BY <2>1 DEF Fresh
    <3>4. QED BY <3>1, <3>2, <3>3
  <2>5. QED BY <2>3, <2>4 DEF seen
<1>2. QED BY <1>1, StreamInvariance, PTL
-----------------------------------------------------------------------------
(* The viewers.                                                             *)

\* Where the last k of n elements begin.
First(n, k) == IF n > k THEN n - k + 1 ELSE 1

\* What the last k of n elements are, from the place f on.
LEMMA LastOfFacts ==
  ASSUME NEW S, NEW s \in Seq(S), NEW k \in Nat \ {0}, NEW n, n = Len(s), NEW f, f = First(n, k)
  PROVE  /\ LastOf(s, k) \in Seq(S)
         /\ Len(LastOf(s, k)) = n - f + 1
         /\ \A i \in 1..(n - f + 1) : LastOf(s, k)[i] = s[f + i - 1]
<1>1. n \in Nat /\ \A i \in 1..n : s[i] \in S
  BY LenProperties, ElementOfSeq
<1>2. f \in 1..(n + 1) /\ f \in Int /\ n \in Int
  BY <1>1 DEF First
<1>3. LastOf(s, k) = SubSeq(s, f, n)
  BY DEF LastOf, First
<1>4. \A i \in f..n : s[i] \in S
  BY <1>1, <1>2
<1>5. /\ SubSeq(s, f, n) \in Seq(S)
      /\ Len(SubSeq(s, f, n)) = IF f <= n THEN n - f + 1 ELSE 0
      /\ \A i \in 1..(n - f + 1) : SubSeq(s, f, n)[i] = s[f + i - 1]
  BY <1>2, <1>4, SubSeqProperties
<1>6. (IF f <= n THEN n - f + 1 ELSE 0) = n - f + 1
  BY <1>1, <1>2
<1>7. QED BY <1>3, <1>5, <1>6

\* The last of the last elements and one more are the last of all and one more.
LEMMA LastOfAppend ==
  ASSUME NEW S, NEW s \in Seq(S), NEW k \in Nat \ {0}, NEW x \in S
  PROVE  LastOf(Append(LastOf(s, k), x), k) = LastOf(Append(s, x), k)
<1> DEFINE n == Len(s)
           f == First(n, k)
           m == n - f + 1
           short == Append(LastOf(s, k), x)
           long == Append(s, x)
           fs == First(m + 1, k)
           fl == First(n + 1, k)
           len == (m + 1) - fs + 1
<1>1. n \in Nat /\ f \in 1..(n + 1)
  BY LenProperties DEF First
<1>2. m \in Nat /\ f + m = n + 1
  BY <1>1
<1>3. fs \in 1..(m + 1) /\ fl = f + fs - 1 /\ len = (n + 1) - fl + 1
  <2>1. fs = IF m + 1 > k THEN m + 1 - k + 1 ELSE 1
    BY DEF First
  <2>2. fl = IF n + 1 > k THEN n + 1 - k + 1 ELSE 1
    BY DEF First
  <2>3. f = IF n > k THEN n - k + 1 ELSE 1
    BY DEF First
  <2> HIDE DEF fs, fl, n, f
  <2>4. QED BY <1>1, <2>1, <2>2, <2>3
<1> HIDE DEF n, f, m
<1>4. /\ LastOf(s, k) \in Seq(S) /\ Len(LastOf(s, k)) = m
      /\ \A i \in 1..m : LastOf(s, k)[i] = s[f + i - 1]
  BY LastOfFacts DEF n, f, m
<1>5. /\ long \in Seq(S) /\ Len(long) = n + 1 /\ long[n + 1] = x
      /\ \A i \in 1..n : long[i] = s[i]
  BY AppendProperties DEF n
<1>6. /\ short \in Seq(S) /\ Len(short) = m + 1 /\ short[m + 1] = x
      /\ \A i \in 1..m : short[i] = LastOf(s, k)[i]
  BY <1>4, AppendProperties
<1> HIDE DEF short, long, fs, fl, len
<1>7. ASSUME NEW i \in 1..(m + 1) PROVE short[i] = long[f + i - 1]
  <2>1. CASE i = m + 1
    BY <1>1, <1>2, <1>5, <1>6, <2>1, SMTT(30)
  <2>2. CASE i # m + 1
    <3>1. i \in 1..m /\ f + i - 1 \in 1..n
      BY <1>1, <1>2, <2>2
    <3>2. QED BY <1>4, <1>5, <1>6, <3>1
  <2>3. QED BY <2>1, <2>2
<1>8. /\ LastOf(short, k) \in Seq(S)
      /\ Len(LastOf(short, k)) = len
      /\ \A i \in 1..len : LastOf(short, k)[i] = short[fs + i - 1]
  BY <1>6, LastOfFacts DEF fs, len
<1>9. /\ LastOf(long, k) \in Seq(S)
      /\ Len(LastOf(long, k)) = len
      /\ \A i \in 1..len : LastOf(long, k)[i] = long[fl + i - 1]
  BY <1>3, <1>5, LastOfFacts DEF fl
<1>10. ASSUME NEW i \in 1..len PROVE LastOf(short, k)[i] = LastOf(long, k)[i]
  <2>1. fs + i - 1 \in 1..(m + 1) /\ f + (fs + i - 1) - 1 = fl + i - 1
    BY <1>1, <1>2, <1>3 DEF len
  <2>2. QED BY <1>7, <1>8, <1>9, <2>1
<1>11. LastOf(short, k) = LastOf(long, k)
  BY <1>8, <1>9, <1>10, SeqEqual
<1>12. QED BY <1>11 DEF short, long

\* A sequence without repetitions has as many elements as places.
LEMMA InjectiveRange ==
  ASSUME NEW S, NEW s \in Seq(S),
         \A i, j \in DOMAIN s : s[i] = s[j] => i = j
  PROVE  IsFiniteSet(SeqRange(s)) /\ Cardinality(SeqRange(s)) = Len(s)
<1>1. Len(s) \in Nat /\ DOMAIN s = 1..Len(s) /\ s \in [1..Len(s) -> S]
  BY LenProperties
<1>2. s \in [1..Len(s) -> SeqRange(s)]
  BY <1>1 DEF SeqRange
<1>3. IsFiniteSet(1..Len(s)) /\ Cardinality(1..Len(s)) = Len(s)
  BY <1>1, FS_Interval
<1>4. s \in Injection(1..Len(s), SeqRange(s))
  BY <1>1, <1>2 DEF Injection, IsInjective
<1>5. s \in Surjection(1..Len(s), SeqRange(s))
  BY <1>1, <1>2 DEF Surjection, SeqRange
<1>6. QED
  BY <1>3, <1>4, <1>5, FS_Surjection

\* The facts about the log the viewers' side needs, as types.
LEMMA TakenFacts ==
  ASSUME StreamInv, ServerInv
  PROVE  /\ log \in Seq(Event) /\ Len(log) \in Nat /\ DOMAIN log = 1..Len(log)
         /\ Taken \subseteq Event /\ IsFiniteSet(Taken)
         /\ DOMAIN handlers \subseteq Taken
<1>1. log \in Seq(Event) /\ DOMAIN handlers \subseteq Taken
  BY DEF StreamInv, StreamTypeOK
<1>2. Len(log) \in Nat /\ DOMAIN log = 1..Len(log) /\ log \in [1..Len(log) -> Event]
  BY <1>1, LenProperties
<1>3. Taken \subseteq Event
  BY <1>2 DEF Taken, SeqRange
<1>4. IsFiniteSet(Taken)
  BY <1>1, InjectiveRange DEF Taken, ServerInv
<1>5. QED BY <1>1, <1>2, <1>3, <1>4

\* Both are parts of what was taken up.
LEMMA OwedDueFinite ==
  ASSUME StreamInv, ServerInv, NEW v, joined[v] \in Nat, joined[v] <= Len(log)
  PROVE  Due(v) \subseteq Taken /\ IsFiniteSet(Due(v)) /\ IsFiniteSet(Owed(v))
<1> DEFINE from == joined[v] - (IF joined[v] < MaxLen THEN joined[v] ELSE MaxLen) + 1
<1>1. from \in Nat \ {0}
  BY LiveAssumption
<1>2. Due(v) = {log[i] : i \in from..Len(log)}
  BY DEF Due
<1> HIDE DEF from
<1>3. Due(v) \subseteq Taken
  BY <1>1, <1>2, TakenFacts DEF Taken, SeqRange
<1>4. Owed(v) \subseteq Taken
  BY TakenFacts DEF Owed
<1>5. QED
  BY <1>3, <1>4, TakenFacts, FS_Subset

\* Every event taken up becomes due to who has joined.
LEMMA DueGrows ==
  ASSUME NEW e \in Event, NEW v, log \in Seq(Event), log' = Append(log, e),
         joined'[v] = joined[v], joined[v] \in Nat, joined[v] <= Len(log)
  PROVE  Due(v)' = Due(v) \cup {e}
<1> DEFINE from == joined[v] - (IF joined[v] < MaxLen THEN joined[v] ELSE MaxLen) + 1
<1>1. Len(log) \in Nat /\ from \in 1..(Len(log) + 1)
  BY LenProperties, LiveAssumption
<1>2. /\ Len(log') = Len(log) + 1 /\ log'[Len(log) + 1] = e
      /\ \A i \in 1..Len(log) : log'[i] = log[i]
  BY AppendProperties
<1>3. Due(v) = {log[i] : i \in from..Len(log)}
  BY DEF Due
<1>4. Due(v)' = {log'[i] : i \in from..(Len(log) + 1)}
  BY <1>2 DEF Due
<1> HIDE DEF from
<1>5. Due(v)' \subseteq Due(v) \cup {e}
  BY <1>1, <1>2, <1>3, <1>4
<1>6. Due(v) \subseteq Due(v)'
  BY <1>1, <1>2, <1>3, <1>4
<1>7. e \in Due(v)'
  BY <1>1, <1>2, <1>4
<1>8. QED BY <1>5, <1>6, <1>7

\* Nothing that concerns a viewer changes, unless it closes its end.
LEMMA SameViewer ==
  ASSUME NEW v, Told(v), session'[v] = session[v], joined'[v] = joined[v],
         inbox'[v] = inbox[v], log' = log, Owed(v)' = Owed(v), v \notin closed' => v \notin closed,
         v \in clients /\ v \notin closed => v \in clients'
  PROVE  Told(v)'
<1>1. Due(v)' = Due(v)
  BY DEF Due
<1>2. QED
  BY <1>1 DEF Told

\* At the start there are no viewers.
LEMMA ViewersInitInv == LiveInit => ServerInv /\ ViewerInv
<1> SUFFICES ASSUME LiveInit PROVE ServerInv /\ ViewerInv
  OBVIOUS
<1>1. << >> \in Seq(Event) /\ Len(<< >>) = 0
  BY EmptySeq
<1>2. ServerInv
  <2>1. DOMAIN << >> = {}
    OBVIOUS
  <2>2. LastOf(<< >>, MaxLen) = << >>
    BY <1>1, LiveAssumption DEF LastOf
  <2>3. QED BY <2>1, <2>2 DEF ServerInv, LiveInit
<1>3. ViewerTypeOK
  BY <1>1 DEF ViewerTypeOK, LiveInit
<1>4. ASSUME NEW v \in Viewers PROVE Untold(v) /\ Told(v)
  BY DEF LiveInit, Untold, Told
<1>5. QED BY <1>2, <1>3, <1>4 DEF ViewerInv

\* An event taken up is owed to every viewer that is connected.
LEMMA IngestViewers ==
  ASSUME LiveInv, NEW e \in requests, Ingest(e)
  PROVE  ServerInv' /\ ViewerInv'
<1>1. StreamInv /\ ServerInv /\ ViewerInv
  BY DEF LiveInv
<1>2. /\ log' = Append(log, e)
      /\ recent_events' = LastOf(Append(recent_events, e), MaxLen)
      /\ handlers' = [x \in DOMAIN handlers \cup {e} |->
                        IF x = e THEN [left |-> clients, disconnected |-> {}] ELSE handlers[x]]
      /\ UNCHANGED <<clients, session, closed, inbox, joined>>
  BY DEF Ingest, Broadcasting, viewerVars
<1>3. e \in Event /\ e \notin Taken
  <2>1. e \in Event
    BY <1>1 DEF StreamInv, StreamTypeOK
  <2>2. e[1] \in Publishers /\ e[2] \in Number /\ e = <<e[1], e[2]>>
    BY <2>1 DEF Event, Number
  <2>3. QED BY <1>1, <2>1, <2>2 DEF StreamInv, Fresh, Posted, Seen
<1>4. /\ log \in Seq(Event) /\ Len(log) \in Nat /\ DOMAIN log = 1..Len(log)
      /\ DOMAIN handlers \subseteq Taken
  BY <1>1, TakenFacts
<1>5. /\ Len(log') = Len(log) + 1 /\ log'[Len(log) + 1] = e /\ DOMAIN log' = 1..(Len(log) + 1)
      /\ \A i \in 1..Len(log) : log'[i] = log[i]
  BY <1>2, <1>3, <1>4, AppendProperties, LenProperties
<1>6. ServerInv'
  <2>1. \A i, j \in DOMAIN log' : log'[i] = log'[j] => i = j
    <3>1. \A i \in 1..Len(log) : log[i] # e
      BY <1>3, <1>4 DEF Taken, SeqRange
    <3>2. QED BY <1>1, <1>4, <1>5, <3>1 DEF ServerInv
  <2>2. recent_events' = LastOf(log', MaxLen)
    BY <1>1, <1>2, <1>3, <1>4, LastOfAppend, LiveAssumption DEF ServerInv
  <2>3. \A x \in DOMAIN handlers' : handlers'[x].disconnected \subseteq closed'
    BY <1>1, <1>2 DEF ServerInv
  <2>4. QED BY <2>1, <2>2, <2>3 DEF ServerInv
<1>7. ViewerTypeOK'
  BY <1>1, <1>2 DEF ViewerInv, ViewerTypeOK
<1>8. ASSUME NEW v \in Viewers PROVE Untold(v)' /\ Told(v)'
  <2>1. Untold(v) /\ Told(v) /\ joined[v] \in Nat /\ inbox[v] \in Seq(Event)
    BY <1>1 DEF ViewerInv, ViewerTypeOK
  <2>2. Untold(v)'
    BY <1>2, <2>1 DEF Untold
  <2>3. ASSUME session[v] = "serving", v \notin closed PROVE Told(v)'
    <3>1. /\ joined[v] <= Len(log) /\ v \in clients
          /\ SeqRange(inbox[v]) \cup Owed(v) = Due(v)
          /\ Len(inbox[v]) + Cardinality(Owed(v)) = Cardinality(Due(v))
      BY <2>1, <2>3 DEF Told
    <3>2. Due(v)' = Due(v) \cup {e}
      BY <1>2, <1>3, <1>4, <2>1, <3>1, DueGrows
    <3>3. Owed(v)' = Owed(v) \cup {e}
      BY <1>2, <1>3, <1>4, <3>1 DEF Owed
    <3>4. Due(v) \subseteq Taken /\ IsFiniteSet(Due(v)) /\ IsFiniteSet(Owed(v))
      BY <1>1, <2>1, <3>1, OwedDueFinite
    <3>5. e \notin Due(v) /\ e \notin Owed(v)
      BY <1>3, <1>4, <3>4 DEF Owed
    <3>6. /\ Cardinality(Due(v)') = Cardinality(Due(v)) + 1
          /\ Cardinality(Owed(v)') = Cardinality(Owed(v)) + 1
          /\ Cardinality(Owed(v)) \in Nat /\ Cardinality(Due(v)) \in Nat
      BY <3>2, <3>3, <3>4, <3>5, FS_AddElement, FS_CardinalityType, Zenon
    <3>7. Len(inbox[v]) \in Nat
      BY <2>1, LenProperties
    <3>8. Len(inbox'[v]) + Cardinality(Owed(v)') = Cardinality(Due(v)')
      BY <1>2, <3>1, <3>6, <3>7
    <3>9. SeqRange(inbox'[v]) \cup Owed(v)' = Due(v)'
      BY <1>2, <3>1, <3>2, <3>3
    <3>10. QED
      BY <1>2, <1>4, <1>5, <2>1, <3>1, <3>8, <3>9 DEF Told
  <2>4. QED BY <1>2, <2>2, <2>3 DEF Told
<1>9. QED
  BY <1>6, <1>7, <1>8 DEF ViewerInv

\* A viewer's message moves from what it is owed to what it was sent.
LEMMA SendViewers ==
  ASSUME LiveInv, NEW e \in DOMAIN handlers, NEW v \in Viewers, Send(e, v)
  PROVE  ServerInv' /\ ViewerInv'
<1>1. StreamInv /\ ServerInv /\ ViewerInv
  BY DEF LiveInv
<1>2. /\ v \in handlers[e].left /\ v \notin closed
      /\ inbox' = [inbox EXCEPT ![v] = Append(inbox[v], e)]
      /\ handlers' = [x \in DOMAIN handlers |->
                        IF x = e THEN [left |-> handlers[e].left \ {v},
                                       disconnected |-> handlers[e].disconnected]
                        ELSE handlers[x]]
      /\ UNCHANGED <<recent_events, clients, session, closed, joined, log>>
  BY DEF Send, Broadcasting
<1>3. e \in Event
  BY <1>1, TakenFacts
<1>4. ServerInv'
  BY <1>1, <1>2 DEF ServerInv
<1>5. ViewerTypeOK'
  <2>1. Append(inbox[v], e) \in Seq(Event)
    BY <1>1, <1>3, AppendProperties DEF ViewerInv, ViewerTypeOK
  <2>2. QED BY <1>1, <1>2, <2>1 DEF ViewerInv, ViewerTypeOK
<1>6. ASSUME NEW w \in Viewers PROVE Untold(w)' /\ Told(w)'
  <2>1. Untold(w) /\ Told(w) /\ joined[w] \in Nat /\ inbox[w] \in Seq(Event)
    BY <1>1 DEF ViewerInv, ViewerTypeOK
  <2>2. Untold(w)'
    BY <1>2, <2>1 DEF Untold
  <2>3. CASE w # v
    <3>1. inbox'[w] = inbox[w]
      BY <1>1, <1>2, <2>3 DEF ViewerInv, ViewerTypeOK
    <3>2. Owed(w)' = Owed(w)
      BY <1>2, <2>3 DEF Owed
    <3>3. QED BY <1>2, <2>1, <2>2, <3>1, <3>2, SameViewer
  <2>4. CASE w = v /\ session[v] = "serving"
    <3>1. /\ joined[v] <= Len(log) /\ v \in clients
          /\ SeqRange(inbox[v]) \cup Owed(v) = Due(v)
          /\ Len(inbox[v]) + Cardinality(Owed(v)) = Cardinality(Due(v))
      BY <1>2, <2>1, <2>4 DEF Told
    <3>2. IsFiniteSet(Due(v)) /\ IsFiniteSet(Owed(v))
      BY <1>1, <2>1, <2>4, <3>1, OwedDueFinite
    <3>3. Owed(v)' = Owed(v) \ {e} /\ e \in Owed(v)
      BY <1>2 DEF Owed
    <3>4. /\ Cardinality(Owed(v)') = Cardinality(Owed(v)) - 1
          /\ Cardinality(Owed(v)) \in Nat /\ Cardinality(Due(v)) \in Nat
      BY <3>2, <3>3, FS_RemoveElement, FS_CardinalityType, Zenon
    <3>5. inbox'[v] = Append(inbox[v], e) /\ inbox[v] \in Seq(Event)
      BY <1>1, <1>2 DEF ViewerInv, ViewerTypeOK
    <3>6. /\ Len(inbox'[v]) = Len(inbox[v]) + 1 /\ Len(inbox[v]) \in Nat
          /\ SeqRange(inbox'[v]) = SeqRange(inbox[v]) \cup {e}
      BY <1>3, <3>5, AppendRange, LenProperties
    <3>7. Due(v)' = Due(v)
      BY <1>2 DEF Due
    <3>8. SeqRange(inbox'[v]) \cup Owed(v)' = Due(v)'
      BY <3>1, <3>3, <3>6, <3>7
    <3>9. Len(inbox'[v]) + Cardinality(Owed(v)') = Cardinality(Due(v)')
      BY <3>1, <3>4, <3>6, <3>7
    <3>10. Told(v)'
      BY <1>2, <3>1, <3>8, <3>9 DEF Told
    <3>11. QED BY <2>2, <2>4, <3>10
  <2>5. CASE session[w] # "serving"
    BY <1>2, <2>2, <2>5 DEF Told
  <2>6. QED BY <2>3, <2>4, <2>5
<1>7. QED
  BY <1>4, <1>5, <1>6 DEF ViewerInv

\* A send that fails is one to a viewer that has closed its end.
LEMMA SendFailsViewers ==
  ASSUME LiveInv, NEW e \in DOMAIN handlers, NEW v \in Viewers, SendFails(e, v)
  PROVE  ServerInv' /\ ViewerInv'
<1>1. StreamInv /\ ServerInv /\ ViewerInv
  BY DEF LiveInv
<1>2. PICK noticed \in {{}, {v}} :
        handlers' = [x \in DOMAIN handlers |->
                      IF x = e THEN [left |-> handlers[e].left \ {v},
                                     disconnected |-> handlers[e].disconnected \cup noticed]
                      ELSE handlers[x]]
  BY DEF SendFails, Broadcasting, LeftAfterFailure
<1>3. v \in closed /\ UNCHANGED <<inbox, recent_events, clients, session, closed, joined, log>>
  BY DEF SendFails, viewerVars
<1>4. ServerInv'
  <2>1. \A x \in DOMAIN handlers' : handlers'[x].disconnected \subseteq closed'
    BY <1>1, <1>2, <1>3 DEF ServerInv
  <2>2. QED BY <1>1, <1>3, <2>1 DEF ServerInv
<1>5. ViewerTypeOK'
  BY <1>1, <1>3 DEF ViewerInv, ViewerTypeOK
<1>6. ASSUME NEW w \in Viewers PROVE Untold(w)' /\ Told(w)'
  <2>1. Untold(w) /\ Told(w)
    BY <1>1 DEF ViewerInv
  <2>2. Untold(w)'
    BY <1>2, <1>3, <2>1 DEF Untold
  <2>3. w # v => Owed(w)' = Owed(w)
    BY <1>2 DEF Owed
  <2>4. w # v => Told(w)'
    BY <1>3, <2>1, <2>3, SameViewer
  <2>5. w = v => Told(w)'
    BY <1>3 DEF Told
  <2>6. QED BY <2>2, <2>4, <2>5
<1>7. QED
  BY <1>4, <1>5, <1>6 DEF ViewerInv

\* A broadcast that is over owes nothing, and forgets only viewers that are gone.
LEMMA AnswerViewers ==
  ASSUME LiveInv, NEW e \in DOMAIN handlers, Answer(e)
  PROVE  ServerInv' /\ ViewerInv'
<1>1. ServerInv /\ ViewerInv
  BY DEF LiveInv
<1>2. /\ handlers[e].left = {}
      /\ clients' = clients \ handlers[e].disconnected
      /\ handlers' = [x \in DOMAIN handlers \ {e} |-> handlers[x]]
      /\ UNCHANGED <<inbox, recent_events, session, closed, joined, log>>
  BY DEF Answer, Without, viewerVars
<1>3. handlers[e].disconnected \subseteq closed
  BY <1>1 DEF ServerInv
<1>4. ServerInv'
  <2>1. \A x \in DOMAIN handlers' : handlers'[x].disconnected \subseteq closed'
    BY <1>1, <1>2 DEF ServerInv
  <2>2. QED BY <1>1, <1>2, <2>1 DEF ServerInv
<1>5. ViewerTypeOK'
  BY <1>1, <1>2 DEF ViewerInv, ViewerTypeOK
<1>6. ASSUME NEW v \in Viewers PROVE Untold(v)' /\ Told(v)'
  <2>1. Untold(v) /\ Told(v)
    BY <1>1 DEF ViewerInv
  <2>2. Untold(v)'
    BY <1>2, <2>1 DEF Untold
  <2>3. Owed(v)' = Owed(v)
    BY <1>2 DEF Owed
  <2>4. Told(v)'
    BY <1>2, <1>3, <2>1, <2>3, SameViewer
  <2>5. QED BY <2>2, <2>4
<1>7. QED
  BY <1>4, <1>5, <1>6 DEF ViewerInv

\* What is remembered is all that is due to who joins now.
LEMMA JoinDue ==
  ASSUME StreamInv, ServerInv, NEW v, log' = log, joined'[v] = Len(log)
  PROVE  /\ recent_events \in Seq(Event)
         /\ SeqRange(recent_events) = Due(v)'
         /\ Cardinality(Due(v)') = Len(recent_events)
<1> DEFINE n == Len(log)
           f == First(n, MaxLen)
<1>1. /\ log \in Seq(Event) /\ n \in Nat /\ DOMAIN log = 1..n
      /\ MaxLen \in Nat \ {0} /\ recent_events = LastOf(log, MaxLen)
  BY TakenFacts, LiveAssumption DEF ServerInv
<1>2. f \in 1..(n + 1) /\ n - (IF n < MaxLen THEN n ELSE MaxLen) + 1 = f
  <2>1. f = IF n > MaxLen THEN n - MaxLen + 1 ELSE 1
    BY DEF First
  <2> HIDE DEF n, f
  <2>2. QED BY <1>1, <2>1
<1>3. /\ recent_events \in Seq(Event)
      /\ Len(recent_events) = n - f + 1
      /\ \A i \in 1..(n - f + 1) : recent_events[i] = log[f + i - 1]
  <2> HIDE DEF n, f
  <2>1. QED BY <1>1, LastOfFacts DEF n, f
<1>4. Due(v)' = {log[i] : i \in f..n}
  <2>1. Due(v)' = {log[i] : i \in (n - (IF n < MaxLen THEN n ELSE MaxLen) + 1)..n}
    BY DEF Due
  <2> HIDE DEF n, f
  <2>2. QED BY <1>2, <2>1
<1> HIDE DEF n, f
<1>5. DOMAIN recent_events = 1..(n - f + 1)
  BY <1>3, LenProperties
<1>6. SeqRange(recent_events) = {log[i] : i \in f..n}
  <2>1. ASSUME NEW i \in 1..(n - f + 1) PROVE recent_events[i] \in {log[j] : j \in f..n}
    BY <1>1, <1>2, <1>3
  <2>2. ASSUME NEW j \in f..n PROVE log[j] \in SeqRange(recent_events)
    <3>1. j - f + 1 \in 1..(n - f + 1) /\ f + (j - f + 1) - 1 = j
      BY <1>1, <1>2
    <3>2. log[j] = recent_events[j - f + 1]
      BY <1>3, <3>1
    <3>3. QED BY <1>5, <3>1, <3>2 DEF SeqRange
  <2>3. QED BY <1>5, <2>1, <2>2 DEF SeqRange
<1>7. \A i, j \in DOMAIN recent_events : recent_events[i] = recent_events[j] => i = j
  <2>1. ASSUME NEW i \in 1..(n - f + 1), NEW j \in 1..(n - f + 1),
               recent_events[i] = recent_events[j]
        PROVE  i = j
    <3>1. f + i - 1 \in 1..n /\ f + j - 1 \in 1..n /\ log[f + i - 1] = log[f + j - 1]
      BY <1>1, <1>2, <1>3, <2>1
    <3>2. f + i - 1 = f + j - 1
      BY <1>1, <3>1 DEF ServerInv
    <3>3. QED BY <1>1, <1>2, <3>2
  <2>2. QED BY <1>5, <2>1
<1>8. Cardinality(SeqRange(recent_events)) = Len(recent_events)
  BY <1>3, <1>7, InjectiveRange
<1>9. QED BY <1>3, <1>4, <1>6, <1>8

\* Who joins is sent all that is due to it and is owed nothing.
LEMMA JoinViewers ==
  ASSUME LiveInv, NEW v \in Viewers, Join(v)
  PROVE  ServerInv' /\ ViewerInv'
<1>1. StreamInv /\ ServerInv /\ ViewerInv
  BY DEF LiveInv
<1>2. /\ session[v] = "accepting" /\ v \notin closed
      /\ session' = [session EXCEPT ![v] = "serving"]
      /\ clients' = clients \cup {v}
      /\ inbox' = [inbox EXCEPT ![v] = recent_events]
      /\ joined' = [joined EXCEPT ![v] = Len(log)]
      /\ UNCHANGED <<recent_events, handlers, closed, log>>
  BY DEF Join
<1>3. ViewerTypeOK /\ log \in Seq(Event) /\ Len(log) \in Nat
  BY <1>1, TakenFacts DEF ViewerInv
<1>4. joined'[v] = Len(log) /\ inbox'[v] = recent_events /\ session'[v] = "serving"
  BY <1>2, <1>3 DEF ViewerTypeOK
<1>5. /\ recent_events \in Seq(Event)
      /\ SeqRange(recent_events) = Due(v)'
      /\ Cardinality(Due(v)') = Len(recent_events)
  BY <1>1, <1>2, <1>4, JoinDue
<1>6. ServerInv'
  BY <1>1, <1>2 DEF ServerInv
<1>7. ViewerTypeOK'
  BY <1>2, <1>3, <1>5 DEF ViewerTypeOK
<1>8. ASSUME NEW w \in Viewers PROVE Untold(w)' /\ Told(w)'
  <2>1. Untold(w) /\ Told(w)
    BY <1>1 DEF ViewerInv
  <2>2. Owed(w)' = Owed(w)
    BY <1>2 DEF Owed
  <2>3. CASE w # v
    <3>1. session'[w] = session[w] /\ inbox'[w] = inbox[w] /\ joined'[w] = joined[w]
      BY <1>2, <1>3, <2>3 DEF ViewerTypeOK
    <3>2. Untold(w)'
      BY <1>2, <2>1, <2>3, <3>1 DEF Untold
    <3>3. QED BY <1>2, <2>1, <2>2, <3>1, <3>2, SameViewer
  <2>4. CASE w = v
    <3>1. Owed(v)' = {}
      BY <1>2, <2>1, <2>2, <2>4 DEF Untold, Owed
    <3>2. SeqRange(inbox'[v]) \cup Owed(v)' = Due(v)'
      BY <1>4, <1>5, <3>1
    <3>3. Len(inbox'[v]) + Cardinality(Owed(v)') = Cardinality(Due(v)')
      <4>1. Cardinality(Owed(v)') = 0
        BY <3>1, FS_EmptySet
      <4>2. Len(recent_events) \in Nat
        BY <1>5, LenProperties
      <4>3. QED BY <1>4, <1>5, <4>1, <4>2
    <3>4. Told(v)'
      BY <1>2, <1>3, <1>4, <3>2, <3>3 DEF Told
    <3>5. QED BY <1>4, <2>4, <3>4 DEF Untold
  <2>5. QED BY <2>3, <2>4
<1>9. QED
  BY <1>6, <1>7, <1>8 DEF ViewerInv

\* Connecting, closing and leaving change what no serving viewer relies on, and a viewer
\* that is not serving has never been a client.
LEMMA SessionViewers ==
  ASSUME LiveInv, NEW v \in Viewers,
         Connect(v) \/ AcceptFails(v) \/ Close(v) \/ Leave(v)
  PROVE  ServerInv' /\ ViewerInv'
<1>1. ServerInv /\ ViewerInv /\ ViewerTypeOK
  BY DEF LiveInv, ViewerInv
<1>2. UNCHANGED <<recent_events, handlers, inbox, joined, log>>
  BY DEF Connect, AcceptFails, Close, Leave
<1>3. /\ closed \subseteq closed'
      /\ session' \in [Viewers -> {"none", "accepting", "serving", "over"}]
      /\ clients' \subseteq clients
      /\ \A w \in Viewers :
           /\ session'[w] \in {"none", "accepting"} => session[w] \in {"none", "accepting"}
           /\ session'[w] = "serving" => session[w] = "serving"
           /\ w # v => session'[w] = session[w] /\ (w \in clients => w \in clients')
           /\ session'[v] = "serving" => v \in closed' \/ v \in clients'
  <2>1. CASE Connect(v)
    BY <1>1, <2>1 DEF Connect, ViewerTypeOK
  <2>2. CASE AcceptFails(v)
    BY <1>1, <2>2 DEF AcceptFails, ViewerTypeOK
  <2>3. CASE Close(v)
    BY <1>1, <2>3 DEF Close, ViewerTypeOK
  <2>4. CASE Leave(v)
    BY <1>1, <2>4 DEF Leave, Without, ViewerTypeOK
  <2>5. QED BY <2>1, <2>2, <2>3, <2>4
<1>4. ServerInv'
  BY <1>1, <1>2, <1>3 DEF ServerInv
<1>5. ViewerTypeOK'
  BY <1>1, <1>2, <1>3 DEF ViewerTypeOK
<1>6. ASSUME NEW w \in Viewers PROVE Untold(w)' /\ Told(w)'
  <2>1. Untold(w) /\ Told(w)
    BY <1>1 DEF ViewerInv
  <2>2. Untold(w)'
    BY <1>2, <1>3, <2>1 DEF Untold
  <2>3. Owed(w)' = Owed(w) /\ Due(w)' = Due(w)
    BY <1>2 DEF Owed, Due
  <2>4. Told(w)'
    BY <1>2, <1>3, <2>1, <2>3 DEF Told
  <2>5. QED BY <2>2, <2>4
<1>7. QED
  BY <1>4, <1>5, <1>6 DEF ViewerInv

\* After a restart nobody is served, and the viewers yet to come start with nothing.
LEMMA RestartViewers ==
  ASSUME LiveInv, Restart
  PROVE  ServerInv' /\ ViewerInv'
<1>1. ViewerTypeOK
  BY DEF LiveInv, ViewerInv
<1>2. /\ recent_events' = << >> /\ handlers' = << >> /\ clients' = {} /\ log' = << >>
      /\ session' = [v \in Viewers |-> IF session[v] = "none" THEN "none" ELSE "over"]
      /\ UNCHANGED <<inbox, joined>>
  BY DEF Restart
<1>3. << >> \in Seq(Event) /\ Len(<< >>) = 0 /\ DOMAIN << >> = {}
  BY EmptySeq
<1>4. ServerInv'
  <2>1. LastOf(<< >>, MaxLen) = << >>
    BY <1>3, LiveAssumption DEF LastOf
  <2>2. QED BY <1>2, <1>3, <2>1 DEF ServerInv
<1>5. ViewerTypeOK'
  BY <1>1, <1>2 DEF ViewerTypeOK
<1>6. ASSUME NEW v \in Viewers PROVE Untold(v)' /\ Told(v)'
  BY <1>2, <1>3 DEF Untold, Told
<1>7. QED
  BY <1>4, <1>5, <1>6 DEF ViewerInv

\* The publishers do not touch the viewers' side.
LEMMA OtherViewers ==
  ASSUME LiveInv, UNCHANGED <<recent_events, handlers, clients, viewerVars, log>>
  PROVE  ServerInv' /\ ViewerInv'
<1>1. ServerInv /\ ViewerInv
  BY DEF LiveInv
<1>2. ServerInv' /\ ViewerTypeOK'
  BY <1>1 DEF ServerInv, ViewerInv, ViewerTypeOK, viewerVars
<1>3. ASSUME NEW v \in Viewers PROVE Untold(v)' /\ Told(v)'
  <2>1. Untold(v) /\ Told(v)
    BY <1>1 DEF ViewerInv
  <2>2. Owed(v)' = Owed(v)
    BY DEF Owed
  <2>3. Told(v)'
    BY <2>1, <2>2, SameViewer DEF viewerVars
  <2>4. QED BY <2>1, <2>3 DEF Untold, viewerVars
<1>4. QED
  BY <1>2, <1>3 DEF ViewerInv

\* Every step keeps the whole invariant.
LEMMA LiveStepInv == LiveInv /\ [LiveNext]_liveVars => LiveInv'
<1> SUFFICES ASSUME LiveInv, [LiveNext]_liveVars PROVE LiveInv'
  OBVIOUS
<1>1. StreamInv'
  BY StreamStepInv DEF LiveInv
<1>2. ASSUME NEW p \in Publishers, Emit(p) \/ TimeOut(p) PROVE ServerInv' /\ ViewerInv'
  BY <1>2, OtherViewers DEF Emit, TimeOut
<1>3. ASSUME NEW e \in requests, LoseRequest(e) \/ Ingest(e) PROVE ServerInv' /\ ViewerInv'
  BY <1>3, IngestViewers, OtherViewers DEF LoseRequest
<1>4. ASSUME NEW e \in DOMAIN handlers, NEW v \in Viewers,
             Send(e, v) \/ SendFails(e, v)
      PROVE  ServerInv' /\ ViewerInv'
  BY <1>4, SendViewers, SendFailsViewers
<1>5. ASSUME NEW e \in DOMAIN handlers, Answer(e) PROVE ServerInv' /\ ViewerInv'
  BY <1>5, AnswerViewers
<1>6. ASSUME NEW v \in Viewers, Connect(v) \/ Join(v) \/ AcceptFails(v) \/ Close(v) \/ Leave(v)
      PROVE  ServerInv' /\ ViewerInv'
  BY <1>6, JoinViewers, SessionViewers
<1>7. ASSUME Restart PROVE ServerInv' /\ ViewerInv'
  BY <1>7, RestartViewers
<1>8. ASSUME UNCHANGED liveVars PROVE ServerInv' /\ ViewerInv'
  BY <1>8, OtherViewers DEF liveVars
<1>9. QED
  BY <1>1, <1>2, <1>3, <1>4, <1>5, <1>6, <1>7, <1>8 DEF LiveNext, LiveInv

\* A viewer that stays connected misses nothing and sees nothing twice, however many there
\* are and whatever interleaves with its sends.
THEOREM OnceEach == LiveSpec => []ExactlyOnce
<1>1. LiveInit => LiveInv
  BY StreamInitInv, ViewersInitInv DEF LiveInv
<1>2. LiveInv => ExactlyOnce
  BY DEF LiveInv, ViewerInv, Told, ExactlyOnce
<1>3. QED
  BY <1>1, <1>2, LiveStepInv, PTL DEF LiveSpec
=============================================================================
