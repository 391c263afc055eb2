------------------------------ MODULE Prototype ------------------------------
(***************************************************************************)
(* The transport prototype of docs/design/prototypes/broker-proto.mjs: an  *)
(* in-memory store whose every change is an event of a replayable log, and *)
(* the two transports that observe it.  A long poll hangs until its        *)
(* request is decided or its deadline passes; a stream replays the log     *)
(* after the client's Last-Event-ID and then follows it.                   *)
(*                                                                         *)
(* Node runs each handler to its next await, so a handler is one step; the *)
(* bodies it awaits are read before it looks at the store.  A posted       *)
(* verdict other than allow and deny is answered 400 and changes nothing.  *)
(***************************************************************************)
EXTENDS Naturals, Sequences, FiniteSets, SequencesExt, Selection

CONSTANTS
    CallerIds,    \* ids a plugin sends with its request
    Polls,        \* clients that long-poll
    Streams,      \* clients that follow the event stream
    MaxSeq,       \* bound: events ever emitted
    MaxDrops,     \* bound: connections of each stream that are lost
    MaxPings      \* bound: heartbeats waiting on one connection

ASSUME ProtoAssumption == /\ MaxSeq \in Nat /\ MaxDrops \in Nat
                          /\ CallerIds \cap Nat = {} /\ Polls \cap Streams = {}

VARIABLES
    requests,     \* ids the store knows
    decisions,    \* the verdict of every decided id
    log,          \* the events so far; an event's seq is its position
    bus,          \* who is subscribed to the store's emitter
    poll,         \* what each poll asks and what it was answered
    conn,         \* each stream's connection: open, and the bytes on it
    seen,         \* the events each stream's client has parsed
    drops         \* connections each stream has lost

protoVars == <<requests, decisions, log, bus, poll, conn, seen, drops>>

Verdicts == {"allow", "deny"}
Ids == CallerIds \cup 1..MaxSeq
None == "none"
NoId == 0
Ping == [seq |-> 0, type |-> "ping", id |-> 0]
Closed == [open |-> FALSE, wire |-> <<>>]

ProtoInit ==
    /\ requests = {} /\ decisions = [i \in {} |-> "allow"] /\ log = <<>> /\ bus = {}
    /\ poll = [p \in Polls |-> [id |-> NoId, answer |-> None]]
    /\ conn = [s \in Streams |-> Closed]
    /\ seen = [s \in Streams |-> <<>>]
    /\ drops = [s \in Streams |-> 0]

(* emit: number the event, log it, and hand it to every subscriber; an open *)
(* stream writes it on its connection (writeEvent).                         *)
emit(type, id) ==
    LET event == [seq |-> Len(log) + 1, type |-> type, id |-> id]
    IN  /\ event.seq <= MaxSeq
        /\ log' = Append(log, event)
        /\ conn' = [s \in Streams |-> IF s \in bus
                      THEN [conn[s] EXCEPT !.wire = Append(@, event)] ELSE conn[s]]

(* POST /api/plugin/requests: an id of the caller's, or the next seq.       *)
enqueue(sent) ==
    LET id == IF sent = NoId THEN Len(log) + 1 ELSE sent
    IN  /\ emit("added", id)
        /\ requests' = requests \cup {id}
        /\ UNCHANGED <<decisions, bus, poll, seen, drops>>

Enqueue == \E sent \in CallerIds \cup {NoId} : enqueue(sent)

(* POST .../decision: the first write wins, and its event releases the      *)
(* polls that wait for this id: each unsubscribes and is answered.          *)
decide(id, verdict) ==
    /\ id \notin DOMAIN decisions
    /\ LET released == {p \in Polls \cap bus : poll[p].id = id}
       IN  /\ poll' = [p \in Polls |-> IF p \in released
                         THEN [poll[p] EXCEPT !.answer = verdict] ELSE poll[p]]
           /\ bus' = bus \ released
    /\ decisions' = [i \in DOMAIN decisions \cup {id} |->
                        IF i = id THEN verdict ELSE decisions[i]]
    /\ emit("decided", id)
    /\ UNCHANGED <<requests, seen, drops>>

Decide == \E id \in CallerIds \cup requests, v \in Verdicts : decide(id, v)

(* Mutant: a poll for a decided id is told "pending" like any other.        *)
waitMissed(p, id) ==
    /\ p \notin bus /\ poll[p].answer \notin Verdicts
    /\ LET late == id \in DOMAIN decisions
       IN  /\ poll' = [poll EXCEPT ![p] = [id |-> id, answer |-> IF late THEN "pending" ELSE None]]
           /\ bus' = IF late THEN bus ELSE bus \cup {p}
    /\ UNCHANGED <<requests, decisions, log, conn, seen, drops>>

(* GET .../decision (waitForDecision): a decided id is answered at once,    *)
(* any other poll hangs on the emitter.                                     *)
waitForDecision(p, id) ==
    /\ p \notin bus /\ poll[p].answer \notin Verdicts
    /\ \/ /\ id \in DOMAIN decisions
          /\ poll' = [poll EXCEPT ![p] = [id |-> id, answer |-> decisions[id]]]
          /\ UNCHANGED bus
       \/ /\ id \notin DOMAIN decisions
          /\ poll' = [poll EXCEPT ![p] = [id |-> id, answer |-> None]]
          /\ bus' = bus \cup {p}
    /\ UNCHANGED <<requests, decisions, log, conn, seen, drops>>

(* A client that was told "pending" asks for the same id again.             *)
Poll(p) == \E id \in IF poll[p].id = NoId THEN CallerIds \cup requests
                                          ELSE {poll[p].id} :
              waitForDecision(p, id)

(* The deadline: the poll unsubscribes and is answered 202 pending.         *)
Deadline(p) ==
    /\ p \in bus
    /\ bus' = bus \ {p}
    /\ poll' = [poll EXCEPT ![p].answer = "pending"]
    /\ UNCHANGED <<requests, decisions, log, conn, seen, drops>>

(* Mutant: the boundary event is replayed again.                            *)
eventsFrom(lastSeq) == Pick(log, {i \in DOMAIN log : log[i].seq >= lastSeq})

(* eventsSince(lastSeq).                                                    *)
eventsSince(lastSeq) == Pick(log, {i \in DOMAIN log : log[i].seq > lastSeq})

lastEventId(s) == IF seen[s] = <<>> THEN 0 ELSE Last(seen[s]).seq

(* GET /api/events: replay what the client's Last-Event-ID says it missed,  *)
(* subscribe, and start the heartbeat.                                      *)
Events(s) ==
    /\ ~conn[s].open
    /\ conn' = [conn EXCEPT ![s] = [open |-> TRUE, wire |-> eventsSince(lastEventId(s))]]
    /\ bus' = bus \cup {s}
    /\ UNCHANGED <<requests, decisions, log, poll, seen, drops>>

(* The interval writes a comment frame.                                     *)
Heartbeat(s) ==
    /\ conn[s].open
    /\ Cardinality({i \in DOMAIN conn[s].wire : conn[s].wire[i] = Ping}) < MaxPings
    /\ conn' = [conn EXCEPT ![s].wire = Append(@, Ping)]
    /\ UNCHANGED <<requests, decisions, log, bus, poll, seen, drops>>

(* The client parses the next frame; it skips comments (openSse).           *)
Receive(s) ==
    /\ conn[s].open /\ conn[s].wire # <<>>
    /\ conn' = [conn EXCEPT ![s].wire = Tail(@)]
    /\ seen' = [seen EXCEPT ![s] = IF Head(conn[s].wire) = Ping THEN @
                                    ELSE Append(@, Head(conn[s].wire))]
    /\ UNCHANGED <<requests, decisions, log, bus, poll, drops>>

(* The connection closes with frames still on it: they are lost, the        *)
(* heartbeat stops and the handler unsubscribes.                            *)
Close(s) ==
    /\ conn[s].open /\ drops[s] < MaxDrops
    /\ conn' = [conn EXCEPT ![s] = Closed]
    /\ bus' = bus \ {s}
    /\ drops' = [drops EXCEPT ![s] = @ + 1]
    /\ UNCHANGED <<requests, decisions, log, poll, seen>>

ProtoNext ==
    \/ Enqueue
    \/ Decide
    \/ \E p \in Polls : Poll(p) \/ Deadline(p)
    \/ \E s \in Streams : Events(s) \/ Heartbeat(s) \/ Receive(s) \/ Close(s)

(* A client asks again after a "pending"; the deadline's timer fires.       *)
ProtoFairness == \A p \in Polls : WF_protoVars(Poll(p)) /\ WF_protoVars(Deadline(p))

ProtoSpec == ProtoInit /\ [][ProtoNext]_protoVars /\ ProtoFairness

-----------------------------------------------------------------------------
(* The frames on a connection that are events. *)
EventsOn(wire) == Pick(wire, {i \in DOMAIN wire : wire[i] # Ping})

(* Through any number of lost connections and however many frames died on   *)
(* them, a client of the event stream has the log's events from the first   *)
(* on, each once and in order (Last-Event-ID replay then live).             *)
StreamIsLogPrefix ==
    \A s \in Streams :
        /\ IsPrefix(seen[s], log)
        /\ conn[s].open =>
             seen[s] \o EventsOn(conn[s].wire) = log

(* A poll for an id that is decided is eventually told the verdict that     *)
(* stands, which a later decision does not change, even when the decision   *)
(* races its deadline or lands between two polls.                           *)
DecisionReachesPoll ==
    \A p \in Polls :
        (poll[p].id \in DOMAIN decisions) ~>
            (poll[p].id \in DOMAIN decisions /\ poll[p].answer = decisions[poll[p].id])
=============================================================================
