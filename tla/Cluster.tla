------------------------------- MODULE Cluster -------------------------------
(***************************************************************************)
(* Several nodes that run the matching service over one replicated log.    *)
(* The log, sessions, elections, snapshots on disk and egress channels are *)
(* Aeron Cluster's (external), modelled from how the service uses them:    *)
(*                                                                         *)
(*  - a log entry is there for all nodes once it is there; each node's     *)
(*    service is called for every entry, in order, at its own pace;        *)
(*  - only the leader's offers go out, the others' are mocked; a node      *)
(*    leads only once its service has seen the whole log;                  *)
(*  - a snapshot is a log entry: each node writes its own when it gets     *)
(*    there, and what was written counts when OnTakeSnapshot returns;      *)
(*  - a service that starts again gets its node's last snapshot in OnStart,*)
(*    then the entries after it.  If only the service container restarted, *)
(*    sessions from before the snapshot are not opened again; if the whole *)
(*    node did, those still open at the snapshot are (go/README.md:38-42).  *)
(*                                                                         *)
(* Log positions serve as timestamps.                                      *)
(***************************************************************************)
EXTENDS MatchingService

CONSTANTS Nodes,
          Sessions,            \* ids of the sessions that are open at first, in order
          LateSessions,        \* ids of those that may open later, once each
          Messages,            \* what clients send, as pairs of session and message
          Unreachable,         \* the sessions to which an offer may fail for good
          SnapshotOffersFail,  \* may a snapshot offer fail for good?
          ChunkRecords,        \* records per snapshot chunk
          MaxLog,              \* bound on the length of the log
          MaxCrashes           \* bound on the number of crashes

\* Session ids are the cluster's, and unique.
ASSUME SessionsAssumption ==
  /\ Sessions \in Seq(Range(Sessions))
  /\ \A i, j \in DOMAIN Sessions : Sessions[i] = Sessions[j] => i = j

\* The decoder gives out integers.
ASSUME MessagesAssumption ==
  \A m \in Messages : accepted(m[2]) /\ m[2].template = newOrderTemplateId =>
                        m[2].price \in Int /\ m[2].qty \in Int

None == "none"

ASSUME NodesAssumption == None \notin Nodes

VARIABLES log,     \* what the cluster agreed on
          node,    \* each node's process: status, the position its service
                   \* started from, that which it has got to, and the service
          leader,
          disk,    \* each node's last snapshot: its position and its stream
          egress,  \* per session, the frames that went out
          crashes,
          ideal    \* after each entry, a service that never fails (history)

clusterVars == <<log, node, leader, disk, egress, crashes, ideal>>

SessionIds == Range(Sessions) \cup LateSessions

Opened == [i \in DOMAIN Sessions |-> [type |-> "open", session |-> Sessions[i]]]

(***************************************************************************)
(* What the log alone implies: one service that handles every entry as it  *)
(* is agreed on, and the offers it makes for it.                           *)
(***************************************************************************)
Ideal0 == [svc |-> NewMatchingService, offers |-> << >>]

idealStep(r, e, pos) ==
  CASE e.type = "open" -> [svc |-> OnSessionOpen(r.svc, e.session), offers |-> << >>]
    [] e.type = "close" -> [svc |-> OnSessionClose(r.svc, e.session), offers |-> << >>]
    [] e.type = "message" ->
         LET m == OnSessionMessage(r.svc, e.session, e.msg)
         IN  [svc |-> [r.svc EXCEPT !.book = m.book],
              offers |-> route(r.svc, m.events, pos)]
    [] OTHER -> [svc |-> r.svc, offers |-> << >>]

\* The ideal service after the first pos entries.
idealAt(pos) == IF pos = 0 THEN Ideal0 ELSE ideal[pos]

\* The first sessions have connected, and every service has been told of it.
ClusterInit ==
  /\ log = Opened
  /\ ideal = [i \in DOMAIN Opened |->
       [svc |-> [book |-> NewOrderBook, sessions |-> Range(SubSeq(Sessions, 1, i)),
                 sessionIds |-> SubSeq(Sessions, 1, i)],
        offers |-> << >>]]
  /\ node = [n \in Nodes |->
       [status |-> "up", base |-> 0, pos |-> Len(log), svc |-> idealAt(Len(log)).svc]]
  /\ leader = None
  /\ disk = [n \in Nodes |-> [pos |-> 0, stream |-> << >>]]
  /\ egress = [s \in SessionIds |-> << >>]
  /\ crashes = 0

-----------------------------------------------------------------------------
(* The cluster around the service. *)

\* A leader adds an entry to the log.
Agree(entry) ==
  /\ leader # None
  /\ Len(log) < MaxLog
  /\ log' = Append(log, entry)
  /\ ideal' = Append(ideal, idealStep(idealAt(Len(log)), entry, Len(log) + 1))
  /\ UNCHANGED <<node, leader, disk, egress, crashes>>

\* The session has an entry of this type among the first pos of the log.
told(type, s, pos) == \E i \in 1..pos : log[i].type = type /\ log[i].session = s

\* When a session opened, as a position in the log.
openedAt(s) == CHOOSE i \in DOMAIN log : log[i].type = "open" /\ log[i].session = s

\* The sessions that are open after the first pos entries, and their ids as a
\* list, in the order they opened in.
openAfter(pos) == {s \in SessionIds : told("open", s, pos) /\ ~told("close", s, pos)}

openIds(pos) ==
  {ids \in UNION {[1..k -> SessionIds] : k \in 0..pos} :
     /\ Range(ids) = openAfter(pos)
     /\ \A j, k \in DOMAIN ids : j < k => openedAt(ids[j]) < openedAt(ids[k])}

isOpen(s) == told("open", s, Len(log)) /\ ~told("close", s, Len(log))

OpenSession(s) == ~told("open", s, Len(log)) /\ Agree([type |-> "open", session |-> s])
CloseSession(s) == isOpen(s) /\ Agree([type |-> "close", session |-> s])
Ingress(s, msg) == isOpen(s) /\ Agree([type |-> "message", session |-> s, msg |-> msg])
RequestSnapshot == Agree([type |-> "snapshot"])

\* A node whose service has seen the whole log takes over.
Elect(n) ==
  /\ node[n].status = "up"
  /\ node[n].pos = Len(log)
  /\ leader # n
  /\ leader' = n
  /\ UNCHANGED <<log, node, disk, egress, crashes, ideal>>

Crash(n) ==
  /\ node[n].status = "up"
  /\ crashes < MaxCrashes
  /\ crashes' = crashes + 1
  /\ node' = [node EXCEPT ![n].status = "down"]
  /\ leader' = IF leader = n THEN None ELSE leader
  /\ UNCHANGED <<log, disk, egress, ideal>>

-----------------------------------------------------------------------------
(* The service's handlers. *)

upcoming(n, type) ==
  /\ node[n].status = "up"
  /\ node[n].pos < Len(log)
  /\ log[node[n].pos + 1].type = type

\* The node has handled its entry and has a new service state.
advance(n, svc) == node' = [node EXCEPT ![n].pos = @ + 1, ![n].svc = svc]

HandleOpen(n) ==
  /\ upcoming(n, "open")
  /\ advance(n, OnSessionOpen(node[n].svc, log[node[n].pos + 1].session))
  /\ UNCHANGED <<log, leader, disk, egress, crashes, ideal>>

HandleClose(n) ==
  /\ upcoming(n, "close")
  /\ advance(n, OnSessionClose(node[n].svc, log[node[n].pos + 1].session))
  /\ UNCHANGED <<log, leader, disk, egress, crashes, ideal>>

\* The frames for a session among the offers.
framesFor(offers, s) ==
  flatten([k \in DOMAIN offers |->
             IF offers[k].to = s THEN << offers[k].frame >> ELSE << >>])

\* Mutant: offers are made by followers too.
deliverFromAll(n, offers, broken) ==
  egress' = [s \in DOMAIN egress |->
               IF s \in broken THEN egress[s] ELSE egress[s] \o framesFor(offers, s)]

\* offer: retried under back pressure, dropped on any other error.  Which
\* sessions' offers fail is taken to be the same throughout one command.
deliver(n, offers, broken) ==
  egress' = IF leader # n THEN egress
            ELSE [s \in DOMAIN egress |->
                    IF s \in broken THEN egress[s] ELSE egress[s] \o framesFor(offers, s)]

\* Mutant: only the leader encodes what it routes.
HandleMessageLeaderEncodes(n) ==
  /\ upcoming(n, "message")
  /\ LET e == log[node[n].pos + 1]
         r == OnSessionMessage(node[n].svc, e.session, e.msg)
         panic == leader = n /\ routable(r.events) # r.events
     IN  /\ node' = [node EXCEPT ![n].pos = @ + 1, ![n].svc.book = r.book,
                                 ![n].status = IF panic THEN "panicked" ELSE @]
         /\ leader' = IF panic THEN None ELSE leader
         /\ \E broken \in SUBSET Unreachable :
              deliver(n, route(node[n].svc, r.events, node[n].pos + 1), broken)
  /\ UNCHANGED <<log, disk, crashes, ideal>>

\* OnSessionMessage and route.  A panic ends the process in the middle of it.
HandleMessage(n) ==
  /\ upcoming(n, "message")
  /\ LET e == log[node[n].pos + 1]
         r == OnSessionMessage(node[n].svc, e.session, e.msg)
         panic == routable(r.events) # r.events
     IN  /\ node' = [node EXCEPT ![n].pos = @ + 1, ![n].svc.book = r.book,
                                 ![n].status = IF panic THEN "panicked" ELSE @]
         /\ leader' = IF panic /\ leader = n THEN None ELSE leader
         /\ \E broken \in SUBSET Unreachable :
              deliver(n, route(node[n].svc, r.events, node[n].pos + 1), broken)
  /\ UNCHANGED <<log, disk, crashes, ideal>>

\* The leader's process dies in the middle of route: some offers went out, and
\* nothing else is left of the command.
CrashInRoute(n) ==
  /\ upcoming(n, "message")
  /\ leader = n
  /\ crashes < MaxCrashes
  /\ LET e == log[node[n].pos + 1]
         r == OnSessionMessage(node[n].svc, e.session, e.msg)
         offers == route(node[n].svc, r.events, node[n].pos + 1)
     IN  \E k \in 1..(Len(offers) - 1), broken \in SUBSET Unreachable :
           deliver(n, SubSeq(offers, 1, k), broken)
  /\ crashes' = crashes + 1
  /\ node' = [node EXCEPT ![n].status = "down"]
  /\ leader' = None
  /\ UNCHANGED <<log, disk, ideal>>

\* What writeSnapshot has emitted when it returns: everything, or the chunks
\* before the one whose offer failed, which is logged and otherwise ignored.
written(stream) ==
  {stream} \cup IF SnapshotOffersFail
                THEN {SubSeq(stream, 1, k) : k \in {j \in 0..(Len(stream) - 1) :
                                                     j % ChunkRecords = 0}}
                ELSE {}

\* OnTakeSnapshot: it returns normally in either case.
HandleSnapshot(n) ==
  /\ upcoming(n, "snapshot")
  /\ advance(n, node[n].svc)
  /\ \E stream \in written(TakeSnapshot(node[n].svc.book)) :
       disk' = [disk EXCEPT ![n] = [pos |-> node[n].pos + 1, stream |-> stream]]
  /\ UNCHANGED <<log, leader, egress, crashes, ideal>>

\* Mutant: the position of the snapshot is kept, its book is not.
startedFresh(pos, book) ==
  [status |-> "up", base |-> pos, pos |-> pos, svc |-> NewMatchingService]

\* A new service process that goes on from a position with a book and no sessions.
started(pos, book) ==
  [status |-> "up", base |-> pos, pos |-> pos,
   svc |-> [NewMatchingService EXCEPT !.book = book]]

\* One for which these sessions were opened again.
reopened(pos, book, ids) ==
  [status |-> "up", base |-> 0, pos |-> pos,
   svc |-> [book |-> book, sessions |-> Range(ids), sessionIds |-> ids]]

\* The node has no service process: it crashed, or a handler or OnStart panicked.
stopped(n) == node[n].status \in {"down", "panicked"}

\* OnStart: without a snapshot, with one, and with one that cannot be restored.
StartEmpty(n) ==
  /\ stopped(n)
  /\ disk[n].pos = 0
  /\ node' = [node EXCEPT ![n] = started(0, NewOrderBook)]
  /\ UNCHANGED <<log, leader, disk, egress, crashes, ideal>>

\* Mutant: on the snapshot of a book without orders the start fails, having moved
\* the position, and is tried again.
StartRestoredRetries(n) ==
  /\ stopped(n)
  /\ disk[n].pos > 0
  /\ node' = IF Len(disk[n].stream) > 1
             THEN [node EXCEPT ![n] = started(disk[n].pos, RestoreOrderBook(disk[n].stream))]
             ELSE [node EXCEPT ![n].status = "down",
                               ![n].pos = IF @ = 0 THEN disk[n].pos ELSE 0]
  /\ UNCHANGED <<log, leader, disk, egress, crashes, ideal>>

\* Only the service container restarts.
StartRestored(n) ==
  /\ stopped(n)
  /\ disk[n].pos > 0
  /\ node' = IF readable(disk[n].stream)
             THEN [node EXCEPT ![n] = started(disk[n].pos, RestoreOrderBook(disk[n].stream))]
             ELSE [node EXCEPT ![n].status = "panicked"]
  /\ UNCHANGED <<log, leader, disk, egress, crashes, ideal>>

\* The whole node restarts: OnStart, then OnSessionOpen for the sessions that
\* the snapshot of the consensus module has.
StartNode(n) ==
  /\ stopped(n)
  /\ disk[n].pos > 0
  /\ readable(disk[n].stream)
  /\ \E ids \in openIds(disk[n].pos) :
       node' = [node EXCEPT ![n] =
                  reopened(disk[n].pos, RestoreOrderBook(disk[n].stream), ids)]
  /\ UNCHANGED <<log, leader, disk, egress, crashes, ideal>>

Handle(n) ==
  \/ HandleOpen(n)
  \/ HandleClose(n)
  \/ HandleMessage(n)
  \/ HandleSnapshot(n)
  \/ StartEmpty(n)
  \/ StartRestored(n)
  \/ StartNode(n)

ClusterNext ==
  \/ \E s \in SessionIds : OpenSession(s) \/ CloseSession(s)
  \/ \E m \in Messages : Ingress(m[1], m[2])
  \/ RequestSnapshot
  \/ \E n \in Nodes : Elect(n) \/ Crash(n) \/ CrashInRoute(n) \/ Handle(n)

ClusterSpec == ClusterInit /\ [][ClusterNext]_clusterVars

\* A handler is due, or the process is to be started.
Runnable(n) ==
  \/ node[n].status = "down"
  \/ node[n].status = "panicked" /\ (disk[n].pos = 0 \/ readable(disk[n].stream))
  \/ node[n].status = "up" /\ node[n].pos < Len(log)

\* A step of Handle(n): no other step moves a node without counting as a crash.
Handled(n) == node'[n] # node[n] /\ crashes' = crashes

\* The container calls the service for what is due, and a dead node is started
\* again; nothing is assumed of clients, elections or crashes.  This is weak
\* fairness of Handle(n), spelled out.
FairSpec ==
  ClusterSpec /\ \A n \in Nodes : []<>(~Runnable(n)) \/ []<><<Handled(n)>>_node

-----------------------------------------------------------------------------
\* "Given the same command sequence, two engines produce identical event
\* sequences": every node's book is the one that the log up to its position
\* implies, whatever crashes, restarts and restored snapshots came before.
BooksFollowLog ==
  \A n \in Nodes : node[n].status = "up" =>
    node[n].svc.book = idealAt(node[n].pos).svc.book

\* Is d what is left of e when some elements are left out?
IsPartOf(d, e) ==
  LET taken[n \in 0..Len(e)] ==   \* of d, by the first n elements of e
        IF n = 0 THEN 0
        ELSE LET k == taken[n - 1]
             IN  IF k < Len(d) /\ d[k + 1] = e[n] THEN k + 1 ELSE k
  IN  taken[Len(e)] = Len(d)

\* Egress is at most once and in order: what a session got is part of what a
\* single service that never failed would have sent it.  No replay after a
\* restart and no change of leader repeats or reorders a report, and nothing is
\* sent after the session closed.
EgressAtMostOnce ==
  \A s \in SessionIds :
    IsPartOf(egress[s], flatten([i \in DOMAIN ideal |-> framesFor(ideal[i].offers, s)]))

\* A node serves exactly the sessions that are open, in the order they opened in,
\* and its map and its broadcast list agree: after a restart of the whole node as
\* well ("does not have this problem").  After a restart of the service container
\* alone it serves those that opened since the snapshot, and no others, which is
\* the known limitation of OnStart; a client that connects again is served.
SessionsFollowLog ==
  \A n \in Nodes : node[n].status = "up" =>
    LET svc == node[n].svc
    IN  /\ svc.sessions = {s \in openAfter(node[n].pos) : openedAt(s) > node[n].base}
        /\ Range(svc.sessionIds) = svc.sessions
        /\ \A j, k \in DOMAIN svc.sessionIds :
             j < k => openedAt(svc.sessionIds[j]) < openedAt(svc.sessionIds[k])

\* The i-th entry is a command that has an event which cannot be encoded.
poisoned(i) ==
  /\ i \in DOMAIN log
  /\ log[i].type = "message"
  /\ LET r == OnSessionMessage(idealAt(i - 1).svc, log[i].session, log[i].msg)
     IN  routable(r.events) # r.events

\* Panics are a matter of the log alone: a command on which mustEncode panics does
\* so on every node, leading or not and with whatever sessions, and again at each
\* replay, so that no node gets past it or takes a snapshot of what it did; and
\* a process panics at such a command or on a snapshot it cannot restore, only.
PanicsFollowLog ==
  \A n \in Nodes :
    /\ node[n].status = "up" => \A i \in 1..node[n].pos : ~poisoned(i)
    /\ \A i \in 1..disk[n].pos : ~poisoned(i)
    /\ node[n].status = "panicked" =>
         \/ poisoned(node[n].pos)
         \/ disk[n].pos > 0 /\ ~readable(disk[n].stream)

\* "encoding into a bytes.Buffer cannot fail for valid messages", nor restoring a
\* snapshot that was taken: mustEncode and OnStart never panic.
NoPanic == \A n \in Nodes : node[n].status # "panicked"

\* "Snapshot/restore of complete engine state": a snapshot that counts as taken
\* can be restored (OnTakeSnapshot, RestoreOrderBook).
SnapshotsComplete == \A n \in Nodes : disk[n].pos > 0 => readable(disk[n].stream)

\* The book after the first pos entries of the log.
BookAt(pos) == idealAt(pos).svc.book

\* Whatever OnTakeSnapshot left on a node's disk, OnStart either refuses it or
\* restores the very book that the log up to the snapshot's position implies.
SnapshotsExact ==
  \A n \in Nodes : disk[n].pos > 0 /\ readable(disk[n].stream) =>
    RestoreOrderBook(disk[n].stream) = BookAt(disk[n].pos)

\* Every node keeps catching up with the log: after a crash or a panic it restarts
\* from its snapshot or from nothing and replays the rest, to the end of the log
\* or up to a command that cannot be encoded.
CatchesUp ==
  \A n \in Nodes :
    []<>(node[n].status = "up" /\ (node[n].pos < Len(log) => poisoned(node[n].pos + 1)))
=============================================================================
