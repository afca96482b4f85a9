----------------------------- MODULE FlowControl -----------------------------
(***************************************************************************)
(* The two back-pressure loops that face each other.  A client that offers *)
(* a command retries while ingress is full (go/client/client.go); the      *)
(* service that offers a frame retries while that client's egress window   *)
(* is full (go/service/service.go), and takes no command meanwhile.  Each  *)
(* waits for the other unless the client polls inside its own loop.        *)
(*                                                                         *)
(* One queue stands for ingress, consensus and log; one window per client  *)
(* for its egress publication and subscription.  Every command is an order *)
(* that rests: a report to its sender, then a book update to everyone.     *)
(***************************************************************************)
EXTENDS Naturals, SequencesExt

CONSTANTS Clients,      \* connected clients, which are the open sessions
          Commands,     \* number of commands each client submits
          IngressRoom,  \* commands that fit between clients and service
          EgressRoom,   \* frames that fit between service and one client
          MaxTimeouts   \* bound on the offers that time out

VARIABLES pc,        \* per client: "app", "offer" (inside offer) or "closed"
          left,      \* per client: commands not submitted yet
          timeouts,  \* offers that timed out
          ingress,   \* [from, kind] of the commands and closes on their way
          sessions,  \* sessionIds of the service
          taken,     \* commands the service has taken
          todo,      \* <<session, frame>> that route still has to offer
          egress,    \* per client: frames in its window
          got,       \* per client: frames its listener was given
          owed       \* per client: frames addressed to it so far

vars == <<pc, left, timeouts, ingress, sessions, taken, todo, egress, got, owed>>
service == <<sessions, taken, todo, owed>>

Init ==
  /\ pc = [c \in Clients |-> "app"]
  /\ left = [c \in Clients |-> Commands]
  /\ timeouts = 0
  /\ ingress = << >>
  /\ sessions = SetToSeq(Clients)
  /\ taken = 0
  /\ todo = << >>
  /\ egress = [c \in Clients |-> << >>]
  /\ got = [c \in Clients |-> << >>]
  /\ owed = [c \in Clients |-> << >>]

-----------------------------------------------------------------------------
(* A client. *)

\* SubmitOrder or CancelOrder, up to the loop of offer.
Submit(c) ==
  /\ pc[c] = "app" /\ left[c] > 0
  /\ pc' = [pc EXCEPT ![c] = "offer"]
  /\ left' = [left EXCEPT ![c] = @ - 1]
  /\ UNCHANGED <<timeouts, ingress, service, egress, got>>

\* AeronCluster.Offer succeeds and offer returns nil.
OfferTaken(c) ==
  /\ pc[c] = "offer" /\ Len(ingress) < IngressRoom
  /\ ingress' = Append(ingress, [from |-> c, kind |-> "command"])
  /\ pc' = [pc EXCEPT ![c] = "app"]
  /\ UNCHANGED <<left, timeouts, service, egress, got>>

\* AeronCluster.Poll: the listener gets what is first in the window.
poll(c) ==
  /\ egress[c] # << >>
  /\ got' = [got EXCEPT ![c] = Append(@, Head(egress[c]))]
  /\ egress' = [egress EXCEPT ![c] = Tail(@)]

\* Mutant: the loop idles without a Poll.
OfferRefusedIdle(c) ==
  /\ pc[c] = "offer" /\ Len(ingress) = IngressRoom
  /\ UNCHANGED vars

\* AeronCluster.Offer is refused before the deadline: Poll, then once more.
OfferRefused(c) ==
  /\ pc[c] = "offer" /\ Len(ingress) = IngressRoom
  /\ poll(c)
  /\ UNCHANGED <<pc, left, timeouts, ingress, service>>

\* AeronCluster.Offer is refused after the deadline: the command is not sent.
OfferTimedOut(c) ==
  /\ pc[c] = "offer" /\ Len(ingress) = IngressRoom
  /\ timeouts < MaxTimeouts
  /\ timeouts' = timeouts + 1
  /\ pc' = [pc EXCEPT ![c] = "app"]
  /\ UNCHANGED <<left, ingress, service, egress, got>>

Poll(c) ==
  /\ pc[c] = "app"
  /\ poll(c)
  /\ UNCHANGED <<pc, left, timeouts, ingress, service>>

\* Close: the egress subscription is gone, and what was in its window.
Close(c) ==
  /\ pc[c] = "app"
  /\ pc' = [pc EXCEPT ![c] = "closed"]
  /\ egress' = [egress EXCEPT ![c] = << >>]
  /\ UNCHANGED <<left, timeouts, ingress, service, got>>

\* The cluster notices and tells the service, behind the commands under way.
SessionEnds(c) ==
  /\ pc[c] = "closed" /\ Len(ingress) < IngressRoom
  /\ c \in ToSet(sessions) /\ [from |-> c, kind |-> "close"] \notin ToSet(ingress)
  /\ ingress' = Append(ingress, [from |-> c, kind |-> "close"])
  /\ UNCHANGED <<pc, left, timeouts, service, egress, got>>

-----------------------------------------------------------------------------
(* The service, on one thread. *)

\* The frames route sends for the n-th command, in the order of its offers:
\* sendTo the sender, if its session is still there, then broadcast.
route(n, from) ==
  SelectSeq(<< <<from, <<n, "report">> >> >>, LAMBDA x : x[1] \in ToSet(sessions))
    \o [i \in DOMAIN sessions |-> <<sessions[i], <<n, "update">> >>]

framesFor(c, list) == LET mine == SelectSeq(list, LAMBDA x : x[1] = c)
                      IN  [i \in DOMAIN mine |-> mine[i][2]]

\* OnSessionMessage up to the first offer of route.
TakeCommand ==
  /\ todo = << >> /\ ingress # << >> /\ Head(ingress).kind = "command"
  /\ ingress' = Tail(ingress)
  /\ taken' = taken + 1
  /\ todo' = route(taken', Head(ingress).from)
  /\ owed' = [c \in Clients |-> owed[c] \o framesFor(c, todo')]
  /\ UNCHANGED <<pc, left, timeouts, sessions, egress, got>>

\* OnSessionClose.
TakeClose ==
  /\ todo = << >> /\ ingress # << >> /\ Head(ingress).kind = "close"
  /\ ingress' = Tail(ingress)
  /\ sessions' = Remove(sessions, Head(ingress).from)
  /\ UNCHANGED <<pc, left, timeouts, taken, todo, egress, got, owed>>

\* Mutant: a refused frame is skipped, as a failed one is.
OfferFrameOnce ==
  /\ todo # << >>
  /\ LET c == Head(todo)[1]
     IN  egress' = [egress EXCEPT ![c] = IF pc[c] # "closed" /\ Len(@) < EgressRoom
                                         THEN Append(@, Head(todo)[2]) ELSE @]
  /\ todo' = Tail(todo)
  /\ UNCHANGED <<pc, left, timeouts, ingress, sessions, taken, got, owed>>

\* Mutant: every failure is retried, that of a session that is gone included.
OfferFrameForever ==
  /\ todo # << >>
  /\ LET c == Head(todo)[1]
     IN  /\ pc[c] # "closed" /\ Len(egress[c]) < EgressRoom
         /\ egress' = [egress EXCEPT ![c] = Append(@, Head(todo)[2])]
  /\ todo' = Tail(todo)
  /\ UNCHANGED <<pc, left, timeouts, ingress, sessions, taken, got, owed>>

\* The loop of offer, at the turn that ends it: the window has room, or the
\* session is gone and the frame is dropped.  Until then it only idles.
OfferFrame ==
  /\ todo # << >>
  /\ LET c == Head(todo)[1]
     IN  \/ /\ pc[c] # "closed" /\ Len(egress[c]) < EgressRoom
            /\ egress' = [egress EXCEPT ![c] = Append(@, Head(todo)[2])]
         \/ /\ pc[c] = "closed"
            /\ UNCHANGED egress
  /\ todo' = Tail(todo)
  /\ UNCHANGED <<pc, left, timeouts, ingress, sessions, taken, got, owed>>

Next ==
  \/ \E c \in Clients :
        \/ Submit(c) \/ OfferTaken(c) \/ OfferRefused(c) \/ OfferTimedOut(c)
        \/ Poll(c) \/ Close(c) \/ SessionEnds(c)
  \/ TakeCommand \/ TakeClose \/ OfferFrame

Spec == Init /\ [][Next]_vars

\* The service thread never sleeps for good; a client inside offer goes round
\* its loop; between commands it polls, as the callers of this client do.  No
\* client is obliged to submit, to close or to time out.
Fairness ==
  /\ WF_vars(TakeCommand) /\ WF_vars(TakeClose) /\ WF_vars(OfferFrame)
  /\ \A c \in Clients : WF_vars(OfferTaken(c)) /\ WF_vars(OfferRefused(c) \/ Poll(c))

FairSpec == Spec /\ Fairness

-----------------------------------------------------------------------------
\* Back pressure costs time and nothing else: a client that has not closed gets
\* every frame the service addressed to it, once and in the order of the
\* commands, however often either loop was refused (the retry of offer).
FramesKept ==
  \A c \in Clients : pc[c] # "closed" =>
    got[c] \o egress[c] \o framesFor(c, todo) = owed[c]

\* The service gets through every command it takes: no window stays full,
\* because a client polls also while its own offer is refused.
CommandsFinish == todo # << >> ~> todo = << >>

\* Nobody stays inside offer for good, not even a client that never times out.
OffersEnd == \A c \in Clients : pc[c] = "offer" ~> pc[c] # "offer"
=============================================================================
