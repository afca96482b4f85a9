------------------------------- MODULE LoadGen -------------------------------
(***************************************************************************)
(* The load generator (go/cmd/loadgen/main.go) over the client             *)
(* (go/client/client.go): one thread that submits orders on a schedule,    *)
(* polls the egress in every wait, and whose collector turns the first     *)
(* report of each order into a latency.  The cluster is external: it takes *)
(* an offer or refuses it for now, answers a taken order with a report,    *)
(* perhaps reports again on its fills, and may lose reports.               *)
(*                                                                         *)
(* The clock ticks while the client waits: for a scheduled time (which it  *)
(* may overshoot), for an offer to be taken, or for the last reports; what *)
(* it does otherwise takes no time.  Poll handles one report per step.     *)
(***************************************************************************)
EXTENDS Integers, Sequences

CONSTANTS Orders,        \* the flag -orders
          Interval,      \* ticks between scheduled sends, 0 for open loop
          OfferTimeout,  \* the client's deadline for one offer
          DrainTimeout,  \* the wait for the last reports
          MaxReports,    \* bound on the reports of one order
          MaxStall       \* bound on how late a scheduled send may start

ASSUME LoadGenAssumption ==
  {Orders, Interval, OfferTimeout, DrainTimeout, MaxReports, MaxStall} \subseteq Nat

VARIABLES now, pc,
          i,          \* the loop variable; the order's id is i + 1
          deadline,   \* of the current offer, or of the drain
          submitted,  \* id -> the time its latency counts from
          latencies,  \* sequence of [id, latency], with the time at which it was taken
          acked,
          reports,    \* id -> number of reports the cluster has made
          inbox,      \* reports on their way to the client, in order
          sentAt      \* id -> when its offer was taken (history)

vars == <<now, pc, i, deadline, submitted, latencies, acked, reports, inbox, sentAt>>

Start == 0

put(f, k, v) == [x \in DOMAIN f \cup {k} |-> IF x = k THEN v ELSE f[x]]
drop(f, k) == [x \in DOMAIN f \ {k} |-> f[x]]

Init ==
  /\ now = Start
  /\ pc = "loop"
  /\ i = 0
  /\ deadline = 0
  /\ submitted = << >>
  /\ latencies = << >>
  /\ acked = 0
  /\ reports = << >>
  /\ inbox = << >>
  /\ sentAt = << >>

-----------------------------------------------------------------------------
(* Outside the client. *)

sendTime == IF Interval > 0 THEN Start + i * Interval ELSE now

Tick ==
  /\ \/ pc = "wait" /\ Interval > 0 /\ now < sendTime + MaxStall
     \/ pc \in {"offer", "drain"} /\ now <= deadline
  /\ now' = now + 1
  /\ UNCHANGED <<pc, i, deadline, submitted, latencies, acked, reports, inbox, sentAt>>

\* The cluster reports on an order it has taken; the report may be lost.
ClusterReport(id) ==
  /\ reports[id] < MaxReports
  /\ reports' = [reports EXCEPT ![id] = @ + 1]
  /\ inbox' = Append(inbox, id) \/ UNCHANGED inbox
  /\ UNCHANGED <<now, pc, i, deadline, submitted, latencies, acked, sentAt>>

-----------------------------------------------------------------------------
(* The client's thread. *)

\* Mutant: every report of an order counts.
OnExecutionReportAlways(id) ==
  /\ latencies' = Append(latencies, [id |-> id, latency |-> 0, at |-> now])
  /\ acked' = acked + 1
  /\ UNCHANGED submitted

\* The collector: the first report of an order closes it, later ones are not its.
OnExecutionReport(id) ==
  IF id \in DOMAIN submitted
  THEN /\ latencies' = Append(latencies, [id |-> id, latency |-> now - submitted[id],
                                        at |-> now])
       /\ submitted' = drop(submitted, id)
       /\ acked' = acked + 1
  ELSE UNCHANGED <<submitted, latencies, acked>>

\* Poll hands a report to the collector, in every place that polls.
Poll ==
  /\ pc \in {"offer", "poll", "drain"} \/ (pc = "wait" /\ Interval > 0)
  /\ inbox # << >>
  /\ OnExecutionReport(Head(inbox))
  /\ inbox' = Tail(inbox)
  /\ UNCHANGED <<now, pc, i, deadline, reports, sentAt>>

\* The top of the loop: wait for the scheduled time, if there is one.
NextOrder ==
  /\ pc = "loop"
  /\ pc' = IF i < Orders THEN "wait" ELSE "drain"
  /\ deadline' = IF i < Orders THEN deadline ELSE now + DrainTimeout
  /\ UNCHANGED <<now, i, submitted, latencies, acked, reports, inbox, sentAt>>

\* Mutant: the order is registered at the time it is really sent.
RegisterNow ==
  /\ pc = "wait"
  /\ now >= sendTime
  /\ submitted' = put(submitted, i + 1, now)
  /\ deadline' = now + OfferTimeout
  /\ pc' = "offer"
  /\ UNCHANGED <<now, i, latencies, acked, reports, inbox, sentAt>>

\* The wait is over: register the order, then call SubmitOrder.
Register ==
  /\ pc = "wait"
  /\ now >= sendTime
  /\ submitted' = put(submitted, i + 1, sendTime)
  /\ deadline' = now + OfferTimeout
  /\ pc' = "offer"
  /\ UNCHANGED <<now, i, latencies, acked, reports, inbox, sentAt>>

\* Offer succeeds: the cluster has the order.
OfferTaken ==
  /\ pc = "offer"
  /\ reports' = put(reports, i + 1, 0)
  /\ sentAt' = put(sentAt, i + 1, now)
  /\ pc' = "poll"
  /\ UNCHANGED <<now, i, deadline, submitted, latencies, acked, inbox>>

\* Offer is refused past the deadline: SubmitOrder fails and main panics.
OfferTimedOut ==
  /\ pc = "offer"
  /\ now > deadline
  /\ pc' = "failed"
  /\ UNCHANGED <<now, i, deadline, submitted, latencies, acked, reports, inbox, sentAt>>

\* The poll at the bottom of the loop returns.
EndOfLoop ==
  /\ pc = "poll"
  /\ i' = i + 1
  /\ pc' = "loop"
  /\ UNCHANGED <<now, deadline, submitted, latencies, acked, reports, inbox, sentAt>>

\* Mutant: the drain waits for all orders.
DrainedOnlyByAcks ==
  /\ pc = "drain"
  /\ acked >= Orders
  /\ pc' = "done"
  /\ UNCHANGED <<now, i, deadline, submitted, latencies, acked, reports, inbox, sentAt>>

\* The drain ends when all orders are acknowledged or its deadline has passed.
Drained ==
  /\ pc = "drain"
  /\ acked >= Orders \/ now > deadline
  /\ pc' = "done"
  /\ UNCHANGED <<now, i, deadline, submitted, latencies, acked, reports, inbox, sentAt>>

\* What the client's thread does by itself: all but having an offer taken.
Client == NextOrder \/ Register \/ OfferTimedOut \/ EndOfLoop \/ Drained

Next ==
  \/ Tick
  \/ \E id \in DOMAIN reports : ClusterReport(id)
  \/ Poll
  \/ OfferTaken
  \/ Client

Spec == Init /\ [][Next]_vars

\* Time passes and the client's thread runs; the cluster owes nothing.
FairSpec == Spec /\ WF_vars(Tick) /\ WF_vars(Client)

-----------------------------------------------------------------------------
\* Every order that the cluster has is waiting for its first report or has
\* exactly one latency: it is registered before it is offered, so no report can
\* come too early, and reports of its fills do not count again.
CountedOnce ==
  /\ acked = Len(latencies)
  /\ \A j, k \in DOMAIN latencies : latencies[j].id = latencies[k].id => j = k
  /\ \A id \in DOMAIN sentAt :
       id \in DOMAIN submitted <=> \A k \in DOMAIN latencies : latencies[k].id # id

\* "Latency is measured from the scheduled time, not the actual send, so
\* generator stalls count": a latency covers the time since the order was taken
\* by the cluster, and with a rate all the time since its place in the schedule.
StallsCount ==
  \A k \in DOMAIN latencies :
    LET e == latencies[k]
    IN  /\ e.latency >= e.at - sentAt[e.id]
        /\ Interval > 0 => e.latency >= e.at - (Start + (e.id - 1) * Interval)

\* The generator ends, whatever the cluster does.
Finishes == <>(pc \in {"done", "failed"})
=============================================================================
