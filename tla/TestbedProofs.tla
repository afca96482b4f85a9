---------------------------- MODULE TestbedProofs ----------------------------
(***************************************************************************)
(* What surrounds the cluster when it is tested and measured: the safety   *)
(* properties of the load generator, for any number of orders, any rate    *)
(* and any time limits, and those of the test harness, for any number of   *)
(* launches.                                                               *)
(***************************************************************************)
EXTENDS LoadGen, Harness, TLAPS

(* The load generator. *)

\* The ids of the orders that were registered, and of those that were sent.
Registered == IF pc \in {"offer", "poll", "failed"} THEN 1..(i + 1) ELSE 1..i
Sent == IF pc = "poll" THEN 1..(i + 1) ELSE 1..i

Latency == [id : Nat, latency : Int, at : Nat]

LTypeOK ==
  /\ now \in Nat /\ i \in Nat /\ acked \in Nat
  /\ pc \in {"loop", "wait", "offer", "poll", "drain", "done", "failed"}
  /\ DOMAIN submitted \subseteq Registered
  /\ DOMAIN sentAt = Sent /\ DOMAIN reports = Sent
  /\ inbox \in Seq(Sent)
  /\ latencies \in Seq(Latency)

\* An order is open from its registration to its first report; its latency counts
\* from its place in the schedule, which was not after it was sent.
Booked ==
  /\ acked = Len(latencies)
  /\ \A j, k \in DOMAIN latencies : latencies[j].id = latencies[k].id => j = k
  /\ \A k \in DOMAIN latencies : latencies[k].id \in Sent \ DOMAIN submitted
  /\ \A id \in Registered :
       id \in DOMAIN submitted \/ \E k \in DOMAIN latencies : latencies[k].id = id

Timed ==
  /\ \A id \in DOMAIN submitted :
       /\ submitted[id] \in Nat /\ submitted[id] <= now
       /\ Interval > 0 => submitted[id] = Start + (id - 1) * Interval
  /\ \A id \in Sent :
       /\ sentAt[id] \in Nat
       /\ id \in DOMAIN submitted => submitted[id] <= sentAt[id]

LInv == LTypeOK /\ Booked /\ Timed /\ StallsCount

-----------------------------------------------------------------------------
\* It holds when the run begins.
LEMMA LInvInit == Init => LInv
<1> SUFFICES ASSUME Init PROVE LInv
  OBVIOUS
<1> USE DEF Init, Registered, Sent, Start
<1>1. LTypeOK
  BY DEF LTypeOK
<1>2. Booked /\ Timed /\ StallsCount
  BY DEF Booked, Timed, StallsCount
<1> QED
  BY <1>1, <1>2 DEF LInv

\* Steps that leave the books as they are: the clock, and the places where the
\* client's thread waits.
LEMMA LInvQuiet ==
  ASSUME LInv, Tick \/ NextOrder \/ OfferTimedOut \/ EndOfLoop \/ Drained
  PROVE  LInv'
<1> USE LoadGenAssumption DEF LInv, LTypeOK, Booked, Timed, StallsCount, Registered, Sent
<1>1. CASE Tick
  BY <1>1 DEF Tick
<1>2. CASE NextOrder
  BY <1>2 DEF NextOrder
<1>3. CASE OfferTimedOut
  BY <1>3 DEF OfferTimedOut
<1>4. CASE EndOfLoop
  BY <1>4 DEF EndOfLoop
<1>5. CASE Drained
  BY <1>5 DEF Drained
<1> QED
  BY <1>1, <1>2, <1>3, <1>4, <1>5

\* Registering an order before it is offered keeps it.
LEMMA LInvRegister ==
  ASSUME LInv, Register PROVE LInv'
<1> USE LoadGenAssumption
<1>1. i \in Nat /\ sendTime \in Nat /\ sendTime <= now
  BY DEF LInv, LTypeOK, Register, sendTime, Start
<1>2. Interval > 0 => sendTime = Start + ((i + 1) - 1) * Interval
  BY <1>1 DEF sendTime
<1>3. /\ DOMAIN submitted' = DOMAIN submitted \cup {i + 1}
      /\ \A id \in DOMAIN submitted : id # i + 1 => submitted'[id] = submitted[id]
      /\ submitted'[i + 1] = sendTime
  BY DEF Register, put
<1>4. /\ Registered = 1..i /\ Registered' = 1..(i + 1) /\ Sent = 1..i /\ Sent' = Sent
  BY DEF Register, Registered, Sent
<1>5. LTypeOK'
  BY <1>3, <1>4, SMTT(60) DEF LInv, LTypeOK, Register
<1>6. Booked'
  <2>1. UNCHANGED <<acked, latencies, now, sentAt>> /\ i' = i
    BY DEF Register
  <2>2. \A k \in DOMAIN latencies : latencies[k].id \in Sent \ DOMAIN submitted'
    BY <1>1, <1>3, <1>4 DEF LInv, Booked
  <2>3. \A id \in 1..(i + 1) :
          id \in DOMAIN submitted' \/ \E k \in DOMAIN latencies : latencies[k].id = id
    BY <1>1, <1>3, <1>4 DEF LInv, Booked
  <2> QED
    BY <1>4, <2>1, <2>2, <2>3 DEF LInv, Booked
<1>7. Timed'
  <2> SUFFICES ASSUME NEW id \in DOMAIN submitted'
               PROVE  /\ submitted'[id] \in Nat /\ submitted'[id] <= now
                      /\ Interval > 0 => submitted'[id] = Start + (id - 1) * Interval
                      /\ id \in Sent => submitted'[id] <= sentAt[id]
    BY <1>4 DEF LInv, Timed, Register
  <2>1. CASE id = i + 1
    BY <1>1, <1>2, <1>3, <1>4, <2>1
  <2>2. CASE id # i + 1
    BY <1>3, <2>2 DEF LInv, Timed
  <2> QED
    BY <2>1, <2>2
<1>8. StallsCount'
  BY DEF LInv, StallsCount, Register
<1> QED
  BY <1>5, <1>6, <1>7, <1>8 DEF LInv

\* An offer that the cluster takes keeps it.
LEMMA LInvOfferTaken ==
  ASSUME LInv, OfferTaken PROVE LInv'
<1> USE LoadGenAssumption
<1>1. i \in Nat /\ now \in Nat
  BY DEF LInv, LTypeOK
<1>2. /\ Registered = 1..(i + 1) /\ Registered' = 1..(i + 1)
      /\ Sent = 1..i /\ Sent' = 1..(i + 1)
  BY DEF OfferTaken, Registered, Sent
<1>3. /\ DOMAIN sentAt' = 1..(i + 1) /\ DOMAIN reports' = 1..(i + 1)
      /\ \A id \in 1..i : sentAt'[id] = sentAt[id]
      /\ sentAt'[i + 1] = now
  BY <1>1, <1>2 DEF OfferTaken, put, LInv, LTypeOK
<1>4. UNCHANGED <<now, i, submitted, latencies, acked, inbox>> /\ pc' = "poll"
  BY DEF OfferTaken
<1>5. LTypeOK'
  BY <1>1, <1>2, <1>3, <1>4 DEF LInv, LTypeOK
<1>6. Booked'
  BY <1>1, <1>2, <1>4 DEF LInv, Booked
<1>7. Timed'
  BY <1>1, <1>2, <1>3, <1>4 DEF LInv, Timed
<1>8. StallsCount'
  BY <1>1, <1>2, <1>3, <1>4 DEF LInv, Booked, StallsCount
<1> QED
  BY <1>5, <1>6, <1>7, <1>8 DEF LInv

\* A report on its way to the client keeps it.
LEMMA LInvClusterReport ==
  ASSUME LInv, NEW id \in DOMAIN reports, ClusterReport(id) PROVE LInv'
<1>1. /\ UNCHANGED <<now, pc, i, submitted, latencies, acked, sentAt>>
      /\ DOMAIN reports' = DOMAIN reports
      /\ inbox' = Append(inbox, id) \/ inbox' = inbox
  BY DEF ClusterReport
<1>2. Registered' = Registered /\ Sent' = Sent /\ id \in Sent
  BY <1>1 DEF Registered, Sent, LInv, LTypeOK
<1>3. inbox' \in Seq(Sent)
  BY <1>1, <1>2 DEF LInv, LTypeOK
<1> QED
  BY <1>1, <1>2, <1>3 DEF LInv, LTypeOK, Booked, Timed, StallsCount

\* Handling a report keeps it.
LEMMA LInvPoll ==
  ASSUME LInv, Poll PROVE LInv'
<1> USE LoadGenAssumption
<1> DEFINE id == Head(inbox)
<1>1. /\ UNCHANGED <<now, pc, i, reports, sentAt>>
      /\ inbox # << >> /\ inbox' = Tail(inbox)
      /\ OnExecutionReport(id)
  BY DEF Poll
<1>2. Registered' = Registered /\ Sent' = Sent
  BY <1>1 DEF Registered, Sent
<1>3. id \in Sent /\ inbox' \in Seq(Sent)
  BY <1>1 DEF LInv, LTypeOK
<1>4. CASE id \notin DOMAIN submitted
  <2>1. UNCHANGED <<submitted, latencies, acked>>
    BY <1>1, <1>4 DEF OnExecutionReport
  <2> QED
    BY <1>1, <1>2, <1>3, <2>1 DEF LInv, LTypeOK, Booked, Timed, StallsCount
<1>5. CASE id \in DOMAIN submitted
  <2> DEFINE e == [id |-> id, latency |-> now - submitted[id], at |-> now]
  <2>1. /\ latencies' = Append(latencies, e) /\ acked' = acked + 1
        /\ submitted' = drop(submitted, id)
    BY <1>1, <1>5 DEF OnExecutionReport
  <2>2. /\ DOMAIN submitted' = DOMAIN submitted \ {id}
        /\ \A x \in DOMAIN submitted' : submitted'[x] = submitted[x]
    BY <2>1 DEF drop
  <2>3. /\ submitted[id] \in Nat /\ submitted[id] <= sentAt[id] /\ sentAt[id] \in Nat
        /\ Interval > 0 => submitted[id] = Start + (id - 1) * Interval
    BY <1>3, <1>5 DEF LInv, Timed
  <2>4. now \in Nat /\ id \in Nat /\ i \in Nat
    BY <1>3 DEF LInv, LTypeOK, Sent
  <2>5. e \in Latency
    BY <2>3, <2>4 DEF Latency
  <2>6. e.id = id /\ e.latency = now - submitted[id] /\ e.at = now
    OBVIOUS
  <2> HIDE DEF e, id
  <2>7. /\ latencies' \in Seq(Latency) /\ Len(latencies') = Len(latencies) + 1
        /\ DOMAIN latencies = 1..Len(latencies) /\ DOMAIN latencies' = 1..(Len(latencies) + 1)
        /\ \A k \in DOMAIN latencies : latencies'[k] = latencies[k]
        /\ latencies'[Len(latencies) + 1] = e
        /\ Len(latencies) \in Nat
    BY <2>1, <2>5 DEF LInv, LTypeOK
  <2>8. LTypeOK'
    BY <1>1, <1>2, <1>3, <2>1, <2>2, <2>7 DEF LInv, LTypeOK
  <2>9. Booked'
    <3>1. acked' = Len(latencies')
      BY <2>1, <2>7 DEF LInv, Booked
    <3>2. \A k \in DOMAIN latencies : latencies[k].id # id /\ latencies[k].id \in Sent
      BY <1>5 DEF LInv, Booked
    <3>3. \A j, k \in DOMAIN latencies' : latencies'[j].id = latencies'[k].id => j = k
      <4> SUFFICES ASSUME NEW j \in DOMAIN latencies', NEW k \in DOMAIN latencies',
                          latencies'[j].id = latencies'[k].id
                   PROVE  j = k
        OBVIOUS
      <4>1. CASE j \in DOMAIN latencies /\ k \in DOMAIN latencies
        BY <2>7, <4>1 DEF LInv, Booked
      <4>2. CASE j \notin DOMAIN latencies \/ k \notin DOMAIN latencies
        BY <2>6, <2>7, <3>2, <4>2
      <4> QED
        BY <4>1, <4>2
    <3>4. \A k \in DOMAIN latencies' : latencies'[k].id \in Sent \ DOMAIN submitted'
      <4> SUFFICES ASSUME NEW k \in DOMAIN latencies'
                   PROVE  latencies'[k].id \in Sent \ DOMAIN submitted'
        OBVIOUS
      <4>1. CASE k \in DOMAIN latencies
        BY <2>2, <2>7, <4>1 DEF LInv, Booked
      <4>2. CASE k \notin DOMAIN latencies
        BY <1>3, <2>2, <2>6, <2>7, <4>2
      <4> QED
        BY <4>1, <4>2
    <3>5. ASSUME NEW x \in Registered
          PROVE  x \in DOMAIN submitted' \/ \E k \in DOMAIN latencies' : latencies'[k].id = x
      <4>1. CASE x = id
        BY <2>6, <2>7, <4>1
      <4>2. CASE x # id
        BY <2>2, <2>7, <4>2 DEF LInv, Booked
      <4> QED
        BY <4>1, <4>2
    <3> QED
      BY <1>2, <3>1, <3>3, <3>4, <3>5 DEF Booked
  <2>10. Timed'
    BY <1>1, <1>2, <2>2 DEF LInv, Timed
  <2>11. StallsCount'
    <3> SUFFICES ASSUME NEW k \in DOMAIN latencies'
                 PROVE  /\ latencies'[k].latency >= latencies'[k].at - sentAt[latencies'[k].id]
                        /\ Interval > 0 =>
                             latencies'[k].latency >=
                               latencies'[k].at - (Start + (latencies'[k].id - 1) * Interval)
      BY <1>1 DEF StallsCount
    <3>1. CASE k \in DOMAIN latencies
      BY <2>7, <3>1 DEF LInv, StallsCount
    <3>2. CASE k \notin DOMAIN latencies
      <4>1. latencies'[k] = e
        BY <2>7, <3>2
      <4> QED
        BY <2>3, <2>4, <2>6, <4>1
    <3> QED
      BY <3>1, <3>2
  <2> QED
    BY <2>8, <2>9, <2>10, <2>11 DEF LInv
<1> QED
  BY <1>4, <1>5

\* Every step keeps it.
LEMMA LInvNext == LInv /\ [Next]_vars => LInv'
<1> SUFFICES ASSUME LInv, [Next]_vars PROVE LInv'
  OBVIOUS
<1>1. CASE Next
  BY <1>1, LInvQuiet, LInvRegister, LInvOfferTaken, LInvClusterReport, LInvPoll DEF Next, Client
<1>2. CASE UNCHANGED vars
  BY <1>2 DEF vars, LInv, LTypeOK, Booked, Timed, StallsCount, Registered, Sent
<1> QED
  BY <1>1, <1>2

\* It holds throughout a run.
LEMMA LInvAlways == Spec => []LInv
BY LInvInit, LInvNext, PTL DEF Spec

-----------------------------------------------------------------------------
\* However many orders, reports and stalls: every order that the cluster has is
\* waiting for its first report or counted exactly once (OnExecutionReport, and
\* the registration before SubmitOrder).
THEOREM CountedOnceAlways == Spec => []CountedOnce
<1>1. LInv => CountedOnce
  <2> SUFFICES ASSUME LInv PROVE CountedOnce
    OBVIOUS
  <2>1. Sent \subseteq Registered
    BY DEF Sent, Registered, LInv, LTypeOK
  <2> QED
    BY <2>1 DEF LInv, LTypeOK, Booked, CountedOnce
<1> QED
  BY <1>1, LInvAlways, PTL

\* Whatever the rate: no latency is shorter than the time since the order was
\* sent, nor than the time since its place in the schedule (the sendTime of main).
THEOREM StallsAlwaysCount == Spec => []StallsCount
<1>1. LInv => StallsCount
  BY DEF LInv
<1> QED
  BY <1>1, LInvAlways, PTL

-----------------------------------------------------------------------------
(* The test harness. *)

HTypeOK ==
  /\ test \in {"launch", "recv", "await", "body", "join", "use", "drain", "term", "kill",
             "stop", "ended"}
  /\ n \in 0..MaxLaunches /\ cur \in 0..n /\ target \in 0..n
  /\ proc \in [Launches -> {"none", "dead"} \cup Live]
  /\ thread \in [Launches -> {"none", "forking", "waiting", "pooled", "gone"}]
  /\ exited \in [Launches -> BOOLEAN]
  /\ dirs \in BOOLEAN /\ alive \in BOOLEAN

\* What a process, the thread that forked it and its channel know of each other.
Forked(l) ==
  /\ l > n => thread[l] = "none"
  /\ thread[l] \in {"none", "forking"} => proc[l] = "none"
  /\ thread[l] \in {"pooled", "gone"} => proc[l] \in {"none", "dead"}
  /\ exited[l] => proc[l] = "dead"

\* The only launch that may have a process, if any may.
Active(l) ==
  \/ test = "stop" /\ l = target
  \/ test \notin {"launch", "ended", "stop"} /\ l = n

\* The places of the test goroutine at which it has the driver of the last launch.
Has == {"body", "join", "use", "drain", "term", "kill"}

HInv ==
  /\ HTypeOK
  /\ \A l \in Launches : Forked(l)
  /\ \A l \in Launches :
       /\ proc[l] \in Live => Active(l) /\ dirs
       /\ thread[l] = "forking" => test = "recv" /\ l = n
       /\ proc[l] = "term" /\ alive => test = "term" /\ l = cur
  /\ test \in {"launch", "term", "kill"} => n < MaxLaunches
  /\ test = "launch" => cur = n
  /\ test \in {"recv", "await"} => n > 0 /\ cur # n /\ dirs
  /\ test = "await" => proc[n] # "none"
  /\ test \in Has => n > 0 /\ cur = n /\ dirs
  /\ test = "stop" => target # 0 /\ (target = n \/ target = cur)
  /\ cur # 0 /\ (test = "launch" \/ cur # n) => exited[cur]
  /\ cur = 0 => n <= 1
  /\ test = "ended" /\ dirs => n = 1 /\ proc[1] = "none"

-----------------------------------------------------------------------------
\* It holds before the first launch.
LEMMA HInvInit == HarnessInit => HInv
<1> SUFFICES ASSUME HarnessInit PROVE HInv
  OBVIOUS
<1> USE LaunchesAssumption DEF HarnessInit
<1>1. HTypeOK
  <2>1. n \in 0..MaxLaunches /\ cur \in 0..n /\ target \in 0..n
    OBVIOUS
  <2>2. /\ proc \in [Launches -> {"none", "dead"} \cup Live]
        /\ thread \in [Launches -> {"none", "forking", "waiting", "pooled", "gone"}]
        /\ exited \in [Launches -> BOOLEAN]
    OBVIOUS
  <2> QED
    BY <2>1, <2>2 DEF HTypeOK
<1>2. \A l \in Launches : Forked(l)
  BY DEF Forked, Launches
<1> QED
  BY <1>1, <1>2 DEF HInv, Active, Has, Live, Launches

\* The steps of processes and threads.
LEMMA HInvProcess ==
  ASSUME HInv, NEW l \in Launches,
         Fork(l) \/ Reap(l) \/ ThreadDies(l) \/ ProcReady(l) \/ ProcFails(l) \/ ProcExits(l)
  PROVE  HInv'
<1> USE LaunchesAssumption DEF HInv, HTypeOK, Forked, Active, Has, Live, Launches, launcher, runner
<1>1. CASE Fork(l)
  <2>1. thread[l] = "forking" /\ test = "recv" /\ l = n /\ dirs
    BY <1>1 DEF Fork
  <2>2. CASE proc' = [proc EXCEPT ![l] = "up"] /\ thread' = [thread EXCEPT ![l] = "waiting"]
    BY <1>1, <2>1, <2>2 DEF Fork
  <2>3. CASE thread' = [thread EXCEPT ![l] = "pooled"] /\ UNCHANGED proc
    BY <1>1, <2>1, <2>3 DEF Fork
  <2> QED
    BY <1>1, <2>2, <2>3 DEF Fork
<1>2. CASE Reap(l)
  BY <1>2 DEF Reap
<1>3. CASE ThreadDies(l)
  BY <1>3 DEF ThreadDies, sigterm
<1>4. CASE ProcReady(l)
  BY <1>4 DEF ProcReady
<1>5. CASE ProcFails(l)
  BY <1>5 DEF ProcFails
<1>6. CASE ProcExits(l)
  BY <1>6 DEF ProcExits
<1> QED
  BY <1>1, <1>2, <1>3, <1>4, <1>5, <1>6

\* The steps of the test goroutine that launch and stop a driver.
LEMMA HInvLaunch ==
  ASSUME HInv,
         Launch \/ LaunchFails \/ Started \/ Ready \/ ReadyTimesOut \/ StopReturns
  PROVE  HInv'
<1> USE LaunchesAssumption DEF HInv, HTypeOK, Forked, Active, Has, Live, Launches,
                               launcher, runner, at, callStop, fatal, sigkill
<1>1. CASE Launch
  BY <1>1 DEF Launch
<1>2. CASE LaunchFails
  <2>1. CASE cur # 0 /\ callStop(cur)
    <3>1. cur \in Launches /\ proc[cur] = "dead" /\ proc' = proc
      BY <1>2, <2>1 DEF LaunchFails
    <3>2. n' = n + 1 /\ n' \in 0..MaxLaunches /\ cur' = cur /\ target' = cur /\ test' = "stop"
      BY <1>2, <2>1 DEF LaunchFails
    <3>3. \A l \in Launches : proc[l] \notin Live /\ thread[l] # "forking"
      BY <1>2 DEF LaunchFails
    <3>4. dirs' \in BOOLEAN /\ UNCHANGED <<thread, exited, alive>>
      BY <1>2 DEF LaunchFails
    <3>5. HTypeOK'
      BY <3>1, <3>2, <3>4
    <3>6. (\A l \in Launches : Forked(l))'
      BY <3>1, <3>2, <3>4
    <3> QED
      BY <3>1, <3>2, <3>3, <3>4, <3>5, <3>6, <1>2 DEF LaunchFails
  <2>2. CASE cur = 0 /\ test' = "ended" /\ UNCHANGED <<target, proc>>
    <3>1. n = 0 /\ n' = 1 /\ UNCHANGED <<cur, target, proc, thread, exited, alive>>
      BY <1>2, <2>2 DEF LaunchFails
    <3>2. dirs' \in BOOLEAN
      BY <1>2 DEF LaunchFails
    <3>3. \A l \in Launches : proc[l] = "none" /\ thread[l] # "forking"
      BY <3>1
    <3>4. HTypeOK'
      BY <2>2, <3>1, <3>2
    <3> QED
      BY <2>2, <3>1, <3>2, <3>3, <3>4
  <2> QED
    BY <1>2, <2>1, <2>2 DEF LaunchFails
<1>3. CASE Started
  BY <1>3 DEF Started
<1>4. CASE Ready
  BY <1>4 DEF Ready
<1>5. CASE ReadyTimesOut
  BY <1>5 DEF ReadyTimesOut
<1>6. CASE StopReturns
  <2>1. proc[target] = "dead" /\ \A l \in Launches : proc[l] \notin Live
    BY <1>6 DEF StopReturns
  <2>2. CASE target = n /\ cur # n /\ cur # 0 /\ callStop(cur)
    <3>1. cur \in Launches /\ proc[cur] = "dead" /\ proc' = proc
      BY <2>2
    <3> QED
      BY <1>6, <2>1, <2>2, <3>1, ZenonT(60) DEF StopReturns
  <2>3. CASE test' = "ended" /\ UNCHANGED <<target, proc>>
    BY <1>6, <2>1, <2>3 DEF StopReturns
  <2> QED
    BY <1>6, <2>2, <2>3 DEF StopReturns
<1> QED
  BY <1>1, <1>2, <1>3, <1>4, <1>5, <1>6

\* The other steps of the test, of its engine and its end.
LEMMA HInvRun ==
  ASSUME HInv,
         \/ StartEngine \/ Joined \/ ShutdownEngine \/ FatalInUse \/ EngineDrained
         \/ ShutDown \/ ShutdownTimesOut \/ TestDies \/ EngineJoins \/ EngineEnds
  PROVE  HInv'
<1> USE LaunchesAssumption DEF HInv, HTypeOK, Forked, Active, Has, Live, Launches,
                               launcher, runner, at, callStop, fatal, sigkill, sigterm
<1>1. CASE StartEngine
  BY <1>1 DEF StartEngine
<1>2. CASE Joined
  BY <1>2 DEF Joined
<1>3. CASE ShutdownEngine
  BY <1>3 DEF ShutdownEngine
<1>4. CASE FatalInUse
  BY <1>4 DEF FatalInUse
<1>5. CASE EngineDrained
  <2>1. CASE signalDriver
    <3>1. cur \in Launches /\ cur = n /\ test' = "term" /\ n < MaxLaunches /\ dirs
      BY <1>5, <2>1 DEF EngineDrained, signalDriver
    <3>2. UNCHANGED <<n, cur, target, thread, exited, dirs, alive>>
      BY <1>5, <2>1 DEF EngineDrained, signalDriver
    <3>3. proc' = [proc EXCEPT ![cur] = IF @ \in {"up", "ready"} THEN "term" ELSE @]
      BY <2>1 DEF signalDriver
    <3>4. HTypeOK'
      BY <3>1, <3>2, <3>3
    <3>5. (\A l \in Launches : Forked(l))'
      BY <3>1, <3>2, <3>3
    <3> QED
      BY <1>5, <3>1, <3>2, <3>3, <3>4, <3>5 DEF EngineDrained
  <2>2. CASE callStop(cur)
    BY <1>5, <2>2 DEF EngineDrained
  <2> QED
    BY <1>5, <2>1, <2>2 DEF EngineDrained
<1>6. CASE ShutDown
  BY <1>6 DEF ShutDown
<1>7. CASE ShutdownTimesOut
  BY <1>7 DEF ShutdownTimesOut
<1>8. CASE TestDies
  <2>1. \A l \in Launches : proc'[l] = IF proc[l] \in {"up", "ready"} THEN "term" ELSE proc[l]
    BY <1>8 DEF TestDies
  <2>2. HTypeOK'
    BY <1>8 DEF TestDies
  <2> QED
    BY <1>8, <2>1, <2>2 DEF TestDies
<1>9. CASE EngineJoins \/ EngineEnds
  BY <1>9 DEF EngineJoins, EngineEnds
<1> QED
  BY <1>1, <1>2, <1>3, <1>4, <1>5, <1>6, <1>7, <1>8, <1>9

\* Every step keeps it.
LEMMA HInvNext == HInv /\ [HarnessNext]_harnessVars => HInv'
<1> SUFFICES ASSUME HInv, [HarnessNext]_harnessVars PROVE HInv'
  OBVIOUS
<1>1. CASE HarnessNext
  BY <1>1, HInvProcess, HInvLaunch, HInvRun DEF HarnessNext, TestStep
<1>2. CASE UNCHANGED harnessVars
  BY <1>2 DEF harnessVars, launcher, runner, HInv, HTypeOK, Forked, Active
<1> QED
  BY <1>1, <1>2

\* It holds throughout a test.
LEMMA HInvAlways == HarnessSpec => []HInv
BY HInvInit, HInvNext, PTL DEF HarnessSpec

-----------------------------------------------------------------------------
\* However often a test restarts its driver, two drivers never run over the same
\* directories, and no driver loses its directories (Shutdown, Stop).
THEOREM OneDriverAlways == HarnessSpec => []OneDriverPerDirectories
<1>1. HInv => OneDriverPerDirectories
  BY DEF HInv, Active, OneDriverPerDirectories, live
<1> QED
  BY <1>1, HInvAlways, PTL

\* No driver is terminated but by Shutdown, whatever threads the runtime ends
\* (LockOSThread in launchDriver).
THEOREM TerminatedOnPurpose == HarnessSpec => []NoStrayTermination
<1>1. HInv => NoStrayTermination
  BY DEF HInv, NoStrayTermination
<1> QED
  BY <1>1, HInvAlways, PTL

\* A test that has ended leaves neither driver nor directories, however its
\* launches failed (Stop, launchDriver).
THEOREM NothingLeftBehind == HarnessSpec => []NothingLeft
<1>1. HInv => NothingLeft
  BY DEF HInv, Active, NothingLeft, live
<1> QED
  BY <1>1, HInvAlways, PTL
=============================================================================
