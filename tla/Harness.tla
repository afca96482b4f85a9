------------------------------- MODULE Harness -------------------------------
(***************************************************************************)
(* The system test harness (go/systest/harness.go): the goroutine of the   *)
(* test, which launches, shuts down, restarts and stops a media driver     *)
(* process over one set of directories; per launch, the goroutine that     *)
(* forks the process and waits for it on a thread of its own; and the      *)
(* goroutine that runs the service agent.  Every select with a time limit  *)
(* may take either branch.                                                 *)
(***************************************************************************)
EXTENDS Naturals

CONSTANT MaxLaunches  \* bound on the launches of one test

ASSUME LaunchesAssumption == MaxLaunches \in Nat \ {0}

Launches == 1..MaxLaunches

VARIABLES test,    \* where the test goroutine is
          n,       \* the last launch
          cur,     \* the launch whose driver the test has, 0 before the first
          target,  \* the launch that Stop is called for
          proc,    \* per launch: the operating system process
          thread,  \* per launch: the thread that forks the process
          exited,  \* per launch: the channel exited is closed
          dirs,    \* the directories of the driver exist
          loop,    \* the goroutine of the engine runner
          stop,    \* the stop flag of the engine runner
          alive    \* the test process is alive

launcher == <<thread, exited>>
runner == <<loop, stop>>
harnessVars == <<test, n, cur, target, proc, launcher, dirs, runner, alive>>

HarnessInit ==
  /\ test = "launch" /\ n = 0 /\ cur = 0 /\ target = 0
  /\ proc = [l \in Launches |-> "none"]
  /\ thread = [l \in Launches |-> "none"]
  /\ exited = [l \in Launches |-> FALSE]
  /\ dirs = FALSE
  /\ loop = "none" /\ stop = FALSE
  /\ alive = TRUE

\* A process has started, is ready for connections, has been told to terminate
\* or is being killed.
Live == {"up", "ready", "term", "killed"}

sigterm(p) == IF p \in {"up", "ready"} THEN "term" ELSE p
sigkill(p) == IF p \in Live THEN "killed" ELSE p

at(place) == alive /\ test = place

-----------------------------------------------------------------------------
(* The process and the thread that forked it. *)

\* Mutant: the thread is unlocked as soon as the process has started.
ForkUnlocked(l) ==
  /\ alive /\ thread[l] = "forking"
  /\ proc' = [proc EXCEPT ![l] = "up"]
  /\ thread' = [thread EXCEPT ![l] = "pooled"]
  /\ UNCHANGED <<test, n, cur, target, exited, dirs, runner, alive>>

\* cmd.Start: the goroutine goes on to Wait, or returns and gives up its thread.
Fork(l) ==
  /\ alive /\ thread[l] = "forking"
  /\ \/ /\ proc' = [proc EXCEPT ![l] = "up"]
        /\ thread' = [thread EXCEPT ![l] = "waiting"]
     \/ /\ thread' = [thread EXCEPT ![l] = "pooled"]
        /\ UNCHANGED proc
  /\ UNCHANGED <<test, n, cur, target, exited, dirs, runner, alive>>

\* cmd.Wait returns; the channel is closed and the thread unlocked.
Reap(l) ==
  /\ alive /\ thread[l] = "waiting" /\ proc[l] = "dead"
  /\ exited' = [exited EXCEPT ![l] = TRUE]
  /\ thread' = [thread EXCEPT ![l] = "pooled"]
  /\ UNCHANGED <<test, n, cur, target, proc, dirs, runner, alive>>

\* The runtime may end a thread that no goroutine has locked.  The kernel then
\* sends what setupPdeathsig asked for to the children of the thread.
ThreadDies(l) ==
  /\ alive /\ thread[l] = "pooled"
  /\ thread' = [thread EXCEPT ![l] = "gone"]
  /\ proc' = [proc EXCEPT ![l] = sigterm(@)]
  /\ UNCHANGED <<test, n, cur, target, exited, dirs, runner, alive>>

\* The process gets ready, fails by itself, or does what a signal told it to.
ProcReady(l) ==
  /\ proc[l] = "up"
  /\ proc' = [proc EXCEPT ![l] = "ready"]
  /\ UNCHANGED <<test, n, cur, target, launcher, dirs, runner, alive>>

ProcFails(l) ==
  /\ proc[l] \in {"up", "ready"}
  /\ proc' = [proc EXCEPT ![l] = "dead"]
  /\ UNCHANGED <<test, n, cur, target, launcher, dirs, runner, alive>>

ProcExits(l) ==
  /\ proc[l] \in {"term", "killed"}
  /\ proc' = [proc EXCEPT ![l] = "dead"]
  /\ UNCHANGED <<test, n, cur, target, launcher, dirs, runner, alive>>

\* Mutant: no Pdeathsig, as off Linux.
TestDiesQuietly ==
  /\ alive /\ test # "ended"
  /\ alive' = FALSE
  /\ UNCHANGED <<test, n, cur, target, proc, launcher, dirs, runner>>

\* The test process dies, and its threads with it.
TestDies ==
  /\ alive /\ test # "ended"
  /\ alive' = FALSE
  /\ proc' = [l \in Launches |-> sigterm(proc[l])]
  /\ UNCHANGED <<test, n, cur, target, launcher, dirs, runner>>

-----------------------------------------------------------------------------
(* The test goroutine: launch and stop. *)

\* Stop(x) up to its wait.
callStop(x) ==
  /\ target' = x
  /\ proc' = [proc EXCEPT ![x] = sigkill(@)]
  /\ test' = "stop"

\* t.Fatal: the deferred Stop, which the test registers with its first driver.
fatal ==
  \/ cur # 0 /\ callStop(cur)
  \/ cur = 0 /\ test' = "ended" /\ UNCHANGED <<target, proc>>

\* StartClusteredMediaDriver or Restart, up to the receive from started.
Launch ==
  /\ at("launch")
  /\ n' = n + 1
  /\ dirs' = TRUE
  /\ thread' = [thread EXCEPT ![n + 1] = "forking"]
  /\ test' = "recv"
  /\ UNCHANGED <<cur, target, proc, exited, runner, alive>>

\* The early returns of launchNode and launchDriver; the first launch may have
\* made directories by then.
LaunchFails ==
  /\ at("launch")
  /\ n' = n + 1
  /\ \/ UNCHANGED dirs
     \/ dirs' = TRUE
  /\ fatal
  /\ UNCHANGED <<cur, launcher, runner, alive>>

\* The receive from started, of nil or of the error of cmd.Start.
Started ==
  /\ at("recv")
  /\ \/ proc[n] # "none" /\ test' = "await" /\ UNCHANGED <<target, proc>>
     \/ proc[n] = "none" /\ thread[n] \in {"pooled", "gone"} /\ fatal
  /\ UNCHANGED <<n, cur, launcher, dirs, runner, alive>>

\* awaitMediaDriverReady connects.
Ready ==
  /\ at("await") /\ proc[n] = "ready"
  /\ cur' = n
  /\ test' = "body"
  /\ UNCHANGED <<n, target, proc, launcher, dirs, runner, alive>>

\* Mutant: a driver that does not get ready is left alone.
ReadyTimesOutLeaves ==
  /\ at("await")
  /\ fatal
  /\ UNCHANGED <<n, cur, launcher, dirs, runner, alive>>

\* awaitMediaDriverReady gives up and launchDriver stops the new driver.
ReadyTimesOut ==
  /\ at("await")
  /\ callStop(n)
  /\ UNCHANGED <<n, cur, launcher, dirs, runner, alive>>

\* Stop after its wait.  A failed launch goes on to fail the test, whose deferred
\* Stop is the one of the driver before; otherwise this was the deferred one.
StopReturns ==
  /\ at("stop") /\ exited[target]
  /\ dirs' = FALSE
  /\ IF target = n /\ cur # n THEN fatal ELSE test' = "ended" /\ UNCHANGED <<target, proc>>
  /\ UNCHANGED <<n, cur, launcher, runner, alive>>

-----------------------------------------------------------------------------
(* The engine runner, and the rest of the test. *)

\* startEngine up to its select.
StartEngine ==
  /\ at("body")
  /\ \/ loop' = "starting" /\ stop' = FALSE /\ test' = "join" /\ UNCHANGED <<target, proc>>
     \/ fatal /\ UNCHANGED runner
  /\ UNCHANGED <<n, cur, launcher, dirs, alive>>

\* The goroutine: OnStart returns, or fails, or DoWork panics without a driver;
\* once stop is set it leaves the loop, unless DoWork does not return.
EngineJoins ==
  /\ alive /\ loop = "starting" /\ proc[cur] = "ready"
  /\ loop' = "running"
  /\ UNCHANGED <<test, n, cur, target, proc, launcher, dirs, stop, alive>>

EngineEnds ==
  /\ alive
  /\ \/ loop = "starting"
     \/ loop = "running" /\ (stop \/ proc[cur] # "ready")
  /\ loop' = "ended"
  /\ UNCHANGED <<test, n, cur, target, proc, launcher, dirs, stop, alive>>

\* The select of startEngine: nil, an error, or the time limit.
Joined ==
  /\ at("join")
  /\ \/ loop = "running" /\ test' = "use" /\ UNCHANGED <<target, proc>>
     \/ fatal
  /\ UNCHANGED <<n, cur, launcher, dirs, runner, alive>>

\* engineRunner.shutdown up to its select.
ShutdownEngine ==
  /\ at("use")
  /\ stop' = TRUE
  /\ test' = "drain"
  /\ UNCHANGED <<n, cur, target, proc, launcher, dirs, loop, alive>>

\* t.Fatal where the test has not deferred the shutdown of its engine.  What else
\* a test does while it uses the cluster, ClusterTool included, is left out: it is
\* taken to return, or to fail here.
FatalInUse ==
  /\ at("use")
  /\ fatal
  /\ UNCHANGED <<n, cur, launcher, dirs, runner, alive>>

\* Shutdown of the driver, up to its select.
signalDriver ==
  /\ n < MaxLaunches
  /\ proc' = [proc EXCEPT ![cur] = sigterm(@)]
  /\ test' = "term"
  /\ UNCHANGED target

\* Mutant: shutdown waits for the loop without a time limit.
EngineDrainedPatiently ==
  /\ at("drain") /\ loop = "ended"
  /\ signalDriver \/ callStop(cur)
  /\ UNCHANGED <<n, cur, launcher, dirs, runner, alive>>

\* The select of engineRunner.shutdown, on done or on the time limit, and then
\* either the restart of the driver or the end of the test.
EngineDrained ==
  /\ at("drain")
  /\ signalDriver \/ callStop(cur)
  /\ UNCHANGED <<n, cur, launcher, dirs, runner, alive>>

\* The select of Shutdown: the process has exited.
ShutDown ==
  /\ at("term") \/ at("kill")
  /\ exited[cur]
  /\ test' = "launch"
  /\ UNCHANGED <<n, cur, target, proc, launcher, dirs, runner, alive>>

\* Mutant: after Kill, Shutdown does not wait.
ShutdownTimesOutAtOnce ==
  /\ at("term")
  /\ proc' = [proc EXCEPT ![cur] = sigkill(@)]
  /\ test' = "launch"
  /\ UNCHANGED <<n, cur, target, launcher, dirs, runner, alive>>

\* The select of Shutdown: the time limit.  Kill, and wait again.
ShutdownTimesOut ==
  /\ at("term")
  /\ proc' = [proc EXCEPT ![cur] = sigkill(@)]
  /\ test' = "kill"
  /\ UNCHANGED <<n, cur, target, launcher, dirs, runner, alive>>

TestStep ==
  \/ Launch \/ LaunchFails \/ Started \/ Ready \/ ReadyTimesOut \/ StopReturns
  \/ StartEngine \/ Joined \/ ShutdownEngine \/ FatalInUse \/ EngineDrained
  \/ ShutDown \/ ShutdownTimesOut

HarnessNext ==
  \/ TestStep \/ TestDies
  \/ \E l \in Launches : \/ Fork(l) \/ Reap(l) \/ ThreadDies(l)
                         \/ ProcReady(l) \/ ProcFails(l) \/ ProcExits(l)
  \/ EngineJoins \/ EngineEnds

\* Goroutines are scheduled, time limits pass and a process that was told to
\* terminate does so; a driver need not get ready nor an engine stop.
Fairness ==
  /\ WF_harnessVars(TestStep)
  /\ \A l \in Launches : /\ WF_harnessVars(Fork(l)) /\ WF_harnessVars(Reap(l))
                         /\ WF_harnessVars(ProcExits(l))

HarnessSpec == HarnessInit /\ [][HarnessNext]_harnessVars /\ Fairness

-----------------------------------------------------------------------------
live == {l \in Launches : proc[l] \in Live}

\* Two drivers never run over the same directories, and no driver has its
\* directories removed: Shutdown and Stop wait for the process, not for the
\* signal, also after Kill.
OneDriverPerDirectories ==
  /\ \A k, l \in live : k = l
  /\ live # {} => dirs

\* While the test process lives, a driver is told to terminate by Shutdown only:
\* the thread that forked it is not let go before it has exited.
NoStrayTermination ==
  alive => \A l \in Launches : proc[l] = "term" => l = cur /\ test = "term"

\* A test that has ended leaves no driver and no directories, unless it never had
\* a driver to stop (the deferred Stop, and Stop in launchDriver).
NothingLeft ==
  test = "ended" => /\ live = {}
                    /\ dirs => n = 1 /\ proc[1] = "none"

\* Every wait of the harness for a driver or an engine ends (launchDriver, Shutdown,
\* Stop, startEngine, shutdown): the test comes to its end, or its process dies.
\* ClusterTool, which waits for its command without a limit, is not among them.
TestEnds == <>(test = "ended" \/ ~alive)

\* The death of the test process takes the driver with it (setupPdeathsig).
NotStranded == ~alive ~> live = {}
=============================================================================
