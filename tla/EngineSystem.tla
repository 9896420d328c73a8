---------------------------- MODULE EngineSystem ----------------------------
(***************************************************************************)
(* The brightness engine as it runs: the engine thread of module Engine    *)
(* and the worker threads of module Worker over the channels of module     *)
(* Protocol, and what the two promise together.                            *)
(***************************************************************************)
EXTENDS Engine, Worker

systemVars == <<vars, workerVars>>

Init == EngineInit /\ WorkerInit

\* The engine is gone and so is every thread it started.
Terminated ==
  /\ phase = "stopped"
  /\ \A w \in Workers : thread[w] # "running"
  /\ UNCHANGED systemVars

Next ==
  \/ EngineNext /\ UNCHANGED workerVars
  \/ WorkerNext /\ UNCHANGED engineVars
  \/ Terminated

Spec == Init /\ [][Next]_systemVars

-----------------------------------------------------------------------------
(* Fairness.  The engine drains its acks and its timers go off; a worker   *)
(* goes on unless its driver call hangs.  Nothing is assumed of the app,   *)
(* of the platform or of a hung call.                                      *)

EngineFairness ==
  /\ WF_systemVars(\E seen \in SUBSET Displays : Startup(seen) /\ UNCHANGED workerVars)
  /\ WF_systemVars(\E seen \in SUBSET Displays : DebounceFires(seen) /\ UNCHANGED workerVars)
  /\ WF_systemVars(HandleAck /\ UNCHANGED workerVars)
  /\ \A d \in Displays : WF_systemVars(WatchdogFires({d}) /\ UNCHANGED workerVars)

WorkerFairness ==
  \A w \in Workers :
    WF_systemVars(w \notin hung /\ WorkerStep(w) /\ UNCHANGED engineVars)

FairSpec == Spec /\ EngineFairness /\ WorkerFairness

-----------------------------------------------------------------------------
(* Types, and the engine's guarantees whatever its workers do.             *)

\* Every variable has its type.
TypeOK == EngineTypeOK /\ WorkerTypeOK

\* The workers only ever do what the engine's open specification allows them,
\* so everything proved of Engine's OpenSpec holds of the running system.
WorkersKeepToTheirSide == OpenSpec

-----------------------------------------------------------------------------
(* What the engine and its workers promise together.                       *)

\* An operation the watchdog watches is still on its way: in the worker's
\* channel, queued or being performed, or answered by an ack the engine has
\* yet to read (or the worker's end is).  The watchdog never times an
\* operation that was lost, so it greys no display whose driver answers.
OnItsWay(d, key) ==
  LET w == Registered(d)
      s == inflight[d][key]
  IN
  \/ \E i \in DOMAIN inbox[w] : inbox[w][i].op = key /\ inbox[w][i].seq = s
  \/ /\ Receiving(w)
     /\ \/ key \in Feature /\ local[w].latest[key].seq = s
        \/ key \in Feature /\ local[w].feature = key /\ local[w].write.seq = s
        \/ key = "Get" /\ s \in local[w].gets
  \/ \E i \in DOMAIN acks :
       /\ acks[i].id = d
       /\ \/ acks[i].outcome \in {"Set", "Get"} /\ acks[i].key = key /\ acks[i].seq = s
          \/ /\ acks[i].outcome \in {"Panicked", "OpenFailed"}
             /\ acks[i].generation = workers[d]

NoLostOperation ==
  phase = "running" =>
    \A d \in Displays, key \in InflightKey :
      inflight[d][key] # NoSeq => HasWorker(d) /\ OnItsWay(d, key)

\* A display is greyed for its own worker's sake only: an ack that greys it finds
\* the registered worker's thread gone.  A panic or a failed open of a worker
\* that was replaced since never costs the replacement its place.
NoBystanderGreyed ==
  [][\A d \in unresponsive' \ unresponsive :
       \/ thread[Registered(d)] = "exited"
       \/ acks' = acks /\ d \in Watched]_systemVars

\* A detached worker is not a second writer: of all it had queued, at most the
\* one call it was in when it was retired still reaches the panel.
AtMostOneLateWrite == \A w \in Workers : late[w] <= 1

\* Nothing is queued, under way or unread for the display.
Quiet(d) ==
  LET w == Registered(d) IN
  /\ Reachable(d)
  /\ inbox[w] = <<>> /\ At(w, "parked") /\ Queued(local[w]) = {}
  /\ \A i \in DOMAIN acks : acks[i].id # d

\* When a display is quiet its panel is where the level the engine recorded
\* puts it, however the writes of several commands and replugs coalesced --
\* unless a driver failed, a late write landed or someone else moved it.
PanelFollowsLevel ==
  \A d \in Displays :
    Quiet(d) /\ d \notin disturbed /\ records[d].level # NoLevel =>
      \/ Distance(panel[d], pct_to_raw(records[d].level, PanelMax[d])) <= 1
      \/ raw_to_pct(panel[d], PanelMax[d]) = records[d].level

\* Duja's own writes are never echoed back as an external change: an ack that
\* is about to be reported as LevelRead means something else moved the panel.
AboutToReflect ==
  /\ phase = "running" /\ acks # <<>> /\ ack.outcome = "Get"
  /\ Fresh(ack.id, "Get", ack.seq) /\ ack.ok
  /\ IsPollReading /\ Reflects

NoEcho == AboutToReflect => ack.id \in disturbed

\* A panel whose driver works is never taken for one without brightness
\* control (on panels with the default range: see FallbackProvesNoControl).
WorkingPanelKeepsHardware ==
  \A d \in Displays :
    records[d].software_forced => d \in disturbed

-----------------------------------------------------------------------------
(* Liveness.                                                               *)

\* Every watched operation ends: it is answered, or the watchdog gives it up,
\* so a display is never watched for ever.
InFlightEnds ==
  \A d \in Displays :
    (phase = "running" /\ d \in Watched) ~> (phase = "stopped" \/ d \notin Watched)

\* When the stimuli end, every display with a worker comes to rest: nothing
\* queued is left unwritten, even if drivers hang.  A read-back that hangs
\* is not watched: it is found out by the next command.
ComesToRest ==
  \A d \in Displays :
    <>[](HasWorker(d) => \/ Quiet(d)
                         \/ Registered(d) \in hung /\ At(Registered(d), "verifying"))

\* A worker that was retired leaves unless its driver never returns.
RetiredWorkersLeave ==
  \A w \in Workers :
    (retired[w]) ~> (thread[w] = "exited" \/ w \in hung)

-----------------------------------------------------------------------------
(* What the documentation says and the code does not do: checked by a run  *)
(* that TLC must find a counterexample to.                                 *)

\* worker.rs: a worker checks the retired flag after every controller call and
\* exits immediately when it is set.  A worker that finds itself retired after
\* a verification read goes on to the next write of the round.
ExitsOnceSeenRetired ==
  [][\A w \in Workers : At(w, "verifying") /\ retired[w] => ~At(w, "writing")']_systemVars

\* protocol.rs: a SoftwareFallback is emitted from a signal that the monitor has
\* no working hardware brightness control, such as a read-back that proves that
\* the panel did not move.  Before the first reading the engine scales with a
\* default maximum of 100; a panel of a smaller range that is at its maximum
\* already is asked for more, its controller clamps the write, and the panel
\* that stays where it was asked to be is taken for one that cannot move.
FallbackProvesNoControl ==
  \A i \in DOMAIN acks : acks[i].outcome = "SoftwareFallback" => acks[i].id \in disturbed

=============================================================================
