---------------------------- MODULE EngineProofs ----------------------------
(***************************************************************************)
(* What module Engine promises, proved for every set of displays, every    *)
(* level and input, every bound, and whatever the worker threads do.       *)
(***************************************************************************)
EXTENDS Engine, TLAPS

-----------------------------------------------------------------------------
(* Scaling.                                                                *)

LEMMA PctToRawType ==
  ASSUME NEW pct \in 0 .. 100, NEW max \in Nat
  PROVE  pct_to_raw(pct, max) \in Nat
<1>1. pct * max \in Nat
  BY SMT
<1> QED
  BY <1>1, SMT DEF pct_to_raw

\* A reading is a percentage whatever the panel answers, even above its own
\* maximum or with a maximum of zero.
THEOREM ReadingIsAPercentage ==
  ASSUME NEW current \in Nat, NEW max \in Nat
  PROVE  raw_to_pct(current, max) \in 0 .. 100
<1>1. CASE max = 0
  BY <1>1 DEF raw_to_pct
<1>2. CASE max # 0 /\ current >= max
  BY <1>2 DEF raw_to_pct
<1>3. CASE max # 0 /\ current < max
  <2>1. /\ (current * 100) \div max \in Int
        /\ 0 <= (current * 100) \div max
        /\ (current * 100) \div max <= 100
    BY <1>3, SMT
  <2> QED
    BY <1>3, <2>1 DEF raw_to_pct
<1> QED
  BY <1>1, <1>2, <1>3

-----------------------------------------------------------------------------
(* Types.                                                                  *)

LEMMA SightedType ==
  ASSUME NEW r \in DisplayRecord, NEW seen \in BOOLEAN
  PROVE  ApplyEnumeration(r, seen) \in DisplayRecord
<1>1. (r.software_forced /\ r.state # "disconnected") \in BOOLEAN
  OBVIOUS
<1> QED
  BY <1>1 DEF DisplayRecord, ApplyEnumeration, Connected

LEMMA RecordType ==
  ASSUME NEW r \in DisplayRecord
  PROVE  /\ MarkUnresponsive(r) \in DisplayRecord
         /\ MarkSoftwareOnly(r) \in DisplayRecord
         /\ ClearSoftwareForced(r) \in DisplayRecord
<1>1. Known(r) \in BOOLEAN
  BY DEF Known
<1> QED
  BY <1>1 DEF DisplayRecord, MarkUnresponsive, MarkSoftwareOnly, ClearSoftwareForced

LEMMA LevelType ==
  ASSUME NEW r \in DisplayRecord, NEW pct \in 0 .. 100
  PROVE  RecordUserLevel(r, pct) \in DisplayRecord
BY DEF DisplayRecord, RecordUserLevel, NoLevel

LEMMA CommandType ==
  ASSUME NEW s \in Nat, NEW raw \in Nat, NEW key \in Feature
  PROVE  /\ SetCommand(key, raw, s) \in WorkerCommand
         /\ GetCommand(s) \in WorkerCommand
         /\ ShutdownCommand \in WorkerCommand
BY DEF SetCommand, GetCommand, ShutdownCommand, WorkerCommand, InflightKey, NoSeq

LEMMA AckType ==
  ASSUME EngineTypeOK, acks # <<>>
  PROVE  /\ ack \in WorkerAck
         /\ Tail(acks) \in Seq(WorkerAck)
         /\ ack.id \in Displays /\ ack.key \in InflightKey
         /\ ack.current \in Nat /\ ack.max \in Nat /\ ack.seq \in Nat
<1>1. acks \in Seq(WorkerAck)
  BY DEF EngineTypeOK, ProtocolTypeOK
<1>2. ack \in WorkerAck /\ Tail(acks) \in Seq(WorkerAck)
  BY <1>1 DEF ack
<1> QED
  BY <1>2 DEF WorkerAck

LEMMA ClearMatchType ==
  ASSUME EngineTypeOK, NEW d \in Displays, NEW key \in InflightKey, NEW s
  PROVE  ClearMatch(d, key, s) \in [Displays -> [InflightKey -> Nat]]
BY DEF EngineTypeOK, ClearMatch, Fresh, NoSeq

LEMMA SurfaceType ==
  ASSUME EngineTypeOK, NEW ids \in SUBSET Displays, surface_unresponsive(ids)
  PROVE  /\ records' \in [Displays -> DisplayRecord]
         /\ retired' \in [Workers -> BOOLEAN]
         /\ workers' \in [Displays -> 0 .. MaxGen]
         /\ inflight' \in [Displays -> [InflightKey -> Nat]]
         /\ pending_learn' \in SUBSET Displays
         /\ poll_gets' \in SUBSET Displays
         /\ unresponsive' \in SUBSET Displays
<1>1. records' \in [Displays -> DisplayRecord]
  BY RecordType DEF EngineTypeOK, surface_unresponsive
<1>2. retired' \in [Workers -> BOOLEAN]
  BY DEF EngineTypeOK, ProtocolTypeOK, surface_unresponsive, RetireFlags
<1>3. workers' \in [Displays -> 0 .. MaxGen]
  BY MaxGenAssumption DEF EngineTypeOK, surface_unresponsive, NoWorker
<1>4. inflight' \in [Displays -> [InflightKey -> Nat]]
  BY DEF EngineTypeOK, surface_unresponsive, ForgetOps, NothingInFlight, NoSeq
<1> QED
  BY <1>1, <1>2, <1>3, <1>4 DEF EngineTypeOK, surface_unresponsive, PruneTo

LEMMA StuckType ==
  ASSUME EngineTypeOK, NEW ids \in SUBSET Displays, mark_stuck(ids)
  PROVE  /\ records' \in [Displays -> DisplayRecord]
         /\ retired' \in [Workers -> BOOLEAN]
         /\ workers' \in [Displays -> 0 .. MaxGen]
         /\ inflight' \in [Displays -> [InflightKey -> Nat]]
         /\ pending_learn' \in SUBSET Displays
         /\ poll_gets' \in SUBSET Displays
         /\ unresponsive' \in SUBSET Displays
         /\ stuck_count' \in [Displays -> Nat]
<1>1. stuck_count' \in [Displays -> Nat]
  BY DEF EngineTypeOK, mark_stuck
<1>2. PICK fresh \in SUBSET Displays : surface_unresponsive(fresh)
  BY DEF mark_stuck
<1> QED
  BY <1>1, <1>2, SurfaceType

LEMMA FirstCommandType ==
  ASSUME EngineTypeOK, NEW d \in Displays
  PROVE  /\ FirstCommand(d) \in WorkerCommand
         /\ FirstCommand(d).op \in InflightKey
<1>1. records[d].level \in NoLevel .. 100
  BY DEF EngineTypeOK, DisplayRecord
<1>2. CASE records[d].level = NoLevel
  BY <1>2 DEF FirstCommand, GetCommand, EngineTypeOK, WorkerCommand, InflightKey
<1>3. CASE records[d].level # NoLevel
  <2>1. pct_to_raw(records[d].level, brightness_max[d]) \in Nat
    <3>1. records[d].level \in 0 .. 100
      BY <1>1, <1>3 DEF NoLevel
    <3> QED
      BY <3>1, PctToRawType DEF EngineTypeOK
  <2> QED
    BY <1>3, <2>1 DEF FirstCommand, SetCommand, EngineTypeOK, WorkerCommand,
       InflightKey, Feature
<1> QED
  BY <1>2, <1>3

LEMMA RefreshType ==
  ASSUME EngineTypeOK, NEW seen \in SUBSET Displays, Room(1), refresh(seen),
         phase' \in {"starting", "running", "stopped"},
         polling' \in BOOLEAN, debouncer' \in BOOLEAN
  PROVE  EngineTypeOK'
<1>1. records' \in [Displays -> DisplayRecord]
  <2>1. \A d \in Displays : ApplyEnumeration(records[d], d \in seen) \in DisplayRecord
    <3> TAKE d \in Displays
    <3>1. records[d] \in DisplayRecord /\ (d \in seen) \in BOOLEAN
      BY DEF EngineTypeOK
    <3> QED
      BY <3>1, SightedType, Zenon
  <2> QED
    BY <2>1 DEF refresh
<1>2. retired' \in [Workers -> BOOLEAN]
  BY DEF EngineTypeOK, ProtocolTypeOK, refresh, RetireFlags
<1>3. next_gen' \in [Displays -> 0 .. MaxGen] /\ workers' \in [Displays -> 0 .. MaxGen]
  BY MaxGenAssumption DEF EngineTypeOK, refresh, Room, NoWorker
<1>4. thread' \in [Workers -> {"none", "running", "exited"}]
  BY DEF EngineTypeOK, ProtocolTypeOK, refresh
<1>5. inbox' \in [Workers -> Seq(WorkerCommand)]
  <2>1. \A w \in Workers : <<FirstCommand(w[1])>> \in Seq(WorkerCommand)
    BY FirstCommandType DEF Workers
  <2> QED
    BY <2>1 DEF EngineTypeOK, ProtocolTypeOK, refresh
<1>6. seq' \in [Displays -> Nat]
  BY DEF EngineTypeOK, refresh
<1>7. inflight' \in [Displays -> [InflightKey -> Nat]]
  BY FirstCommandType DEF EngineTypeOK, refresh, NothingInFlight, NoSeq, ForgetOps
<1>8. /\ pending_learn' \in SUBSET Displays /\ poll_gets' \in SUBSET Displays
      /\ unresponsive' \in SUBSET Displays
  BY DEF EngineTypeOK, refresh, PruneTo, Respawned, Joined, Replugged, Recovered
<1> QED
  BY <1>1, <1>2, <1>3, <1>4, <1>5, <1>6, <1>7, <1>8
     DEF EngineTypeOK, ProtocolTypeOK, refresh, scaleVars

LEMMA ExceptType ==
  ASSUME NEW f \in [Displays -> [InflightKey -> Nat]], NEW d \in Displays,
         NEW key, NEW s \in Nat
  PROVE  /\ [f EXCEPT ![d][key] = s + 1] \in [Displays -> [InflightKey -> Nat]]
         /\ [f[d] EXCEPT ![key] = s + 1] \in [InflightKey -> Nat]
<1> DEFINE g == f[d]
<1>1. g \in [InflightKey -> Nat] /\ s + 1 \in Nat
  OBVIOUS
<1>2. [g EXCEPT ![key] = s + 1] \in [InflightKey -> Nat]
  <2> HIDE DEF g
  <2> QED
    BY <1>1
<1> QED
  BY <1>2

LEMMA DispatchType ==
  ASSUME EngineTypeOK, NEW d \in Displays, NEW key \in Feature, NEW raw \in Nat,
         Dispatch(d, key, raw)
  PROVE  /\ seq' \in [Displays -> Nat]
         /\ inbox' \in [Workers -> Seq(WorkerCommand)]
         /\ inflight' \in [Displays -> [InflightKey -> Nat]]
<1>1. SetCommand(key, raw, seq[d] + 1) \in WorkerCommand
  BY CommandType DEF EngineTypeOK
<1>2. seq' \in [Displays -> Nat]
  BY DEF Dispatch, EngineTypeOK
<1>3. CASE Reachable(d)
  <2>1. inbox' = [inbox EXCEPT ![Registered(d)] = Append(@, SetCommand(key, raw, seq[d] + 1))]
    BY <1>3 DEF Dispatch
  <2>2. inbox' \in [Workers -> Seq(WorkerCommand)]
    <3>1. inbox \in [Workers -> Seq(WorkerCommand)]
      BY DEF EngineTypeOK, ProtocolTypeOK
    <3>2. Registered(d) \in Workers
      BY <1>3 DEF Reachable, HasWorker, Registered, Workers, EngineTypeOK, NoWorker
    <3>3. Append(inbox[Registered(d)], SetCommand(key, raw, seq[d] + 1)) \in Seq(WorkerCommand)
      BY <1>1, <3>1, <3>2
    <3> QED
      BY <2>1, <3>1, <3>3
  <2>3. inflight' = [inflight EXCEPT ![d][key] = seq[d] + 1]
    BY <1>3 DEF Dispatch
  <2>4. inflight' \in [Displays -> [InflightKey -> Nat]]
    BY <2>3, ExceptType DEF EngineTypeOK
  <2> QED
    BY <1>2, <2>2, <2>4
<1>4. CASE ~Reachable(d)
  BY <1>2, <1>4 DEF Dispatch, EngineTypeOK, ProtocolTypeOK
<1> QED
  BY <1>3, <1>4

LEMMA SetType ==
  ASSUME EngineTypeOK, NEW d \in Displays, NEW pct \in 0 .. 100, dispatch_set(d, pct)
  PROVE  /\ seq' \in [Displays -> Nat]
         /\ inbox' \in [Workers -> Seq(WorkerCommand)]
         /\ inflight' \in [Displays -> [InflightKey -> Nat]]
<1>1. CASE IsResponsive(records[d])
  <2>1. pct_to_raw(pct, brightness_max[d]) \in Nat
    BY PctToRawType DEF EngineTypeOK
  <2> QED
    BY <1>1, <2>1, DispatchType DEF dispatch_set, Feature
<1>2. CASE ~IsResponsive(records[d])
  BY <1>2 DEF dispatch_set, EngineTypeOK, ProtocolTypeOK
<1> QED
  BY <1>1, <1>2

LEMMA ReadingType ==
  ASSUME EngineTypeOK, TakeReading
  PROVE  /\ acks' \in Seq(WorkerAck)
         /\ inflight' \in [Displays -> [InflightKey -> Nat]]
         /\ brightness_max' \in [Displays -> Nat]
         /\ last_hw_raw' \in [Displays -> Int]
         /\ pending_learn' \in SUBSET Displays
         /\ poll_gets' \in SUBSET Displays
         /\ UNCHANGED <<loopVars, workers, next_gen, stuck_count, seq, chosen_at,
                        inbox, retired, thread>>
         /\ ack.id \in Displays
         /\ ReadingPct \in 0 .. 100
<1>1. acks # <<>>
  BY DEF TakeReading, Receive
<1>2. /\ ack.id \in Displays /\ ack.current \in Nat /\ ack.max \in Nat
      /\ Tail(acks) \in Seq(WorkerAck)
  BY <1>1, AckType
<1>3. "Get" \in InflightKey
  BY DEF InflightKey
<1>4. inflight' \in [Displays -> [InflightKey -> Nat]]
  BY <1>2, <1>3, ClearMatchType DEF TakeReading
<1>5. ReadingPct \in 0 .. 100
  BY <1>2, ReadingIsAPercentage DEF ReadingPct
<1> QED
  BY <1>2, <1>4, <1>5 DEF TakeReading, Receive, EngineTypeOK

LEMMA TypeStep ==
  ASSUME EngineTypeOK, [WorkerSide \/ EngineNext]_vars
  PROVE  EngineTypeOK'
<1> USE DEF loopVars, opVars, healthVars, scaleVars, engineVars, channels
<1> DEFINE Typed == EngineTypeOK'
<1>1. CASE UNCHANGED vars
  BY <1>1 DEF vars, EngineTypeOK, ProtocolTypeOK
<1>2. CASE WorkerSide
  BY <1>2 DEF WorkerSide, EngineTypeOK, ProtocolTypeOK
<1>3. ASSUME NEW seen \in SUBSET Displays, Startup(seen)
      PROVE  Typed
  BY <1>3, RefreshType DEF Startup, EngineTypeOK
<1>4. ASSUME NEW seen \in SUBSET Displays, DebounceFires(seen)
      PROVE  Typed
  BY <1>4, RefreshType DEF DebounceFires, EngineTypeOK
<1>5. ASSUME NEW seen \in SUBSET Displays, RefreshNow(seen)
      PROVE  Typed
  <2>1. Room(1)
    <3>1. CASE debouncer
      <4>1. Room(2)
        BY <1>5, <3>1, Zenon DEF RefreshNow
      <4> QED
        BY <4>1, MaxGenAssumption DEF Room, EngineTypeOK
    <3>2. CASE ~debouncer
      BY <1>5, <3>2 DEF RefreshNow
    <3> QED
      BY <3>1, <3>2
  <2> QED
    BY <1>5, <2>1, RefreshType DEF RefreshNow, EngineTypeOK
<1>6. CASE PlatformEvent
  BY <1>6 DEF PlatformEvent, EngineTypeOK, ProtocolTypeOK
<1>7. ASSUME NEW d \in Displays, NEW pct \in Levels, SetUserLevel(d, pct)
      PROVE  Typed
  <2>1. pct \in 0 .. 100
    BY EngineAssumption
  <2>2. records' \in [Displays -> DisplayRecord]
    BY <1>7, <2>1, LevelType DEF SetUserLevel, EngineTypeOK
  <2>3. /\ seq' \in [Displays -> Nat]
        /\ inbox' \in [Workers -> Seq(WorkerCommand)]
        /\ inflight' \in [Displays -> [InflightKey -> Nat]]
    BY <1>7, <2>1, SetType DEF SetUserLevel
  <2> QED
    BY <1>7, <2>2, <2>3 DEF SetUserLevel, EngineTypeOK, ProtocolTypeOK, PruneTo
<1>8. ASSUME NEW d \in Displays, NEW value \in Inputs, SetInput(d, value)
      PROVE  Typed
  <2>1. /\ seq' \in [Displays -> Nat]
        /\ inbox' \in [Workers -> Seq(WorkerCommand)]
        /\ inflight' \in [Displays -> [InflightKey -> Nat]]
    BY <1>8, EngineAssumption, DispatchType DEF SetInput, Feature
  <2> QED
    BY <1>8, <2>1 DEF SetInput, EngineTypeOK, ProtocolTypeOK
<1>9. ASSUME NEW on \in BOOLEAN, SetLevelPolling(on)
      PROVE  Typed
  BY <1>9 DEF SetLevelPolling, EngineTypeOK, ProtocolTypeOK
<1>10. CASE ShutDown
  <2>1. inbox' \in [Workers -> Seq(WorkerCommand)]
    BY <1>10, CommandType DEF ShutDown, EngineTypeOK, ProtocolTypeOK, Feature
  <2>2. retired' \in [Workers -> BOOLEAN] /\ workers' \in [Displays -> 0 .. MaxGen]
    BY <1>10, MaxGenAssumption DEF ShutDown, EngineTypeOK, ProtocolTypeOK, RetireFlags, NoWorker
  <2> QED
    BY <1>10, <2>1, <2>2 DEF ShutDown, EngineTypeOK, ProtocolTypeOK
<1>11. CASE PollLevels
  <2>1. \A d \in Displays : GetCommand(seq[d] + 1) \in WorkerCommand
    BY CommandType DEF EngineTypeOK, Feature
  <2>2. inbox' \in [Workers -> Seq(WorkerCommand)]
    BY <1>11, <2>1 DEF PollLevels, EngineTypeOK, ProtocolTypeOK, Workers
  <2>3. inflight' \in [Displays -> [InflightKey -> Nat]]
    <3>1. \A d \in Displays :
            [inflight[d] EXCEPT !["Get"] = seq[d] + 1] \in [InflightKey -> Nat]
      BY ExceptType DEF EngineTypeOK
    <3> QED
      BY <1>11, <3>1 DEF PollLevels, EngineTypeOK
  <2>4. seq' \in [Displays -> Nat]
    BY <1>11 DEF PollLevels, EngineTypeOK
  <2> QED
    BY <1>11, <2>2, <2>3, <2>4 DEF PollLevels, EngineTypeOK, ProtocolTypeOK
<1>12. ASSUME NEW aged \in SUBSET Displays, WatchdogFires(aged)
       PROVE  Typed
  BY <1>12, StuckType DEF WatchdogFires, EngineTypeOK, ProtocolTypeOK
<1>13. CASE AckSet
  BY <1>13, AckType, ClearMatchType DEF AckSet, Receive, EngineTypeOK, ProtocolTypeOK
<1>14. CASE AckGetUnusable
  BY <1>14, AckType, ClearMatchType
     DEF AckGetUnusable, Receive, EngineTypeOK, ProtocolTypeOK, InflightKey
<1>15. CASE AckGetLearned
  <2>1. records' \in [Displays -> DisplayRecord]
    BY <1>15, ReadingType, LevelType DEF AckGetLearned, EngineTypeOK
  <2> QED
    BY <1>15, <2>1, ReadingType DEF AckGetLearned, EngineTypeOK, ProtocolTypeOK, PruneTo
<1>16. CASE AckPollHeals
  <2>1. records' \in [Displays -> DisplayRecord]
    BY <1>16, ReadingType, RecordType DEF AckPollHeals, EngineTypeOK
  <2> QED
    BY <1>16, <2>1, ReadingType DEF AckPollHeals, EngineTypeOK, ProtocolTypeOK, PruneTo
<1>17. CASE AckPollReflects
  <2>1. records' \in [Displays -> DisplayRecord]
    BY <1>17, ReadingType, LevelType DEF AckPollReflects, EngineTypeOK
  <2> QED
    BY <1>17, <2>1, ReadingType DEF AckPollReflects, EngineTypeOK, ProtocolTypeOK
<1>18. CASE AckGetNoted
  BY <1>18, ReadingType DEF AckGetNoted, EngineTypeOK, ProtocolTypeOK
<1>19. CASE AckPanicked
  <2>1. acks # <<>> /\ acks' = Tail(acks)
    BY <1>19 DEF AckPanicked, Receive
  <2>2. CASE FromRegistered /\ CanMarkUnresponsive(records[ack.id])
    BY <1>19, <2>1, <2>2, AckType, StuckType
       DEF AckPanicked, EngineTypeOK, ProtocolTypeOK
  <2>3. CASE ~(FromRegistered /\ CanMarkUnresponsive(records[ack.id]))
    <3>1. inflight' \in [Displays -> [InflightKey -> Nat]]
      BY <1>19, <2>1, <2>3, AckType, ClearMatchType DEF AckPanicked
    <3>2. UNCHANGED <<pending_learn, poll_gets, records, retired, workers,
                      stuck_count, unresponsive>>
      BY <1>19, <2>3 DEF AckPanicked
    <3> QED
      BY <1>19, <2>1, <3>1, <3>2, AckType
         DEF AckPanicked, EngineTypeOK, ProtocolTypeOK
  <2> QED
    BY <2>2, <2>3
<1>20. CASE AckOpenFailed
  <2>1. acks # <<>> /\ acks' = Tail(acks)
    BY <1>20 DEF AckOpenFailed, Receive
  <2>2. CASE FromRegistered
    BY <1>20, <2>1, <2>2, AckType, SurfaceType
       DEF AckOpenFailed, EngineTypeOK, ProtocolTypeOK
  <2>3. CASE ~FromRegistered
    BY <1>20, <2>1, <2>3, AckType DEF AckOpenFailed, EngineTypeOK, ProtocolTypeOK
  <2> QED
    BY <2>2, <2>3
<1>21. CASE AckSoftwareFallback
  <2>1. acks # <<>> /\ acks' = Tail(acks)
    BY <1>21 DEF AckSoftwareFallback, Receive
  <2>2. records' \in [Displays -> DisplayRecord]
    BY <1>21, RecordType DEF AckSoftwareFallback, EngineTypeOK
  <2> QED
    BY <1>21, <2>1, <2>2, AckType
       DEF AckSoftwareFallback, EngineTypeOK, ProtocolTypeOK, PruneTo
<1> QED
  BY <1>1, <1>2, <1>3, <1>4, <1>5, <1>6, <1>7, <1>8, <1>9, <1>10, <1>11, <1>12,
     <1>13, <1>14, <1>15, <1>16, <1>17, <1>18, <1>19, <1>20, <1>21
     DEF EngineNext, Enumerates, AppCommand, Timer, HandleAck

LEMMA TypeInit == EngineInit => EngineTypeOK
<1> SUFFICES ASSUME EngineInit PROVE EngineTypeOK
  OBVIOUS
<1>1. ProtocolTypeOK
  BY DEF EngineInit, ProtocolInit, ProtocolTypeOK
<1>2. records \in [Displays -> DisplayRecord]
  BY DEF EngineInit, DisplayRecord, Unknown, NoLevel
<1>3. workers \in [Displays -> 0 .. MaxGen] /\ next_gen \in [Displays -> 0 .. MaxGen]
  BY MaxGenAssumption DEF EngineInit, NoWorker
<1>4. inflight \in [Displays -> [InflightKey -> Nat]]
  BY DEF EngineInit, NothingInFlight, NoSeq
<1>5. polling \in BOOLEAN /\ debouncer \in BOOLEAN
  BY Zenon DEF EngineInit
<1>6. brightness_max \in [Displays -> Nat] /\ last_hw_raw \in [Displays -> Int]
  BY DEF EngineInit, NoReading
<1>7. /\ seq \in [Displays -> Nat] /\ stuck_count \in [Displays -> Nat]
      /\ chosen_at \in [Displays -> Nat]
  BY DEF EngineInit
<1>8. phase \in {"starting", "running", "stopped"}
  BY DEF EngineInit
<1>9. /\ pending_learn \in SUBSET Displays /\ poll_gets \in SUBSET Displays
      /\ unresponsive \in SUBSET Displays
  BY DEF EngineInit
<1> QED
  BY <1>1, <1>2, <1>3, <1>4, <1>5, <1>6, <1>7, <1>8, <1>9 DEF EngineTypeOK

\* Every variable of the engine keeps its type, whatever well-typed acks the
\* workers send: no stale or malformed reading gives a level beyond 0..100.
THEOREM EngineTypeCorrect == OpenSpec => []EngineTypeOK
BY TypeInit, TypeStep, PTL DEF OpenSpec

-----------------------------------------------------------------------------
(* The health of a display.  The three invariants the runs check are not   *)
(* inductive on their own: each needs that only a connected, responsive    *)
(* display has a worker, and that only connected displays are greyed.      *)

\* What holds of every display until the engine stops.
Healthy(d) ==
  /\ HasWorker(d) => CanMarkUnresponsive(records[d])
  /\ d \in Watched => HasWorker(d)
  /\ d \in unresponsive <=> Connected(records[d]) /\ ~HasWorker(d)
  /\ Connected(records[d]) /\ records[d].responsive /\ ~HasWorker(d)
       => stuck_count[d] >= MAX_STUCK_RESPAWNS

HealthInv == phase # "stopped" => \A d \in Displays : Healthy(d)

\* A step that leaves the health of every display alone.
LEMMA HealthKept ==
  ASSUME EngineTypeOK, HealthInv,
         UNCHANGED <<workers, stuck_count>>,
         phase' = phase,
         \A d \in Displays : /\ records'[d].state = records[d].state
                             /\ records'[d].responsive = records[d].responsive,
         unresponsive' = unresponsive \/ unresponsive' = PruneTo(unresponsive),
         \A d \in Watched' : d \in Watched \/ HasWorker(d)
  PROVE  HealthInv'
<1> SUFFICES ASSUME phase' # "stopped", NEW d \in Displays
             PROVE  Healthy(d)'
  BY DEF HealthInv
<1>1. Healthy(d)
  BY DEF HealthInv
<1>2. /\ Connected(records'[d]) <=> Connected(records[d])
      /\ CanMarkUnresponsive(records'[d]) <=> CanMarkUnresponsive(records[d])
  BY DEF Connected, CanMarkUnresponsive
<1>3. HasWorker(d)' <=> HasWorker(d)
  BY DEF HasWorker
<1>4. d \in unresponsive' <=> d \in unresponsive
  BY <1>1, <1>2 DEF Healthy, PruneTo, ConnectedIds
<1>5. d \in Watched' => HasWorker(d)
  BY <1>1 DEF Healthy
<1> QED
  BY <1>1, <1>2, <1>3, <1>4, <1>5 DEF Healthy

\* Displays whose handle is dropped were fresh to be marked.
LEMMA HealthSurfaced ==
  ASSUME EngineTypeOK, HealthInv, NEW ids \in SUBSET Displays,
         \A d \in ids : CanMarkUnresponsive(records[d]),
         surface_unresponsive(ids),
         \A d \in Displays : stuck_count'[d] >= stuck_count[d],
         phase' = phase, stuck_count' \in [Displays -> Nat]
  PROVE  HealthInv'
<1> SUFFICES ASSUME phase' # "stopped", NEW d \in Displays
             PROVE  Healthy(d)'
  BY DEF HealthInv
<1>1. Healthy(d) /\ records[d] \in DisplayRecord
  BY DEF HealthInv, EngineTypeOK
<1>2. CASE d \in ids
  <2>1. /\ records'[d] = [records[d] EXCEPT !.responsive = FALSE]
        /\ Connected(records[d])
    BY <1>2 DEF surface_unresponsive, MarkUnresponsive, CanMarkUnresponsive
  <2>2. Connected(records'[d]) /\ ~records'[d].responsive
    BY <1>1, <2>1 DEF Connected, DisplayRecord
  <2>3. workers'[d] = NoWorker /\ inflight'[d] = NothingInFlight
    BY <1>2 DEF surface_unresponsive, ForgetOps
  <2>4. d \notin Watched'
    BY <2>3 DEF Watched, NothingInFlight
  <2>5. d \in unresponsive'
    BY <1>2, <2>2 DEF surface_unresponsive, PruneTo, ConnectedIds
  <2> QED
    BY <2>2, <2>3, <2>4, <2>5 DEF Healthy, HasWorker
<1>3. CASE d \notin ids
  <2>1. /\ records'[d] = records[d] /\ workers'[d] = workers[d]
        /\ inflight'[d] = inflight[d]
    BY <1>3 DEF surface_unresponsive, ForgetOps
  <2>2. d \in unresponsive' <=> d \in unresponsive
    BY <1>1, <1>3, <2>1 DEF surface_unresponsive, PruneTo, ConnectedIds, Healthy
  <2>3. d \in Watched' <=> d \in Watched
    BY <2>1 DEF Watched
  <2>4. stuck_count[d] >= MAX_STUCK_RESPAWNS => stuck_count'[d] >= MAX_STUCK_RESPAWNS
    BY DEF EngineTypeOK, MAX_STUCK_RESPAWNS
  <2> QED
    BY <1>1, <2>1, <2>2, <2>3, <2>4 DEF Healthy, HasWorker
<1> QED
  BY <1>2, <1>3

LEMMA HealthStuck ==
  ASSUME EngineTypeOK, HealthInv, NEW ids \in SUBSET Displays, mark_stuck(ids),
         phase' = phase
  PROVE  HealthInv'
<1> DEFINE fresh == {d \in ids : CanMarkUnresponsive(records[d])}
<1>1. surface_unresponsive(fresh) /\ stuck_count' \in [Displays -> Nat]
  BY StuckType DEF mark_stuck
<1>2. \A d \in Displays : stuck_count'[d] >= stuck_count[d]
  BY DEF mark_stuck, EngineTypeOK
<1> QED
  BY <1>1, <1>2, HealthSurfaced

\* One enumeration: a display is respawned, gone, or keeps its worker.
LEMMA HealthRefreshed ==
  ASSUME EngineTypeOK, HealthInv, phase # "stopped",
         NEW seen \in SUBSET Displays, refresh(seen)
  PROVE  HealthInv'
<1> SUFFICES ASSUME NEW d \in Displays PROVE Healthy(d)'
  BY DEF HealthInv
<1>1. /\ Healthy(d) /\ records[d] \in DisplayRecord
      /\ next_gen[d] \in Nat /\ stuck_count'[d] = stuck_count[d]
      /\ stuck_count[d] \in Nat
  BY MaxGenAssumption DEF HealthInv, EngineTypeOK, refresh
<1>2. records'[d] = ApplyEnumeration(records[d], d \in seen)
  BY DEF refresh
<1>3. CASE d \in Respawned(seen)
  <2>1. d \in seen
    BY <1>3 DEF Respawned, Joined, Replugged, Recovered, Added, Reattached, Responsive
  <2>2. Connected(records'[d]) /\ records'[d].responsive
    BY <1>1, <1>2, <2>1 DEF ApplyEnumeration, Connected, DisplayRecord
  <2>3. workers'[d] # NoWorker
    BY <1>1, <1>3 DEF refresh, NoWorker
  <2>4. HasEvents(seen)
    BY <1>3 DEF HasEvents, Respawned, Recovered
  <2>5. d \notin unresponsive \/ d \in Ungreyed(seen)
    <3>1. CASE Responsive(records[d], d \in seen)
      BY <1>3, <3>1 DEF Ungreyed
    <3>2. CASE ~Responsive(records[d], d \in seen)
      <4>1. d \in Joined(seen) \cup Replugged(seen)
        BY <1>3, <3>2 DEF Respawned, Recovered
      <4>2. ~Connected(records[d])
        BY <4>1 DEF Joined, Replugged, Added, Reattached, Connected, Known
      <4> QED
        BY <1>1, <4>2 DEF Healthy
    <3> QED
      BY <3>1, <3>2
  <2>6. d \notin unresponsive'
    BY <2>4, <2>5 DEF refresh, PruneTo
  <2> QED
    BY <2>2, <2>3, <2>6 DEF Healthy, HasWorker, CanMarkUnresponsive
<1>4. CASE d \in Gone(seen)
  <2>1. d \notin seen /\ Connected(records[d])
    BY <1>4 DEF Gone, Removed
  <2>2. ~Connected(records'[d])
    BY <1>1, <1>2, <2>1 DEF ApplyEnumeration, Connected, DisplayRecord
  <2>3. d \notin Respawned(seen)
    BY <2>1 DEF Respawned, Joined, Replugged, Recovered, Added, Reattached, Responsive
  <2>4. workers'[d] = NoWorker /\ inflight'[d] = NothingInFlight
    BY <1>4, <2>3 DEF refresh, ForgetOps
  <2>5. d \notin Watched'
    BY <2>4 DEF Watched, NothingInFlight
  <2>6. HasEvents(seen)
    BY <1>4 DEF HasEvents
  <2>7. d \notin unresponsive'
    BY <2>2, <2>6 DEF refresh, PruneTo, ConnectedIds
  <2> QED
    BY <2>2, <2>4, <2>5, <2>7 DEF Healthy, HasWorker
<1>5. CASE d \notin Respawned(seen) /\ d \notin Gone(seen)
  <2>1. d \notin Joined(seen) /\ d \notin Replugged(seen) /\ d \notin Recovered(seen)
    BY <1>5 DEF Respawned
  <2>2. workers'[d] = workers[d] /\ inflight'[d] = inflight[d]
    BY <1>5, <2>1 DEF refresh, ForgetOps
  <2>3. Connected(records'[d]) <=> Connected(records[d])
    BY <1>1, <1>2, <1>5, <2>1
       DEF ApplyEnumeration, Connected, Known, Gone, Removed, Joined, Replugged,
           Added, Reattached, DisplayRecord
  <2>4. Connected(records[d]) =>
          \/ records'[d].responsive = records[d].responsive
          \/ ~records[d].responsive /\ stuck_count[d] >= MAX_STUCK_RESPAWNS
    <3> SUFFICES ASSUME Connected(records[d])
                 PROVE  \/ records'[d].responsive = records[d].responsive
                        \/ ~records[d].responsive /\ stuck_count[d] >= MAX_STUCK_RESPAWNS
      OBVIOUS
    <3>1. d \in seen
      BY <1>5 DEF Gone, Removed
    <3>2. records'[d].responsive = TRUE
      BY <1>1, <1>2, <3>1 DEF ApplyEnumeration, DisplayRecord
    <3>3. CASE records[d].responsive
      BY <1>1, <3>2, <3>3 DEF DisplayRecord
    <3>4. CASE ~records[d].responsive
      <4>1. Responsive(records[d], d \in seen)
        BY <3>1, <3>4 DEF Responsive, Known, Connected
      <4>2. ~(stuck_count[d] < MAX_STUCK_RESPAWNS)
        BY <2>1, <4>1 DEF Recovered
      <4> QED
        BY <1>1, <3>4, <4>2 DEF MAX_STUCK_RESPAWNS
    <3> QED
      BY <3>3, <3>4
  <2>5. d \in unresponsive' <=> d \in unresponsive
    <3>1. d \in unresponsive => Connected(records[d])
      BY <1>1 DEF Healthy
    <3>2. d \notin Ungreyed(seen)
      BY <1>5 DEF Ungreyed
    <3> QED
      BY <2>3, <3>1, <3>2 DEF refresh, PruneTo, ConnectedIds
  <2>6. HasWorker(d) => records'[d].responsive
    <3> SUFFICES ASSUME HasWorker(d) PROVE records'[d].responsive
      OBVIOUS
    <3>1. Connected(records[d]) /\ records[d].responsive
      BY <1>1 DEF Healthy, CanMarkUnresponsive
    <3> QED
      BY <2>4, <3>1
  <2>7. d \in Watched' <=> d \in Watched
    BY <2>2 DEF Watched
  <2>8. HasWorker(d)' <=> HasWorker(d)
    BY <2>2 DEF HasWorker
  <2> QED
    BY <1>1, <2>3, <2>4, <2>5, <2>6, <2>7, <2>8 DEF Healthy, CanMarkUnresponsive
<1> QED
  BY <1>3, <1>4, <1>5

LEMMA ReadingKeepsHealth ==
  ASSUME EngineTypeOK, AckGetLearned \/ AckPollHeals \/ AckPollReflects \/ AckGetNoted
  PROVE  \A e \in Displays : /\ records'[e].state = records[e].state
                             /\ records'[e].responsive = records[e].responsive
BY DEF AckGetLearned, AckPollHeals, AckPollReflects, AckGetNoted,
       RecordUserLevel, ClearSoftwareForced, EngineTypeOK, DisplayRecord

LEMMA HealthStep ==
  ASSUME EngineTypeOK, HealthInv, [WorkerSide \/ EngineNext]_vars
  PROVE  HealthInv'
<1> USE DEF loopVars, opVars, healthVars, scaleVars, engineVars, channels
<1>1. CASE UNCHANGED vars \/ WorkerSide
  <2>1. UNCHANGED engineVars
    BY <1>1 DEF vars, WorkerSide
  <2> QED
    BY <2>1, HealthKept DEF Watched
<1>2. ASSUME NEW seen \in SUBSET Displays, Startup(seen) \/ DebounceFires(seen) \/ RefreshNow(seen)
      PROVE  HealthInv'
  BY <1>2, HealthRefreshed DEF Startup, DebounceFires, RefreshNow
<1>3. CASE PlatformEvent
  BY <1>3, HealthKept DEF PlatformEvent, Watched
<1>4. ASSUME NEW d \in Displays, NEW pct \in Levels, SetUserLevel(d, pct)
      PROVE  HealthInv'
  <2>1. \A e \in Displays : /\ records'[e].state = records[e].state
                            /\ records'[e].responsive = records[e].responsive
    BY <1>4 DEF SetUserLevel, RecordUserLevel, EngineTypeOK, DisplayRecord
  <2>2. \A e \in Watched' : e \in Watched \/ HasWorker(e)
    BY <1>4 DEF SetUserLevel, dispatch_set, Dispatch, Reachable, Watched, EngineTypeOK
  <2> QED
    BY <1>4, <2>1, <2>2, HealthKept DEF SetUserLevel
<1>5. ASSUME NEW d \in Displays, NEW value \in Inputs, SetInput(d, value)
      PROVE  HealthInv'
  <2>1. \A e \in Watched' : e \in Watched \/ HasWorker(e)
    BY <1>5 DEF SetInput, Dispatch, Reachable, Watched, EngineTypeOK
  <2> QED
    BY <1>5, <2>1, HealthKept DEF SetInput
<1>6. ASSUME NEW on \in BOOLEAN, SetLevelPolling(on)
      PROVE  HealthInv'
  BY <1>6, HealthKept DEF SetLevelPolling, Watched
<1>7. CASE ShutDown
  BY <1>7 DEF ShutDown, HealthInv
<1>8. CASE PollLevels
  <2>1. \A e \in Watched' : e \in Watched \/ HasWorker(e)
    BY <1>8 DEF PollLevels, Pollable, Watched, EngineTypeOK
  <2> QED
    BY <1>8, <2>1, HealthKept DEF PollLevels
<1>9. ASSUME NEW aged \in SUBSET Displays, WatchdogFires(aged)
      PROVE  HealthInv'
  BY <1>9, HealthStuck DEF WatchdogFires
<1>10. CASE AckSet \/ AckGetUnusable
  <2>1. Watched' \subseteq Watched
    BY <1>10 DEF AckSet, AckGetUnusable, ClearMatch, Watched, EngineTypeOK
  <2> QED
    BY <1>10, <2>1, HealthKept DEF AckSet, AckGetUnusable
<1>11. CASE AckGetLearned \/ AckPollHeals \/ AckPollReflects \/ AckGetNoted
  <2>1. TakeReading
    BY <1>11 DEF AckGetLearned, AckPollHeals, AckPollReflects, AckGetNoted
  <2>2. Watched' \subseteq Watched
    BY <2>1 DEF TakeReading, ClearMatch, Watched, EngineTypeOK
  <2>3. \A e \in Displays : /\ records'[e].state = records[e].state
                            /\ records'[e].responsive = records[e].responsive
    BY <1>11, ReadingKeepsHealth
  <2>4. unresponsive' = unresponsive \/ unresponsive' = PruneTo(unresponsive)
    BY <1>11 DEF AckGetLearned, AckPollHeals, AckPollReflects, AckGetNoted
  <2> QED
    BY <2>1, <2>2, <2>3, <2>4, HealthKept DEF TakeReading
<1>12. CASE AckPanicked
  <2>1. ack.id \in Displays
    BY <1>12, AckType DEF AckPanicked, Receive
  <2>2. CASE FromRegistered /\ CanMarkUnresponsive(records[ack.id])
    BY <1>12, <2>1, <2>2, HealthStuck DEF AckPanicked
  <2>3. CASE ~(FromRegistered /\ CanMarkUnresponsive(records[ack.id]))
    <3>1. Watched' \subseteq Watched
      BY <1>12, <2>3 DEF AckPanicked, ClearMatch, Watched, EngineTypeOK
    <3> QED
      BY <1>12, <2>3, <3>1, HealthKept DEF AckPanicked
  <2> QED
    BY <2>2, <2>3
<1>13. CASE AckOpenFailed
  <2>1. ack.id \in Displays
    BY <1>13, AckType DEF AckOpenFailed, Receive
  <2>2. CASE FromRegistered
    <3>1. CanMarkUnresponsive(records[ack.id])
      BY <1>13, <2>1, <2>2 DEF AckOpenFailed, Receive, HealthInv, Healthy, FromRegistered
    <3> QED
      BY <1>13, <2>1, <2>2, <3>1, HealthSurfaced DEF AckOpenFailed, EngineTypeOK
  <2>3. CASE ~FromRegistered
    BY <1>13, <2>3, HealthKept DEF AckOpenFailed, Watched
  <2> QED
    BY <2>2, <2>3
<1>14. CASE AckSoftwareFallback
  <2>1. \A e \in Displays : /\ records'[e].state = records[e].state
                            /\ records'[e].responsive = records[e].responsive
    BY <1>14 DEF AckSoftwareFallback, MarkSoftwareOnly, EngineTypeOK, DisplayRecord
  <2> QED
    BY <1>14, <2>1, HealthKept DEF AckSoftwareFallback, Watched
<1> QED
  BY <1>1, <1>2, <1>3, <1>4, <1>5, <1>6, <1>7, <1>8, <1>9, <1>10, <1>11, <1>12,
     <1>13, <1>14
     DEF EngineNext, Enumerates, AppCommand, Timer, HandleAck

LEMMA HealthInit == EngineInit => HealthInv
<1> SUFFICES ASSUME EngineInit, NEW d \in Displays PROVE Healthy(d)
  BY DEF HealthInv
<1>1. ~HasWorker(d) /\ d \notin unresponsive
  BY DEF EngineInit, HasWorker
<1>2. ~Connected(records[d])
  BY DEF EngineInit, Connected, Unknown
<1>3. d \notin Watched
  BY DEF EngineInit, Watched, NothingInFlight
<1> QED
  BY <1>1, <1>2, <1>3 DEF Healthy

LEMMA HealthCorrect == OpenSpec => [](EngineTypeOK /\ HealthInv)
BY TypeInit, HealthInit, TypeStep, HealthStep, PTL DEF OpenSpec

\* The watchdog can always act on what it watches: an operation past its
\* deadline is never one whose display cannot be marked, so the loop never
\* spins on a deadline that stays in the past.
THEOREM WatchdogNeverSpins == OpenSpec => []InFlightIsRecoverable
<1>1. HealthInv => InFlightIsRecoverable
  BY DEF HealthInv, Healthy, InFlightIsRecoverable, Watched
<1> QED
  BY <1>1, HealthCorrect, PTL

\* The tray greys exactly the connected displays that have no worker.
THEOREM GreyingIsExact == OpenSpec => []GreyedExactlyWhenWorkerless
<1>1. HealthInv => GreyedExactlyWhenWorkerless
  BY DEF HealthInv, Healthy, GreyedExactlyWhenWorkerless, ConnectedIds
<1> QED
  BY <1>1, HealthCorrect, PTL

\* Only a display that got stuck twice is left connected and without a worker
\* after it was sighted.
THEOREM AbandonmentIsEarned == OpenSpec => []AbandonedOnlyAfterTwoStuck
<1>1. HealthInv => AbandonedOnlyAfterTwoStuck
  BY DEF HealthInv, Healthy, AbandonedOnlyAfterTwoStuck, ConnectedIds
<1> QED
  BY <1>1, HealthCorrect, PTL

-----------------------------------------------------------------------------
(* One writer per display.  The engine hands out every generation once, so *)
(* a thread that runs was given one, and loses its handle only retired.    *)

ThreadInv ==
  /\ \A d \in Displays : workers[d] <= next_gen[d]
  /\ \A w \in Workers : w[2] > next_gen[w[1]] => thread[w] = "none"
  /\ OneWriter

LEMMA ThreadKept ==
  ASSUME ThreadInv, UNCHANGED <<workers, next_gen, retired, thread>>
  PROVE  ThreadInv'
BY DEF ThreadInv, OneWriter

LEMMA ThreadSurfaced ==
  ASSUME EngineTypeOK, ThreadInv, NEW ids \in SUBSET Displays,
         surface_unresponsive(ids), UNCHANGED <<next_gen, thread>>
  PROVE  ThreadInv'
<1>1. \A d \in Displays : workers'[d] <= next_gen'[d]
  BY MaxGenAssumption DEF ThreadInv, surface_unresponsive, EngineTypeOK, NoWorker
<1>2. OneWriter'
  <2> SUFFICES ASSUME NEW w \in Workers, thread[w] # "none", ~retired'[w]
               PROVE  workers'[w[1]] = w[2]
    BY DEF OneWriter
  <2>1. ~retired[w] /\ ~(w[1] \in ids /\ w[2] = workers[w[1]])
    BY DEF surface_unresponsive, RetireFlags
  <2>2. workers[w[1]] = w[2]
    BY <2>1 DEF ThreadInv, OneWriter
  <2> QED
    BY <2>1, <2>2 DEF surface_unresponsive, Workers
<1> QED
  BY <1>1, <1>2 DEF ThreadInv

LEMMA ThreadRefreshed ==
  ASSUME EngineTypeOK, HealthInv, ThreadInv, phase # "stopped",
         NEW seen \in SUBSET Displays, refresh(seen)
  PROVE  ThreadInv'
<1> DEFINE dropped == Gone(seen) \cup Replugged(seen) \cup Recovered(seen)
           Born(w) == w[1] \in Respawned(seen) /\ w[2] = next_gen[w[1]] + 1
<1>1. \A d \in Displays : workers'[d] <= next_gen'[d]
  BY MaxGenAssumption DEF ThreadInv, refresh, EngineTypeOK, NoWorker
<1>2. \A w \in Workers : w[2] > next_gen'[w[1]] => thread'[w] = "none"
  BY MaxGenAssumption DEF ThreadInv, refresh, EngineTypeOK, Workers
<1>3. OneWriter'
  <2> SUFFICES ASSUME NEW w \in Workers, thread'[w] # "none", ~retired'[w]
               PROVE  workers'[w[1]] = w[2]
    BY DEF OneWriter
  <2>1. w[1] \in Displays /\ w[2] \in 1 .. MaxGen
    BY DEF Workers
  <2>2. CASE Born(w)
    BY <2>1, <2>2 DEF refresh
  <2>3. CASE ~Born(w)
    <3>1. thread[w] # "none"
      BY <2>3 DEF refresh
    <3>2. ~retired[w] /\ ~(w[1] \in dropped /\ w[2] = workers[w[1]])
      BY DEF refresh, RetireFlags
    <3>3. workers[w[1]] = w[2]
      BY <3>1, <3>2 DEF ThreadInv, OneWriter
    <3>4. HasWorker(w[1])
      BY <2>1, <3>3, MaxGenAssumption DEF HasWorker, NoWorker
    <3>5. Connected(records[w[1]])
      BY <2>1, <3>4 DEF HealthInv, Healthy, CanMarkUnresponsive
    <3>6. w[1] \notin dropped /\ w[1] \notin Joined(seen)
      BY <3>2, <3>3, <3>5 DEF Joined, Added, Known, Connected
    <3>7. w[1] \notin Respawned(seen)
      BY <3>6 DEF Respawned
    <3> QED
      BY <2>1, <3>3, <3>6, <3>7 DEF refresh
  <2> QED
    BY <2>2, <2>3
<1> QED
  BY <1>1, <1>2, <1>3 DEF ThreadInv

LEMMA ThreadStep ==
  ASSUME EngineTypeOK, HealthInv, ThreadInv, [WorkerSide \/ EngineNext]_vars
  PROVE  ThreadInv'
<1> USE DEF loopVars, opVars, healthVars, scaleVars, engineVars, channels
<1>1. CASE UNCHANGED vars
  BY <1>1, ThreadKept DEF vars
<1>2. CASE WorkerSide
  BY <1>2 DEF WorkerSide, ThreadInv, OneWriter
<1>3. ASSUME NEW seen \in SUBSET Displays, Startup(seen) \/ DebounceFires(seen) \/ RefreshNow(seen)
      PROVE  ThreadInv'
  BY <1>3, ThreadRefreshed DEF Startup, DebounceFires, RefreshNow
<1>4. CASE \/ PlatformEvent \/ PollLevels
           \/ \E d \in Displays, pct \in Levels : SetUserLevel(d, pct)
           \/ \E d \in Displays, value \in Inputs : SetInput(d, value)
           \/ \E on \in BOOLEAN : SetLevelPolling(on)
  BY <1>4, ThreadKept
     DEF PlatformEvent, PollLevels, SetUserLevel, SetInput, SetLevelPolling
<1>5. CASE ShutDown
  <2>1. \A w \in Workers : retired'[w] = (retired[w] \/ w[2] = workers[w[1]])
    BY <1>5 DEF ShutDown, RetireFlags, Workers
  <2>2. OneWriter'
    BY <1>5, <2>1 DEF ShutDown, ThreadInv, OneWriter
  <2>3. \A d \in Displays : workers'[d] <= next_gen'[d]
    BY <1>5, MaxGenAssumption DEF ShutDown, EngineTypeOK, NoWorker
  <2> QED
    BY <1>5, <2>2, <2>3 DEF ShutDown, ThreadInv
<1>6. ASSUME NEW aged \in SUBSET Displays, WatchdogFires(aged)
      PROVE  ThreadInv'
  BY <1>6, ThreadSurfaced DEF WatchdogFires, mark_stuck
<1>7. CASE AckPanicked
  <2>1. ack.id \in Displays
    BY <1>7, AckType DEF AckPanicked, Receive
  <2>2. CASE FromRegistered /\ CanMarkUnresponsive(records[ack.id])
    BY <1>7, <2>1, <2>2, ThreadSurfaced DEF AckPanicked, mark_stuck
  <2>3. CASE ~(FromRegistered /\ CanMarkUnresponsive(records[ack.id]))
    BY <1>7, <2>3, ThreadKept DEF AckPanicked
  <2> QED
    BY <2>2, <2>3
<1>8. CASE AckOpenFailed
  <2>1. ack.id \in Displays
    BY <1>8, AckType DEF AckOpenFailed, Receive
  <2>2. CASE FromRegistered
    BY <1>8, <2>1, <2>2, ThreadSurfaced DEF AckOpenFailed
  <2>3. CASE ~FromRegistered
    BY <1>8, <2>3, ThreadKept DEF AckOpenFailed
  <2> QED
    BY <2>2, <2>3
<1>9. CASE \/ AckSet \/ AckGetUnusable \/ AckGetLearned \/ AckPollHeals
           \/ AckPollReflects \/ AckGetNoted \/ AckSoftwareFallback
  BY <1>9, ThreadKept
     DEF AckSet, AckGetUnusable, AckGetLearned, AckPollHeals, AckPollReflects,
         AckGetNoted, AckSoftwareFallback, TakeReading
<1> QED
  BY <1>1, <1>2, <1>3, <1>4, <1>5, <1>6, <1>7, <1>8, <1>9
     DEF EngineNext, Enumerates, AppCommand, Timer, HandleAck

LEMMA ThreadInit == EngineInit => ThreadInv
<1> SUFFICES ASSUME EngineInit PROVE ThreadInv
  OBVIOUS
<1>1. \A w \in Workers : thread[w] = "none"
  BY DEF EngineInit, ProtocolInit
<1>2. \A d \in Displays : workers[d] <= next_gen[d]
  <2> TAKE d \in Displays
  <2>1. workers[d] = 0 /\ next_gen[d] = 0
    BY DEF EngineInit, NoWorker
  <2> QED
    BY <2>1
<1> QED
  BY <1>1, <1>2 DEF ThreadInv, OneWriter

\* No display ever has two workers that may both start a write: a thread the
\* engine has let go of was retired first.
THEOREM SingleWriter == OpenSpec => []OneWriter
<1>1. OpenSpec => []ThreadInv
  BY HealthCorrect, ThreadInit, ThreadStep, PTL DEF OpenSpec
<1>2. ThreadInv => OneWriter
  BY DEF ThreadInv
<1> QED
  BY <1>1, <1>2, PTL

-----------------------------------------------------------------------------
(* The user's intent.  A read that may still set the recorded level was    *)
(* numbered after the user's last choice.                                  *)

IntentInv ==
  /\ \A d \in Displays : chosen_at[d] <= seq[d]
  /\ \A d \in pending_learn \cup poll_gets :
       inflight[d]["Get"] # NoSeq => inflight[d]["Get"] > chosen_at[d]

LEMMA IntentKept ==
  ASSUME EngineTypeOK, IntentInv, UNCHANGED <<seq, chosen_at>>,
         pending_learn' \subseteq pending_learn, poll_gets' \subseteq poll_gets,
         \A d \in Displays : \/ inflight'[d]["Get"] = inflight[d]["Get"]
                             \/ inflight'[d]["Get"] = NoSeq
  PROVE  IntentInv'
BY DEF EngineTypeOK, IntentInv

LEMMA IntentSurfaced ==
  ASSUME EngineTypeOK, IntentInv, UNCHANGED <<seq, chosen_at>>,
         NEW ids \in SUBSET Displays, surface_unresponsive(ids)
  PROVE  IntentInv'
<1>1. \A d \in Displays : \/ inflight'[d]["Get"] = inflight[d]["Get"]
                          \/ inflight'[d]["Get"] = NoSeq
  BY DEF surface_unresponsive, ForgetOps, NothingInFlight, InflightKey
<1> QED
  BY <1>1, IntentKept DEF surface_unresponsive

LEMMA IntentMatched ==
  ASSUME EngineTypeOK, NEW d \in Displays, NEW key \in InflightKey, NEW s,
         inflight' = ClearMatch(d, key, s)
  PROVE  \A e \in Displays : \/ inflight'[e]["Get"] = inflight[e]["Get"]
                             \/ inflight'[e]["Get"] = NoSeq
BY DEF EngineTypeOK, ClearMatch

\* A worker's first read, if it is sent one, is newer than anything.
LEMMA IntentRefreshed ==
  ASSUME EngineTypeOK, IntentInv, NEW seen \in SUBSET Displays, refresh(seen)
  PROVE  IntentInv'
<1> DEFINE dropped == Gone(seen) \cup Replugged(seen) \cup Recovered(seen)
<1>1. \A d \in Displays : chosen_at'[d] <= seq'[d]
  BY DEF refresh, IntentInv, EngineTypeOK
<1>2. ASSUME NEW d \in pending_learn' \cup poll_gets', inflight'[d]["Get"] # NoSeq
      PROVE  inflight'[d]["Get"] > chosen_at'[d]
  <2>1. /\ d \in Displays /\ seq[d] \in Nat /\ chosen_at[d] \in Nat
        /\ chosen_at'[d] = chosen_at[d] /\ chosen_at[d] <= seq[d]
    BY <1>2 DEF EngineTypeOK, refresh, IntentInv, Respawned, Joined, Replugged, Recovered
  <2>2. CASE d \in Respawned(seen)
    <3>1. inflight'[d] = [NothingInFlight EXCEPT ![FirstCommand(d).op] = seq[d] + 1]
      BY <2>1, <2>2 DEF refresh
    <3>2. inflight'[d]["Get"] = NoSeq \/ inflight'[d]["Get"] = seq[d] + 1
      BY <3>1, FirstCommandType, <2>1 DEF NothingInFlight, InflightKey
    <3> QED
      BY <1>2, <2>1, <3>2
  <2>3. CASE d \notin Respawned(seen)
    <3>1. inflight'[d] = ForgetOps(dropped)[d]
      BY <2>1, <2>3 DEF refresh
    <3>2. d \in pending_learn \cup poll_gets
      BY <1>2, <2>3 DEF refresh
    <3>3. inflight'[d]["Get"] = inflight[d]["Get"]
      BY <1>2, <2>1, <3>1 DEF ForgetOps, NothingInFlight, InflightKey
    <3> QED
      BY <1>2, <2>1, <3>2, <3>3 DEF IntentInv
  <2> QED
    BY <2>2, <2>3
<1> QED
  BY <1>1, <1>2 DEF IntentInv

LEMMA IntentDispatched ==
  ASSUME EngineTypeOK, NEW d \in Displays, NEW key \in Feature, NEW raw,
         Dispatch(d, key, raw)
  PROVE  \A e \in Displays : /\ inflight'[e]["Get"] = inflight[e]["Get"]
                             /\ seq'[e] >= seq[e] /\ seq'[e] \in Nat
<1> TAKE e \in Displays
<1>1. seq'[e] >= seq[e] /\ seq'[e] \in Nat
  <2>1. seq' = [seq EXCEPT ![d] = seq[d] + 1]
    BY DEF Dispatch
  <2> QED
    BY <2>1 DEF EngineTypeOK
<1>2. CASE Reachable(d)
  <2>1. inflight' = [inflight EXCEPT ![d][key] = seq[d] + 1]
    BY <1>2 DEF Dispatch
  <2>2. key # "Get"
    BY DEF Feature
  <2> QED
    BY <1>1, <2>1, <2>2 DEF EngineTypeOK
<1>3. CASE ~Reachable(d)
  BY <1>1, <1>3 DEF Dispatch
<1> QED
  BY <1>2, <1>3

LEMMA IntentChosen ==
  ASSUME EngineTypeOK, IntentInv, NEW d \in Displays, NEW pct \in Levels,
         SetUserLevel(d, pct)
  PROVE  IntentInv'
<1>1. \A e \in Displays : /\ inflight'[e]["Get"] = inflight[e]["Get"]
                          /\ seq'[e] >= seq[e] /\ seq'[e] \in Nat
  <2>1. CASE IsResponsive(records[d])
    BY <2>1, IntentDispatched DEF SetUserLevel, dispatch_set, Feature
  <2>2. CASE ~IsResponsive(records[d])
    BY <2>2 DEF SetUserLevel, dispatch_set, EngineTypeOK
  <2> QED
    BY <2>1, <2>2
<1>3. \A e \in Displays : chosen_at'[e] <= seq'[e]
  BY <1>1 DEF SetUserLevel, EngineTypeOK, IntentInv
<1>4. ASSUME NEW e \in pending_learn' \cup poll_gets', inflight'[e]["Get"] # NoSeq
      PROVE  inflight'[e]["Get"] > chosen_at'[e]
  <2>1. e # d /\ e \in pending_learn \cup poll_gets /\ e \in Displays
    BY <1>4 DEF SetUserLevel, EngineTypeOK
  <2>2. chosen_at'[e] = chosen_at[e]
    BY <2>1 DEF SetUserLevel, EngineTypeOK
  <2> QED
    BY <1>1, <1>4, <2>1, <2>2 DEF IntentInv
<1> QED
  BY <1>3, <1>4 DEF IntentInv

LEMMA IntentPolled ==
  ASSUME EngineTypeOK, IntentInv, PollLevels
  PROVE  IntentInv'
<1> DEFINE sent == {d \in Displays : Pollable(d) /\ Reachable(d)}
<1>1. \A d \in Displays : chosen_at'[d] <= seq'[d]
  BY DEF PollLevels, EngineTypeOK, IntentInv
<1>2. ASSUME NEW d \in pending_learn' \cup poll_gets', inflight'[d]["Get"] # NoSeq
      PROVE  inflight'[d]["Get"] > chosen_at'[d]
  <2>1. d \in Displays /\ chosen_at'[d] = chosen_at[d] /\ chosen_at[d] <= seq[d]
    BY <1>2 DEF PollLevels, EngineTypeOK, IntentInv
  <2>2. CASE d \in sent
    <3>1. inflight'[d]["Get"] = seq[d] + 1
      BY <2>1, <2>2 DEF PollLevels, EngineTypeOK, InflightKey
    <3> QED
      BY <2>1, <3>1 DEF EngineTypeOK
  <2>3. CASE d \notin sent
    <3>1. inflight'[d] = inflight[d]
      BY <2>1, <2>3 DEF PollLevels
    <3>2. d \in pending_learn \cup poll_gets
      BY <1>2, <2>3 DEF PollLevels
    <3> QED
      BY <1>2, <2>1, <3>1, <3>2 DEF IntentInv
  <2> QED
    BY <2>2, <2>3
<1> QED
  BY <1>1, <1>2 DEF IntentInv

LEMMA IntentStep ==
  ASSUME EngineTypeOK, IntentInv, [WorkerSide \/ EngineNext]_vars
  PROVE  IntentInv'
<1> USE DEF loopVars, opVars, healthVars, scaleVars, engineVars, channels
<1>1. CASE UNCHANGED vars \/ WorkerSide \/ PlatformEvent \/ ShutDown
  BY <1>1, IntentKept DEF vars, WorkerSide, PlatformEvent, ShutDown
<1>2. ASSUME NEW seen \in SUBSET Displays, Startup(seen) \/ DebounceFires(seen) \/ RefreshNow(seen)
      PROVE  IntentInv'
  BY <1>2, IntentRefreshed DEF Startup, DebounceFires, RefreshNow
<1>3. ASSUME NEW d \in Displays, NEW pct \in Levels, SetUserLevel(d, pct)
      PROVE  IntentInv'
  BY <1>3, IntentChosen
<1>4. ASSUME NEW d \in Displays, NEW value \in Inputs, SetInput(d, value)
      PROVE  IntentInv'
  <2>1. \A e \in Displays : /\ inflight'[e]["Get"] = inflight[e]["Get"]
                            /\ seq'[e] >= seq[e] /\ seq'[e] \in Nat
    BY <1>4, IntentDispatched DEF SetInput, Feature
  <2>2. UNCHANGED <<pending_learn, poll_gets, chosen_at>>
    BY <1>4 DEF SetInput
  <2> QED
    BY <2>1, <2>2 DEF IntentInv, EngineTypeOK
<1>5. ASSUME NEW on \in BOOLEAN, SetLevelPolling(on)
      PROVE  IntentInv'
  BY <1>5, IntentKept DEF SetLevelPolling
<1>6. CASE PollLevels
  BY <1>6, IntentPolled
<1>7. ASSUME NEW aged \in SUBSET Displays, WatchdogFires(aged)
      PROVE  IntentInv'
  BY <1>7, IntentSurfaced DEF WatchdogFires, mark_stuck
<1>8. CASE AckSet \/ AckGetUnusable
  <2>1. ack.id \in Displays /\ ack.key \in InflightKey /\ "Get" \in InflightKey
    BY <1>8, AckType DEF AckSet, AckGetUnusable, Receive, InflightKey
  <2> QED
    BY <1>8, <2>1, IntentMatched, IntentKept DEF AckSet, AckGetUnusable
<1>9. CASE AckGetLearned \/ AckPollHeals \/ AckPollReflects \/ AckGetNoted
  <2>1. TakeReading
    BY <1>9 DEF AckGetLearned, AckPollHeals, AckPollReflects, AckGetNoted
  <2>2. ack.id \in Displays /\ "Get" \in InflightKey
    BY <2>1, ReadingType DEF InflightKey
  <2> QED
    BY <2>1, <2>2, IntentMatched, IntentKept DEF TakeReading
<1>10. CASE AckPanicked
  <2>1. ack.id \in Displays /\ ack.key \in InflightKey
    BY <1>10, AckType DEF AckPanicked, Receive
  <2>2. CASE FromRegistered /\ CanMarkUnresponsive(records[ack.id])
    BY <1>10, <2>1, <2>2, IntentSurfaced DEF AckPanicked, mark_stuck
  <2>3. CASE ~(FromRegistered /\ CanMarkUnresponsive(records[ack.id]))
    BY <1>10, <2>1, <2>3, IntentMatched, IntentKept DEF AckPanicked
  <2> QED
    BY <2>2, <2>3
<1>11. CASE AckOpenFailed
  <2>1. ack.id \in Displays
    BY <1>11, AckType DEF AckOpenFailed, Receive
  <2>2. CASE FromRegistered
    BY <1>11, <2>1, <2>2, IntentSurfaced DEF AckOpenFailed
  <2>3. CASE ~FromRegistered
    BY <1>11, <2>3, IntentKept DEF AckOpenFailed
  <2> QED
    BY <2>2, <2>3
<1>12. CASE AckSoftwareFallback
  BY <1>12, IntentKept DEF AckSoftwareFallback
<1> QED
  BY <1>1, <1>2, <1>3, <1>4, <1>5, <1>6, <1>7, <1>8, <1>9, <1>10, <1>11, <1>12
     DEF EngineNext, Enumerates, AppCommand, Timer, HandleAck

LEMMA IntentInit == EngineInit => IntentInv
<1> SUFFICES ASSUME EngineInit PROVE IntentInv
  OBVIOUS
<1>1. \A d \in Displays : chosen_at[d] <= seq[d]
  <2> TAKE d \in Displays
  <2>1. chosen_at[d] = 0 /\ seq[d] = 0
    BY DEF EngineInit
  <2> QED
    BY <2>1
<1> QED
  BY <1>1 DEF EngineInit, IntentInv

\* Every step but the user's own choice keeps the recorded levels, or is the
\* answer to a read newer than that choice.
LEMMA LevelStep ==
  ASSUME EngineTypeOK, IntentInv, WorkerSide \/ EngineNext,
         NEW d \in Displays, LevelReplaced(d)
  PROVE  acks # <<>> /\ ack.id = d /\ ack.seq > chosen_at[d]
<1> USE DEF loopVars, opVars, healthVars, scaleVars, engineVars, channels
<1> DEFINE Kept == records'[d].level = records[d].level
<1>0. ~Kept /\ ~\E pct \in Levels : SetUserLevel(d, pct)
  BY DEF LevelReplaced
<1>1. CASE WorkerSide \/ PlatformEvent \/ ShutDown \/ PollLevels
  BY <1>0, <1>1 DEF WorkerSide, PlatformEvent, ShutDown, PollLevels
<1>2. ASSUME NEW seen \in SUBSET Displays, Startup(seen) \/ DebounceFires(seen) \/ RefreshNow(seen)
      PROVE  Kept
  <2>1. records'[d] = ApplyEnumeration(records[d], d \in seen)
    BY <1>2 DEF Startup, DebounceFires, RefreshNow, refresh
  <2> QED
    BY <2>1 DEF ApplyEnumeration, EngineTypeOK, DisplayRecord
<1>3. ASSUME NEW e \in Displays, NEW pct \in Levels, SetUserLevel(e, pct)
      PROVE  Kept
  BY <1>0, <1>3 DEF SetUserLevel, EngineTypeOK
<1>4. ASSUME NEW e \in Displays, NEW value \in Inputs, SetInput(e, value)
      PROVE  Kept
  BY <1>4 DEF SetInput
<1>5. ASSUME NEW on \in BOOLEAN, SetLevelPolling(on)
      PROVE  Kept
  BY <1>5 DEF SetLevelPolling
<1>6. ASSUME NEW ids \in SUBSET Displays, surface_unresponsive(ids)
      PROVE  Kept
  BY <1>6 DEF surface_unresponsive, MarkUnresponsive, EngineTypeOK, DisplayRecord
<1>7. ASSUME NEW aged \in SUBSET Displays, WatchdogFires(aged)
      PROVE  Kept
  BY <1>6, <1>7 DEF WatchdogFires, mark_stuck
<1>8. CASE AckSet \/ AckGetUnusable \/ AckGetNoted
  BY <1>0, <1>8 DEF AckSet, AckGetUnusable, AckGetNoted
<1>9. CASE AckGetLearned \/ AckPollReflects
  <2>1. TakeReading /\ ack.id \in pending_learn \cup poll_gets
    BY <1>9 DEF AckGetLearned, AckPollReflects, IsPollReading
  <2>2. acks # <<>> /\ ack.id \in Displays
    BY <2>1, ReadingType DEF TakeReading, Receive
  <2>3. ack.id = d
    BY <1>0, <1>9 DEF AckGetLearned, AckPollReflects, EngineTypeOK
  <2>4. inflight[ack.id]["Get"] = ack.seq /\ ack.seq # NoSeq
    BY <2>1 DEF TakeReading, Fresh
  <2> QED
    BY <2>1, <2>2, <2>3, <2>4 DEF IntentInv
<1>10. CASE AckPollHeals
  BY <1>0, <1>10 DEF AckPollHeals, ClearSoftwareForced, EngineTypeOK, DisplayRecord
<1>11. CASE AckPanicked \/ AckOpenFailed
  <2>1. ack.id \in Displays
    BY <1>11, AckType DEF AckPanicked, AckOpenFailed, Receive
  <2> QED
    BY <1>0, <1>6, <1>11, <2>1 DEF AckPanicked, AckOpenFailed, mark_stuck
<1>12. CASE AckSoftwareFallback
  BY <1>0, <1>12 DEF AckSoftwareFallback, MarkSoftwareOnly, EngineTypeOK, DisplayRecord
<1> QED
  BY <1>0, <1>1, <1>2, <1>3, <1>4, <1>5, <1>7, <1>8, <1>9, <1>10, <1>11, <1>12
     DEF EngineNext, Enumerates, AppCommand, Timer, HandleAck

\* The user's intent wins: no answer to a read asked for before the user's
\* last choice of a level ever replaces that level.
THEOREM IntentIsKept == OpenSpec => UserIntentWins
<1>1. OpenSpec => [](EngineTypeOK /\ IntentInv)
  BY TypeInit, IntentInit, TypeStep, IntentStep, PTL DEF OpenSpec
<1>2. ASSUME EngineTypeOK, IntentInv, [WorkerSide \/ EngineNext]_vars
      PROVE  [\A d \in Displays :
                LevelReplaced(d) => acks # <<>> /\ ack.id = d /\ ack.seq > chosen_at[d]]_vars
  BY <1>2, LevelStep
<1> QED
  BY <1>1, <1>2, PTL DEF OpenSpec, UserIntentWins

-----------------------------------------------------------------------------
(* Module Engine implements module DisplayLifecycle: every step of the     *)
(* engine moves every display along the lifecycle, or leaves it alone.     *)

\* The four statuses of a display while the engine has not stopped.
LEMMA StatusIs ==
  ASSUME phase # "stopped", NEW d \in Displays
  PROVE  /\ ~Connected(records[d]) => Status(d) = "absent"
         /\ Connected(records[d]) /\ HasWorker(d) => Status(d) = "live"
         /\ Connected(records[d]) /\ ~HasWorker(d) /\ records[d].responsive
              => Status(d) = "abandoned"
         /\ Connected(records[d]) /\ ~HasWorker(d) /\ ~records[d].responsive
              => Status(d) = "greyed"
BY DEF Status

LEMMA StatusAfter ==
  ASSUME phase' # "stopped", NEW d \in Displays
  PROVE  /\ ~Connected(records'[d]) => Status(d)' = "absent"
         /\ Connected(records'[d]) /\ workers'[d] # NoWorker => Status(d)' = "live"
         /\ Connected(records'[d]) /\ workers'[d] = NoWorker /\ records'[d].responsive
              => Status(d)' = "abandoned"
         /\ Connected(records'[d]) /\ workers'[d] = NoWorker /\ ~records'[d].responsive
              => Status(d)' = "greyed"
BY DEF Status, HasWorker

\* One display goes from one status to another.
Goes(d, from, to, more) ==
  Status(d) = from /\ Status(d)' = to /\ stuck_count'[d] = stuck_count[d] + more

\* The moves of DisplayLifecycle, said of the engine's own state.
Moves(d) ==
  \/ Goes(d, "absent", "live", 0)
  \/ Status(d) # "off" /\ Goes(d, Status(d), "absent", 0)
  \/ Goes(d, "live", "greyed", 0)
  \/ Goes(d, "live", "greyed", 1)
  \/ stuck_count[d] < MAX_STUCK_RESPAWNS /\ Goes(d, "greyed", "live", 0)
  \/ stuck_count[d] >= MAX_STUCK_RESPAWNS /\ Goes(d, "greyed", "abandoned", 0)
  \/ Goes(d, Status(d), Status(d), 0)

LEMMA MovesImplementLive ==
  ASSUME \A d \in Displays : Moves(d)
  PROVE  Lifecycle!Live
BY DEF Moves, Goes, Lifecycle!Live, Lifecycle!Goes, Lifecycle!Plug, Lifecycle!Unplug,
       Lifecycle!Fail, Lifecycle!Strike, Lifecycle!Recover, Lifecycle!GiveUp,
       Lifecycle!Stay

\* A step that leaves connection, health and workers alone.
LEMMA MovesKept ==
  ASSUME EngineTypeOK, UNCHANGED <<phase, workers, stuck_count>>,
         NEW d \in Displays,
         /\ records'[d].state = records[d].state
         /\ records'[d].responsive = records[d].responsive
  PROVE  Moves(d)
<1>1. Status(d)' = Status(d)
  BY DEF Status, HasWorker, Connected
<1>2. stuck_count'[d] = stuck_count[d] + 0
  BY DEF EngineTypeOK
<1> QED
  BY <1>1, <1>2 DEF Moves, Goes

\* A worker is let go: its display was live and is greyed.
LEMMA MovesSurfaced ==
  ASSUME EngineTypeOK, HealthInv, phase = "running", phase' = phase,
         NEW ids \in SUBSET Displays, surface_unresponsive(ids), NEW d \in Displays,
         d \in ids => /\ HasWorker(d)
                      /\ \/ stuck_count'[d] = stuck_count[d]
                         \/ stuck_count'[d] = stuck_count[d] + 1,
         d \notin ids => stuck_count'[d] = stuck_count[d]
  PROVE  Moves(d)
<1>1. CASE d \in ids
  <2>1. CanMarkUnresponsive(records[d]) /\ records[d] \in DisplayRecord
    BY <1>1 DEF HealthInv, Healthy, EngineTypeOK
  <2>2. Status(d) = "live"
    BY <1>1, <2>1, StatusIs DEF CanMarkUnresponsive
  <2>3. Connected(records'[d]) /\ ~records'[d].responsive /\ workers'[d] = NoWorker
    BY <1>1, <2>1 DEF surface_unresponsive, MarkUnresponsive, CanMarkUnresponsive,
       Connected, DisplayRecord
  <2>4. Status(d)' = "greyed"
    BY <2>3, StatusAfter
  <2>5. stuck_count[d] = stuck_count[d] + 0
    BY DEF EngineTypeOK
  <2> QED
    BY <1>1, <2>2, <2>4, <2>5 DEF Moves, Goes
<1>2. CASE d \notin ids
  <2>1. records'[d] = records[d] /\ workers'[d] = workers[d]
    BY <1>2 DEF surface_unresponsive
  <2>2. Status(d)' = Status(d)
    BY <2>1 DEF Status, HasWorker
  <2>3. stuck_count'[d] = stuck_count[d] + 0
    BY <1>2 DEF EngineTypeOK
  <2> QED
    BY <2>2, <2>3 DEF Moves, Goes
<1> QED
  BY <1>1, <1>2

LEMMA MovesStuck ==
  ASSUME EngineTypeOK, HealthInv, phase = "running", phase' = phase,
         NEW ids \in SUBSET Displays, \A d \in ids : HasWorker(d), mark_stuck(ids),
         NEW d \in Displays
  PROVE  Moves(d)
<1> DEFINE fresh == {e \in ids : CanMarkUnresponsive(records[e])}
<1>1. surface_unresponsive(fresh) /\ fresh \in SUBSET Displays
  BY DEF mark_stuck
<1>2. d \in fresh => stuck_count'[d] = stuck_count[d] + 1
  BY DEF mark_stuck
<1>3. d \notin fresh => stuck_count'[d] = stuck_count[d]
  BY DEF mark_stuck
<1> QED
  BY <1>1, <1>2, <1>3, MovesSurfaced

LEMMA MovesRefreshed ==
  ASSUME EngineTypeOK, HealthInv, phase # "stopped", phase' # "stopped",
         NEW seen \in SUBSET Displays, refresh(seen), NEW d \in Displays
  PROVE  Moves(d)
<1>1. /\ Healthy(d) /\ records[d] \in DisplayRecord /\ next_gen[d] \in Nat
      /\ stuck_count[d] \in Nat /\ stuck_count'[d] = stuck_count[d] + 0
  BY MaxGenAssumption DEF HealthInv, EngineTypeOK, refresh
<1>2. records'[d] = ApplyEnumeration(records[d], d \in seen)
  BY DEF refresh
<1>3. CASE d \in Respawned(seen)
  <2>1. d \in seen
    BY <1>3 DEF Respawned, Joined, Replugged, Recovered, Added, Reattached, Responsive
  <2>2. Connected(records'[d]) /\ workers'[d] # NoWorker
    <3>1. Connected(records'[d])
      BY <1>1, <1>2, <2>1 DEF ApplyEnumeration, Connected, DisplayRecord
    <3>2. workers'[d] # NoWorker
      BY <1>1, <1>3 DEF refresh, NoWorker
    <3> QED
      BY <3>1, <3>2
  <2>3. Status(d)' = "live"
    BY <2>2, StatusAfter
  <2>4. CASE d \in Joined(seen) \cup Replugged(seen)
    <3>1. ~Connected(records[d])
      BY <2>4 DEF Joined, Replugged, Added, Reattached, Connected, Known
    <3>2. Status(d) = "absent"
      BY <3>1, StatusIs
    <3> QED
      BY <1>1, <2>3, <3>2 DEF Moves, Goes
  <2>5. CASE d \notin Joined(seen) \cup Replugged(seen)
    <3>1. d \in Recovered(seen)
      BY <1>3, <2>5 DEF Respawned
    <3>2. /\ Known(records[d]) /\ ~records[d].responsive
          /\ stuck_count[d] < MAX_STUCK_RESPAWNS
      BY <3>1 DEF Recovered, Responsive
    <3>3. Connected(records[d])
      BY <1>1, <2>1, <2>5, <3>2
         DEF Joined, Replugged, Added, Reattached, Connected, Known, DisplayRecord
    <3>4. ~HasWorker(d)
      BY <1>1, <3>2 DEF Healthy, CanMarkUnresponsive
    <3>5. Status(d) = "greyed"
      BY <3>2, <3>3, <3>4, StatusIs
    <3> QED
      BY <1>1, <2>3, <3>2, <3>5 DEF Moves, Goes
  <2> QED
    BY <2>4, <2>5
<1>4. CASE d \notin Respawned(seen) /\ ~(d \in seen)
  <2>1. ~Connected(records'[d])
    BY <1>1, <1>2, <1>4 DEF ApplyEnumeration, Connected, DisplayRecord
  <2>2. Status(d)' = "absent"
    BY <2>1, StatusAfter
  <2>3. Status(d) # "off"
    BY StatusIs
  <2> QED
    BY <1>1, <2>2, <2>3 DEF Moves, Goes
<1>5. CASE d \notin Respawned(seen) /\ d \in seen
  <2>1. d \notin Joined(seen) /\ d \notin Replugged(seen) /\ d \notin Recovered(seen)
    BY <1>5 DEF Respawned
  <2>2. Connected(records[d])
    BY <1>1, <1>5, <2>1
       DEF Joined, Replugged, Added, Reattached, Connected, Known, DisplayRecord
  <2>3. Connected(records'[d]) /\ records'[d].responsive
    BY <1>1, <1>2, <1>5 DEF ApplyEnumeration, Connected, DisplayRecord
  <2>4. workers'[d] = workers[d]
    <3>1. d \notin Gone(seen)
      BY <1>5 DEF Gone, Removed
    <3> QED
      BY <1>5, <2>1, <3>1 DEF refresh
  <2>5. CASE records[d].responsive
    <3>1. Status(d)' = Status(d)
      BY <2>2, <2>3, <2>4, <2>5, StatusIs, StatusAfter DEF HasWorker
    <3> QED
      BY <1>1, <3>1 DEF Moves, Goes
  <2>6. CASE ~records[d].responsive
    <3>1. ~HasWorker(d)
      BY <1>1, <2>6 DEF Healthy, CanMarkUnresponsive
    <3>2. Status(d) = "greyed" /\ Status(d)' = "abandoned"
      BY <2>2, <2>3, <2>4, <2>6, <3>1, StatusIs, StatusAfter DEF HasWorker
    <3>3. Responsive(records[d], d \in seen)
      BY <1>5, <2>2, <2>6 DEF Responsive, Known, Connected
    <3>4. stuck_count[d] >= MAX_STUCK_RESPAWNS
      BY <1>1, <2>1, <3>3 DEF Recovered, MAX_STUCK_RESPAWNS
    <3> QED
      BY <1>1, <3>2, <3>4 DEF Moves, Goes
  <2> QED
    BY <2>5, <2>6
<1> QED
  BY <1>3, <1>4, <1>5

\* A step of the open system moves every display, or stops the engine.
LEMMA EngineMoves ==
  ASSUME EngineTypeOK, HealthInv, [WorkerSide \/ EngineNext]_vars
  PROVE  (\A d \in Displays : Moves(d)) \/ ShutDown
<1> USE DEF loopVars, opVars, healthVars, scaleVars, engineVars, channels
<1> SUFFICES ASSUME ~ShutDown, NEW d \in Displays PROVE Moves(d)
  OBVIOUS
<1>1. CASE UNCHANGED vars \/ WorkerSide \/ PlatformEvent \/ PollLevels
  BY <1>1, MovesKept DEF vars, WorkerSide, PlatformEvent, PollLevels
<1>2. ASSUME NEW seen \in SUBSET Displays, Startup(seen) \/ DebounceFires(seen) \/ RefreshNow(seen)
      PROVE  Moves(d)
  BY <1>2, MovesRefreshed DEF Startup, DebounceFires, RefreshNow
<1>3. ASSUME NEW e \in Displays, NEW pct \in Levels, SetUserLevel(e, pct)
      PROVE  Moves(d)
  <2>1. /\ records'[d].state = records[d].state
        /\ records'[d].responsive = records[d].responsive
    BY <1>3 DEF SetUserLevel, RecordUserLevel, EngineTypeOK, DisplayRecord
  <2> QED
    BY <1>3, <2>1, MovesKept DEF SetUserLevel
<1>4. CASE \/ \E e \in Displays, value \in Inputs : SetInput(e, value)
           \/ \E on \in BOOLEAN : SetLevelPolling(on)
  BY <1>4, MovesKept DEF SetInput, SetLevelPolling
<1>5. ASSUME NEW aged \in SUBSET Displays, WatchdogFires(aged)
      PROVE  Moves(d)
  <2>1. \A e \in aged : HasWorker(e)
    BY <1>5 DEF WatchdogFires, HealthInv, Healthy
  <2> QED
    BY <1>5, <2>1, MovesStuck DEF WatchdogFires
<1>6. CASE \/ AckSet \/ AckGetUnusable
  BY <1>6, MovesKept DEF AckSet, AckGetUnusable, Receive
<1>7. CASE AckGetLearned \/ AckPollHeals \/ AckPollReflects \/ AckGetNoted
  <2>1. TakeReading
    BY <1>7 DEF AckGetLearned, AckPollHeals, AckPollReflects, AckGetNoted
  <2>2. /\ records'[d].state = records[d].state
        /\ records'[d].responsive = records[d].responsive
    BY <1>7, ReadingKeepsHealth
  <2> QED
    BY <2>1, <2>2, MovesKept DEF TakeReading
<1>8. CASE AckPanicked
  <2>1. ack.id \in Displays /\ phase = "running"
    BY <1>8, AckType DEF AckPanicked, Receive
  <2>2. CASE FromRegistered /\ CanMarkUnresponsive(records[ack.id])
    BY <1>8, <2>1, <2>2, MovesStuck DEF AckPanicked, FromRegistered
  <2>3. CASE ~(FromRegistered /\ CanMarkUnresponsive(records[ack.id]))
    BY <1>8, <2>3, MovesKept DEF AckPanicked
  <2> QED
    BY <2>2, <2>3
<1>9. CASE AckOpenFailed
  <2>1. ack.id \in Displays /\ phase = "running"
    BY <1>9, AckType DEF AckOpenFailed, Receive
  <2>2. CASE FromRegistered
    <3>1. surface_unresponsive({ack.id}) /\ UNCHANGED <<phase, stuck_count>>
      BY <1>9, <2>2 DEF AckOpenFailed
    <3>2. HasWorker(ack.id)
      BY <2>2 DEF FromRegistered
    <3>3. {ack.id} \in SUBSET Displays
      BY <2>1
    <3> QED
      BY <2>1, <3>1, <3>2, <3>3, MovesSurfaced
  <2>3. CASE ~FromRegistered
    BY <1>9, <2>3, MovesKept DEF AckOpenFailed
  <2> QED
    BY <2>2, <2>3
<1>10. CASE AckSoftwareFallback
  <2>1. /\ records'[d].state = records[d].state
        /\ records'[d].responsive = records[d].responsive
    BY <1>10 DEF AckSoftwareFallback, MarkSoftwareOnly, EngineTypeOK, DisplayRecord
  <2> QED
    BY <1>10, <2>1, MovesKept DEF AckSoftwareFallback
<1> QED
  BY <1>1, <1>2, <1>3, <1>4, <1>5, <1>6, <1>7, <1>8, <1>9, <1>10
     DEF EngineNext, Enumerates, AppCommand, Timer, HandleAck

LEMMA ShutDownImplementsStop ==
  ASSUME EngineTypeOK, ShutDown
  PROVE  Lifecycle!Stop
<1> SUFFICES ASSUME NEW d \in Displays
             PROVE  Status(d)' = "off" /\ stuck_count'[d] = stuck_count[d] + 0
  BY DEF Lifecycle!Stop, Lifecycle!Goes
<1>1. Status(d)' = "off"
  BY DEF ShutDown, Status
<1>2. stuck_count'[d] = stuck_count[d] + 0
  BY DEF ShutDown, healthVars, EngineTypeOK
<1> QED
  BY <1>1, <1>2

LEMMA LifecycleInit == EngineInit => Lifecycle!Init
<1> SUFFICES ASSUME EngineInit PROVE Lifecycle!Init
  OBVIOUS
<1>1. ASSUME NEW d \in Displays PROVE Status(d) = "absent"
  <2>1. phase # "stopped" /\ ~Connected(records[d])
    BY DEF EngineInit, Connected, Unknown
  <2> QED
    BY <2>1, StatusIs
<1>2. stuck_count = [d \in Displays |-> 0]
  BY DEF EngineInit
<1> QED
  BY <1>1, <1>2 DEF Lifecycle!Init

\* The engine keeps every display to its lifecycle: live from each plug until
\* its driver fails, back at the next sighting, and after two strikes only by
\* being replugged -- for any number of displays and whatever the workers do.
THEOREM EngineKeepsLifecycle == OpenSpec => KeepsLifecycle
<1>1. EngineTypeOK /\ HealthInv /\ [WorkerSide \/ EngineNext]_vars
        => [Lifecycle!Next]_(Lifecycle!lifecycleVars)
  BY EngineMoves, MovesImplementLive, ShutDownImplementsStop DEF Lifecycle!Next
<1> QED
  BY <1>1, LifecycleInit, HealthCorrect, PTL DEF OpenSpec, KeepsLifecycle, Lifecycle!Spec

=============================================================================
