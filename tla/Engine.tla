------------------------------- MODULE Engine -------------------------------
(***************************************************************************)
(* The engine actor of crates/duja-app/src/engine.rs: one thread that owns *)
(* the display manager and every worker handle, and reacts to app commands,*)
(* worker acks, display-change ticks and its own timers.  Each action is   *)
(* one pass of the loop body that changes state.                           *)
(*                                                                         *)
(* The module is an open system: OpenSpec lets the workers' side of the    *)
(* channels do anything well typed, so a theorem about OpenSpec holds      *)
(* whatever the driver threads do.  EngineSystem closes it with the worker.*)
(*                                                                         *)
(* Time is abstract.  A timer that is armed may fire at any later step; in *)
(* particular any operation in flight may age past watchdog_timeout.       *)
(***************************************************************************)
EXTENDS Protocol, DisplayManager

CONSTANTS
  Levels,     \* the percentages the user picks from
  Inputs,     \* the input-source codes the displays advertise
  MaxSeq      \* bound: user commands stop once seq reaches it, polls one later

ASSUME EngineAssumption ==
  Levels \subseteq 0 .. 100 /\ Inputs \subseteq Nat /\ MaxSeq \in Nat

MAX_STUCK_RESPAWNS == 2

NoWorker  == 0     \* workers: no handle registered
NoReading == -1    \* last_hw_raw: None

VARIABLES
  phase,           \* "starting" until the first enumeration, then "running"
  records,         \* DisplayManager.records
  workers,         \* generation of the registered worker handle
  next_gen,        \* generations handed out so far
  seq,             \* sequence numbers handed out so far
  inflight,        \* seq of the watched operation per (display, key)
  brightness_max,  \* probed maximum; a display without one reads as 100
  last_hw_raw,     \* last raw brightness read
  pending_learn,   \* displays waiting for their initial level
  poll_gets,       \* displays whose Get in flight is a poll
  stuck_count,     \* times marked stuck
  polling,         \* poll_next.is_some(): the flyout is open
  debouncer,       \* the debouncer is armed
  unresponsive,    \* displays the tray greys, folded from the notifications
  chosen_at        \* history: seq when the user last chose a level

loopVars   == <<phase, polling, debouncer>>
opVars     == <<inflight, pending_learn, poll_gets>>
healthVars == <<workers, next_gen, stuck_count, unresponsive>>
scaleVars  == <<brightness_max, last_hw_raw>>
engineVars == <<loopVars, opVars, healthVars, scaleVars, records, seq, chosen_at>>
vars       == <<engineVars, channels>>

NothingInFlight == [key \in InflightKey |-> NoSeq]

EngineTypeOK ==
  /\ ProtocolTypeOK
  /\ phase \in {"starting", "running", "stopped"}
  /\ records \in [Displays -> DisplayRecord]
  /\ workers \in [Displays -> 0 .. MaxGen]
  /\ next_gen \in [Displays -> 0 .. MaxGen]
  /\ seq \in [Displays -> Nat]
  /\ inflight \in [Displays -> [InflightKey -> Nat]]
  /\ brightness_max \in [Displays -> Nat]
  /\ last_hw_raw \in [Displays -> Int]
  /\ pending_learn \in SUBSET Displays
  /\ poll_gets \in SUBSET Displays
  /\ stuck_count \in [Displays -> Nat]
  /\ polling \in BOOLEAN
  /\ debouncer \in BOOLEAN
  /\ unresponsive \in SUBSET Displays
  /\ chosen_at \in [Displays -> Nat]

EngineInit ==
  /\ ProtocolInit
  /\ phase = "starting"
  /\ records = [d \in Displays |-> Unknown]
  /\ workers = [d \in Displays |-> NoWorker]
  /\ next_gen = [d \in Displays |-> 0]
  /\ seq = [d \in Displays |-> 0]
  /\ inflight = [d \in Displays |-> NothingInFlight]
  /\ brightness_max = [d \in Displays |-> 100]
  /\ last_hw_raw = [d \in Displays |-> NoReading]
  /\ pending_learn = {} /\ poll_gets = {}
  /\ stuck_count = [d \in Displays |-> 0]
  /\ polling = FALSE /\ debouncer = FALSE
  /\ unresponsive = {}
  /\ chosen_at = [d \in Displays |-> 0]

-----------------------------------------------------------------------------
(* Scaling between a percentage and the panel's raw range.                 *)

pct_to_raw(pct, max) == (pct * max) \div 100

\* Seeded bug: a reading above the maximum is not clamped.
raw_to_pct_unclamped(current, max) ==
  IF max = 0 THEN 0 ELSE (current * 100) \div max

raw_to_pct(current, max) ==
  IF max = 0 THEN 0
  ELSE IF current >= max THEN 100 ELSE (current * 100) \div max

Distance(a, b) == IF a >= b THEN a - b ELSE b - a

-----------------------------------------------------------------------------
(* Building blocks.                                                        *)

Registered(d)   == <<d, workers[d]>>
HasWorker(d)    == workers[d] # NoWorker
Reachable(d)    == HasWorker(d) /\ Receiving(Registered(d))
ConnectedIds(r) == {d \in Displays : Connected(r[d])}

\* DisplaysChanged carries the connected displays; the tray forgets the
\* health of every other one.
PruneTo(ids) == ids \cap ConnectedIds(records')

\* retire_worker(id) for each id of ids: flag the worker, drop the handle,
\* and forget the operations in flight.
\* Seeded bug: the handle is dropped but the flag stays down.
RetireNobody(ids) == retired' = retired

RetireFlags(ids) ==
  retired' = [w \in Workers |->
                retired[w] \/ (w[1] \in ids /\ w[2] = workers[w[1]])]
\* Seeded bug: the operations of a retired worker stay in flight.
ForgetNoOps(ids) == inflight

ForgetOps(ids) ==
  [d \in Displays |-> IF d \in ids THEN NothingInFlight ELSE inflight[d]]

\* Hand the next seq to a command for d's worker and watch it if it was sent.
Dispatch(d, key, raw) ==
  LET s == seq[d] + 1 IN
  /\ seq' = [seq EXCEPT ![d] = s]
  /\ IF Reachable(d)
       THEN /\ inbox' = [inbox EXCEPT ![Registered(d)] =
                           Append(@, SetCommand(key, raw, s))]
            /\ inflight' = [inflight EXCEPT ![d][key] = s]
       ELSE UNCHANGED <<inbox, inflight>>

dispatch_set(d, pct) ==
  IF IsResponsive(records[d])
    THEN Dispatch(d, "Brightness", pct_to_raw(pct, brightness_max[d]))
    ELSE UNCHANGED <<seq, inbox, inflight>>

\* The handle of every display of ids is dropped, the tray is told.  Used
\* only for displays mark_unresponsive reported as a fresh transition.
surface_unresponsive(ids) ==
  /\ records' = [d \in Displays |->
                   IF d \in ids THEN MarkUnresponsive(records[d]) ELSE records[d]]
  /\ RetireFlags(ids)
  /\ workers' = [d \in Displays |-> IF d \in ids THEN NoWorker ELSE workers[d]]
  /\ inflight' = ForgetOps(ids)
  /\ pending_learn' = pending_learn \ ids
  /\ poll_gets' = poll_gets \ ids
  /\ unresponsive' = IF ids = {} THEN unresponsive ELSE PruneTo(unresponsive \cup ids)

mark_stuck(ids) ==
  LET fresh == {d \in ids : CanMarkUnresponsive(records[d])} IN
  /\ surface_unresponsive(fresh)
  /\ stuck_count' = [d \in Displays |->
                       IF d \in fresh THEN stuck_count[d] + 1 ELSE stuck_count[d]]

-----------------------------------------------------------------------------
(* Enumeration.  seen is the set of displays this pass sighted.            *)

Joined(seen)   == {d \in Displays : Added(records[d], d \in seen)}
Replugged(seen) == {d \in Displays : Reattached(records[d], d \in seen)}
Gone(seen)     == {d \in Displays : Removed(records[d], d \in seen)}

\* The Responsive arm: a display that was unresponsive, was not respawned by
\* this pass already, and has not used up its respawns.
\* Seeded bugs: an off-by-one in the respawn budget, and no budget at all.
RecoveredOneShort(seen) ==
  {d \in Displays : /\ Responsive(records[d], d \in seen)
                    /\ d \notin Replugged(seen)
                    /\ stuck_count[d] + 1 < MAX_STUCK_RESPAWNS}
RecoveredForEver(seen) ==
  {d \in Displays : Responsive(records[d], d \in seen) /\ d \notin Replugged(seen)}

Recovered(seen) ==
  {d \in Displays : /\ Responsive(records[d], d \in seen)
                    /\ d \notin Replugged(seen)
                    /\ stuck_count[d] < MAX_STUCK_RESPAWNS}

Respawned(seen) == Joined(seen) \cup Replugged(seen) \cup Recovered(seen)

\* Only a display that has a live worker again is reported responsive.
\* Seeded bug: responsive again at every sighting, worker or not.
UngreyedOnSighting(seen) ==
  {d \in Displays : Responsive(records[d], d \in seen)}

Ungreyed(seen) ==
  {d \in Respawned(seen) : Responsive(records[d], d \in seen)}

HasEvents(seen) ==
  \E d \in Displays : \/ d \in Joined(seen) \cup Replugged(seen) \cup Gone(seen)
                      \/ Responsive(records[d], d \in seen)

\* The one-shot a fresh worker is sent: the recorded level, else a read that
\* learns the level the panel is at.
FirstCommand(d) ==
  IF records[d].level = NoLevel
    THEN GetCommand(seq[d] + 1)
    ELSE SetCommand("Brightness", pct_to_raw(records[d].level, brightness_max[d]),
                    seq[d] + 1)

refresh(seen) ==
  LET fresh  == Respawned(seen)
      dropped == Gone(seen) \cup Replugged(seen) \cup Recovered(seen)
      learns == {d \in fresh : records[d].level = NoLevel}
      Born(w) == w[1] \in fresh /\ w[2] = next_gen[w[1]] + 1
  IN
  /\ records' = [d \in Displays |-> ApplyEnumeration(records[d], d \in seen)]
  /\ RetireFlags(dropped)
  /\ next_gen' = [d \in Displays |->
                    IF d \in fresh THEN next_gen[d] + 1 ELSE next_gen[d]]
  /\ workers' = [d \in Displays |->
                   IF d \in fresh THEN next_gen[d] + 1
                   ELSE IF d \in dropped THEN NoWorker ELSE workers[d]]
  /\ thread' = [w \in Workers |-> IF Born(w) THEN "running" ELSE thread[w]]
  /\ inbox' = [w \in Workers |->
                 IF Born(w) THEN <<FirstCommand(w[1])>> ELSE inbox[w]]
  /\ seq' = [d \in Displays |-> IF d \in fresh THEN seq[d] + 1 ELSE seq[d]]
  /\ inflight' = [d \in Displays |->
       IF d \in fresh
         THEN [NothingInFlight EXCEPT ![FirstCommand(d).op] = seq[d] + 1]
         ELSE ForgetOps(dropped)[d]]
  /\ pending_learn' = (pending_learn \ dropped) \cup learns
  /\ poll_gets' = poll_gets \ dropped
  /\ unresponsive' = IF HasEvents(seen) THEN PruneTo(unresponsive \ Ungreyed(seen))
                     ELSE unresponsive
  /\ UNCHANGED <<scaleVars, stuck_count, acks, chosen_at>>

\* Bound: a stimulus that will lead to n more enumerations is taken only while
\* every display has n generations left, so that no refresh is ever refused.
Room(n) == \A d \in Displays : next_gen[d] + n <= MaxGen

Startup(seen) ==
  /\ phase = "starting" /\ Room(1)
  /\ phase' = "running"
  /\ refresh(seen)
  /\ UNCHANGED <<polling, debouncer>>

DebounceFires(seen) ==
  /\ phase = "running" /\ debouncer /\ Room(1)
  /\ debouncer' = FALSE
  /\ refresh(seen)
  /\ UNCHANGED <<phase, polling>>

RefreshNow(seen) ==
  /\ phase = "running" /\ Room(IF debouncer THEN 2 ELSE 1)
  /\ refresh(seen)
  /\ UNCHANGED loopVars

\* A display-change tick: the app is told at once (PlatformWake), the
\* enumeration waits for the debouncer.
PlatformEvent ==
  /\ phase = "running" /\ Room(1)
  /\ debouncer' = TRUE
  /\ UNCHANGED <<phase, polling, opVars, healthVars, scaleVars, records, seq,
                 chosen_at, channels>>

-----------------------------------------------------------------------------
(* App commands.  Snapshot only reads, and is left out.                    *)

\* Seeded bug: the level probe under way is not cancelled.
SetUserLevelKeepingProbe(d, pct) ==
  /\ phase = "running" /\ seq[d] < MaxSeq
  /\ records' = [records EXCEPT ![d] = RecordUserLevel(@, pct)]
  /\ dispatch_set(d, pct)
  /\ unresponsive' = PruneTo(unresponsive)
  /\ chosen_at' = [chosen_at EXCEPT ![d] = seq[d]]
  /\ UNCHANGED <<loopVars, workers, next_gen, stuck_count, scaleVars,
                 pending_learn, poll_gets, acks, retired, thread>>

\* The user's intent wins over any level probe under way.
SetUserLevel(d, pct) ==
  /\ phase = "running" /\ seq[d] < MaxSeq
  /\ pending_learn' = pending_learn \ {d}
  /\ poll_gets' = poll_gets \ {d}
  /\ records' = [records EXCEPT ![d] = RecordUserLevel(@, pct)]
  /\ dispatch_set(d, pct)
  /\ unresponsive' = PruneTo(unresponsive)
  /\ chosen_at' = [chosen_at EXCEPT ![d] = seq[d]]
  /\ UNCHANGED <<loopVars, workers, next_gen, stuck_count, scaleVars,
                 acks, retired, thread>>

\* A code the display does not advertise is dropped before this.
SetInput(d, value) ==
  /\ phase = "running" /\ seq[d] < MaxSeq
  /\ IsResponsive(records[d])
  /\ Dispatch(d, "InputSource", value)
  /\ UNCHANGED <<loopVars, pending_learn, poll_gets, healthVars, scaleVars,
                 records, chosen_at, acks, retired, thread>>

SetLevelPolling(on) ==
  /\ phase = "running"
  /\ polling' = on
  /\ UNCHANGED <<phase, debouncer, opVars, healthVars, scaleVars, records, seq,
                 chosen_at, channels>>

\* shutdown_workers: flag every worker, tell it to stop, and wait for the
\* exits against one deadline.  The wait is over either way, so the action is.
ShutDown ==
  /\ phase = "running"
  /\ phase' = "stopped"
  /\ RetireFlags(Displays)
  /\ inbox' = [w \in Workers |->
                 IF w[2] = workers[w[1]] /\ Receiving(w)
                   THEN Append(inbox[w], ShutdownCommand) ELSE inbox[w]]
  /\ workers' = [d \in Displays |-> NoWorker]
  /\ UNCHANGED <<polling, debouncer, opVars, next_gen, stuck_count, unresponsive,
                 scaleVars, records, seq, chosen_at, acks, thread>>

-----------------------------------------------------------------------------
(* Timers.                                                                 *)

\* Seeded bug: polling reads while our own write is on its way.
PollableDuringWrites(d) ==
  /\ HasWorker(d)
  /\ IsResponsive(records[d])
  /\ d \notin pending_learn
  /\ inflight[d]["Get"] = NoSeq

\* poll_levels skips a display whose reading would be stale or our own echo.
Pollable(d) ==
  /\ HasWorker(d)
  /\ IsResponsive(records[d])
  /\ d \notin pending_learn
  /\ inflight[d]["Brightness"] = NoSeq
  /\ inflight[d]["Get"] = NoSeq

PollLevels ==
  LET polled == {d \in Displays : Pollable(d)}
      sent   == {d \in polled : Reachable(d)}
  IN
  /\ phase = "running" /\ polling
  /\ \A d \in polled : seq[d] <= MaxSeq
  /\ seq' = [d \in Displays |-> IF d \in polled THEN seq[d] + 1 ELSE seq[d]]
  /\ inbox' = [w \in Workers |->
                 IF w[1] \in sent /\ w = Registered(w[1])
                   THEN Append(inbox[w], GetCommand(seq[w[1]] + 1)) ELSE inbox[w]]
  /\ inflight' = [d \in Displays |->
                    IF d \in sent THEN [inflight[d] EXCEPT !["Get"] = seq[d] + 1]
                    ELSE inflight[d]]
  /\ poll_gets' = poll_gets \cup sent
  /\ UNCHANGED <<loopVars, pending_learn, healthVars, scaleVars, records,
                 chosen_at, acks, retired, thread>>

\* poll_watchdog finds the displays with an operation older than the timeout;
\* which operations are that old is for the environment to choose.
Watched == {d \in Displays : \E key \in InflightKey : inflight[d][key] # NoSeq}

\* Seeded bug: only writes are timed.
WatchdogFiresOnWrites(aged) ==
  /\ phase = "running"
  /\ aged # {}
  /\ \A d \in aged : \E key \in Feature : inflight[d][key] # NoSeq
  /\ mark_stuck(aged)
  /\ UNCHANGED <<loopVars, next_gen, scaleVars, seq, chosen_at, inbox, acks, thread>>

WatchdogFires(aged) ==
  /\ phase = "running"
  /\ aged # {} /\ aged \subseteq Watched
  /\ mark_stuck(aged)
  /\ UNCHANGED <<loopVars, next_gen, scaleVars, seq, chosen_at, inbox, acks, thread>>

-----------------------------------------------------------------------------
(* Worker acks.  Receive(outcome) takes the oldest one.                    *)

ack == Head(acks)

Receive(outcome) ==
  /\ phase = "running"
  /\ acks # <<>>
  /\ ack.outcome = outcome
  /\ acks' = Tail(acks)

\* clear_inflight_match: an ack counts only for the operation now watched.
Fresh(d, key, s)    == inflight[d][key] = s /\ s # NoSeq
ClearMatch(d, key, s) ==
  IF Fresh(d, key, s) THEN [inflight EXCEPT ![d][key] = NoSeq] ELSE inflight

\* Seeded bug: whatever worker of the display reports, the one registered pays.
FromAnyWorker == HasWorker(ack.id)

\* Only the worker registered now may report on its display's health.
FromRegistered == HasWorker(ack.id) /\ workers[ack.id] = ack.generation

AckSet ==
  /\ Receive("Set")
  /\ inflight' = ClearMatch(ack.id, ack.key, ack.seq)
  /\ UNCHANGED <<loopVars, pending_learn, poll_gets, healthVars, scaleVars,
                 records, seq, chosen_at, inbox, retired, thread>>

\* A superseded read, or a failed one: no reading to use.  pending_learn and
\* poll_gets keep the display.
AckGetUnusable ==
  /\ Receive("Get")
  /\ Fresh(ack.id, "Get", ack.seq) => ~ack.ok
  /\ inflight' = ClearMatch(ack.id, "Get", ack.seq)
  /\ UNCHANGED <<loopVars, pending_learn, poll_gets, healthVars, scaleVars,
                 records, seq, chosen_at, inbox, retired, thread>>

\* A usable reading is remembered whatever it was for.
TakeReading ==
  /\ Receive("Get")
  /\ Fresh(ack.id, "Get", ack.seq) /\ ack.ok
  /\ inflight' = ClearMatch(ack.id, "Get", ack.seq)
  /\ brightness_max' = [brightness_max EXCEPT ![ack.id] = ack.max]
  /\ last_hw_raw' = [last_hw_raw EXCEPT ![ack.id] = ack.current]
  /\ pending_learn' = pending_learn \ {ack.id}
  /\ poll_gets' = poll_gets \ {ack.id}
  /\ UNCHANGED <<loopVars, workers, next_gen, stuck_count, seq, chosen_at,
                 inbox, retired, thread>>

ReadingPct == raw_to_pct(ack.current, ack.max)

AckGetLearned ==
  /\ TakeReading
  /\ ack.id \in pending_learn
  /\ records' = [records EXCEPT ![ack.id] = RecordUserLevel(@, ReadingPct)]
  /\ unresponsive' = PruneTo(unresponsive)

\* A poll compares the reading with the raw value Duja's own write produced.
AtWrittenLevel ==
  LET known == records[ack.id].level IN
  known # NoLevel /\ Distance(ack.current, pct_to_raw(known, ack.max)) <= 1

IsPollReading == ack.id \notin pending_learn /\ ack.id \in poll_gets

\* A poll of a software-only display can only heal it: the panel has moved to
\* the value Duja wrote.
Heals ==
  /\ records[ack.id].software_forced
  /\ AtWrittenLevel
  /\ last_hw_raw[ack.id] # NoReading /\ last_hw_raw[ack.id] # ack.current

AckPollHeals ==
  /\ TakeReading
  /\ IsPollReading /\ Heals
  /\ records' = [records EXCEPT ![ack.id] = ClearSoftwareForced(@)]
  /\ unresponsive' = PruneTo(unresponsive)

\* LevelRead: the panel was changed by someone else; record it, tell the app.
Reflects == ~records[ack.id].software_forced /\ ~AtWrittenLevel

AckPollReflects ==
  /\ TakeReading
  /\ IsPollReading /\ Reflects
  /\ records' = [records EXCEPT ![ack.id] = RecordUserLevel(@, ReadingPct)]
  /\ UNCHANGED unresponsive

\* A poll that shows nothing new, or a read whose purpose the user cancelled.
AckGetNoted ==
  /\ TakeReading
  /\ ack.id \notin pending_learn
  /\ ack.id \in poll_gets => ~Heals /\ ~Reflects
  /\ UNCHANGED <<records, unresponsive>>

AckPanicked ==
  /\ Receive("Panicked")
  /\ IF FromRegistered /\ CanMarkUnresponsive(records[ack.id])
       THEN mark_stuck({ack.id})
       ELSE /\ inflight' = ClearMatch(ack.id, ack.key, ack.seq)
            /\ UNCHANGED <<pending_learn, poll_gets, records, retired, workers,
                           stuck_count, unresponsive>>
  /\ UNCHANGED <<loopVars, next_gen, scaleVars, seq, chosen_at, inbox, thread>>

\* A failed open greys the display until its next sighting, free of charge.
\* A registered worker's display can always be marked (InFlightIsRecoverable),
\* so the arm for one that cannot be is never reached.
AckOpenFailed ==
  /\ Receive("OpenFailed")
  /\ IF FromRegistered
       THEN surface_unresponsive({ack.id})
       ELSE UNCHANGED <<opVars, records, retired, workers, unresponsive>>
  /\ UNCHANGED <<loopVars, next_gen, stuck_count, scaleVars, seq, chosen_at,
                 inbox, thread>>

AckSoftwareFallback ==
  /\ Receive("SoftwareFallback")
  /\ records' = [records EXCEPT ![ack.id] =
                   IF FromRegistered THEN MarkSoftwareOnly(@) ELSE @]
  /\ unresponsive' = PruneTo(unresponsive)
  /\ UNCHANGED <<loopVars, opVars, workers, next_gen, stuck_count, scaleVars,
                 seq, chosen_at, inbox, retired, thread>>

HandleAck ==
  \/ AckSet \/ AckGetUnusable \/ AckGetLearned
  \/ AckPollHeals \/ AckPollReflects \/ AckGetNoted
  \/ AckPanicked \/ AckOpenFailed \/ AckSoftwareFallback

-----------------------------------------------------------------------------

Enumerates ==
  \E seen \in SUBSET Displays :
    Startup(seen) \/ DebounceFires(seen) \/ RefreshNow(seen)

AppCommand ==
  \/ \E d \in Displays, pct \in Levels : SetUserLevel(d, pct)
  \/ \E d \in Displays, value \in Inputs : SetInput(d, value)
  \/ \E on \in BOOLEAN : SetLevelPolling(on)
  \/ ShutDown

Timer == PollLevels \/ \E aged \in SUBSET Displays : WatchdogFires(aged)

EngineNext == Enumerates \/ PlatformEvent \/ AppCommand \/ Timer \/ HandleAck

\* The worker side of the channels, unconstrained: it may do anything to the
\* channels but touch what only the engine writes, and its threads may end but
\* not start.
WorkerSide ==
  /\ UNCHANGED <<engineVars, retired>>
  /\ inbox' \in [Workers -> Seq(WorkerCommand)]
  /\ acks' \in Seq(WorkerAck)
  /\ thread' \in [Workers -> {"none", "running", "exited"}]
  /\ \A w \in Workers :
       \/ thread'[w] = thread[w]
       \/ thread[w] = "running" /\ thread'[w] = "exited"

OpenSpec == EngineInit /\ [][WorkerSide \/ EngineNext]_vars

-----------------------------------------------------------------------------
(* What the engine guarantees whatever its workers do.                     *)

\* The watchdog can always act on what it watches: the display is registered,
\* connected and not yet marked.  Otherwise an aged operation would keep its
\* deadline in the past and the loop would spin on it.
InFlightIsRecoverable ==
  phase = "running" =>
    \A d \in Watched : HasWorker(d) /\ CanMarkUnresponsive(records[d])

\* The tray greys exactly the connected displays that have no live worker.
GreyedExactlyWhenWorkerless ==
  phase = "running" =>
    \A d \in ConnectedIds(records) : d \in unresponsive <=> ~HasWorker(d)

\* At most one worker per display may start writes: every thread that was not
\* retired is the one registered for its display.
OneWriter ==
  \A w \in Workers :
    thread[w] # "none" /\ ~retired[w] => workers[w[1]] = w[2]

\* A sighted display is left without a worker only once it got stuck twice.
AbandonedOnlyAfterTwoStuck ==
  phase = "running" =>
    \A d \in ConnectedIds(records) :
      records[d].responsive /\ ~HasWorker(d) => stuck_count[d] >= MAX_STUCK_RESPAWNS

\* The user's intent wins: only a reading asked for after the user's last
\* choice replaces the recorded level.
LevelReplaced(d) ==
  /\ records'[d].level # records[d].level
  /\ ~\E pct \in Levels : SetUserLevel(d, pct)

UserIntentWins ==
  [][\A d \in Displays :
       LevelReplaced(d) => acks # <<>> /\ ack.id = d /\ ack.seq > chosen_at[d]]_vars

-----------------------------------------------------------------------------
(* What a display is to the outside, and the lifecycle the engine keeps it  *)
(* to.                                                                     *)

Status(d) ==
  CASE phase = "stopped" -> "off"
    [] phase # "stopped" /\ ~Connected(records[d]) -> "absent"
    [] phase # "stopped" /\ Connected(records[d]) /\ HasWorker(d) -> "live"
    [] phase # "stopped" /\ Connected(records[d]) /\ ~HasWorker(d) ->
         IF records[d].responsive THEN "abandoned" ELSE "greyed"

Lifecycle == INSTANCE DisplayLifecycle WITH
  MaxStrikes <- MAX_STUCK_RESPAWNS,
  status  <- [d \in Displays |-> Status(d)],
  strikes <- stuck_count

\* A display is live from each plug until its driver fails, comes back at the
\* next sighting, and after two strikes only by being replugged.
KeepsLifecycle == Lifecycle!Spec

=============================================================================
