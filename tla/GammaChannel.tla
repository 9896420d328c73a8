---------------------------- MODULE GammaChannel ----------------------------
(***************************************************************************)
(* The gamma channel of the tray application, as on Windows                *)
(* (crates/duja-app/src/bin_support/gamma.rs, startup.rs, tray/state.rs):  *)
(* the coordinator that diffs each batch of dimming commands against what  *)
(* it engaged, the sink that finds the device and drives the guard of      *)
(* module ScreenGuard, the overlays of the same batch, and the life of the *)
(* process around them: recovery at launch, "restore screen", quit, crash. *)
(*                                                                         *)
(* The batch runs on one thread; between two of its calls the system may   *)
(* change the displays, the engine thread may swap the bounds map, and the *)
(* process may die.                                                        *)
(***************************************************************************)
EXTENDS ScreenGuard, Sequences, Integers

CONSTANTS
  Ids,          \* resolved display ids
  Home,         \* the device name each display starts with
  Tinted,       \* devices another program tinted before Duja ran
  MaxEvents,    \* bound on display events
  MaxChanges,   \* bound on changes of a user level
  MaxLaunches   \* bound on launches of the process

NoDevice == "none"
Overlay  == "overlay"

ASSUME GammaAssumption ==
  /\ Home \in [Ids -> Devices]
  /\ \A i, j \in Ids : Home[i] = Home[j] => i = j
  /\ Tinted \subseteq Devices /\ NoDevice \notin Devices
  /\ MaxEvents \in Nat /\ MaxChanges \in Nat /\ MaxLaunches \in Nat

VARIABLES
  pc,        \* where the process is
  job,       \* what the guard's restore_now or clearing is part of
  plan,      \* the dim each user level asks for
  cmds,      \* the commands of the batch
  todo,      \* displays left in this phase of the batch
  rewrite,   \* engage_phase: it rewrites instead of diffing
  target,    \* the display and device whose ramp is being written
  engaged,   \* GammaCoordinator.engaged: the factor last accepted
  devices,   \* GuardSink.engaged: the device it was accepted on
  overlays,  \* displays covered by an overlay
  device,    \* the device name each display really has
  bounds,    \* the bounds map: the device name of the last enumeration
  groups,    \* the displays the application shows, from the last snapshots
  queue,     \* engine notifications the application has yet to handle
  quitting,  \* the event loop was told to quit
  events, changes, launches,   \* what is left of the bounds
  unmet,     \* history: displays whose dim this batch could not put
  trouble    \* history: this session met, or was asked for, a rescue

batchVars   == <<cmds, todo, rewrite, target>>
coordVars   == <<engaged, devices>>
displayVars == <<device, bounds, groups, queue, attached>>
budgetVars  == <<events, changes, launches>>
vars == <<ramp, attached, marker, marked, touched, lost, pc, job, plan, cmds, todo,
          rewrite, target, engaged, devices, overlays, device, bounds, groups, queue, quitting,
          events, changes, launches, unmet, trouble>>

\* A DimCommand: nothing to dim, an overlay, or a gamma factor (a display in
\* gamma mode carries no overlay).
DimCommand == Factors \cup {Off, Overlay}
Nothing    == [i \in Ids |-> Off]
NoTarget   == <<NoDevice, NoDevice>>

\* EngineNotification: the displays may have been reset; these are connected.
PlatformWake       == [kind |-> "PlatformWake", ids |-> {}]
DisplaysChanged(S) == [kind |-> "DisplaysChanged", ids |-> S]
Notification       == [kind : {"PlatformWake", "DisplaysChanged"}, ids : SUBSET Ids]

\* The displays a map of device names has.
Present(f) == {i \in Ids : f[i] # NoDevice}

Batching == {"engage", "write", "overlay", "restore"}
Up       == Batching \cup {"idle", "clear", "restoring", "rescue", "remove", "drop"}

GammaTypeOK ==
  /\ GuardTypeOK
  /\ pc \in Up \cup {"down", "recovering", "recovered"}
  /\ job \in {"batch", "screen", "quit", "drop"}
  /\ plan \in [Ids -> DimCommand] /\ cmds \in [Ids -> DimCommand]
  /\ todo \subseteq Ids /\ overlays \subseteq Ids /\ unmet \subseteq Ids
  /\ rewrite \in BOOLEAN /\ trouble \in BOOLEAN /\ quitting \in BOOLEAN
  /\ target \in (Ids \X Devices) \cup {NoTarget}
  /\ engaged \in [Ids -> Factors \cup {Off}]
  /\ devices \in [Ids -> Devices \cup {NoDevice}]
  /\ device \in [Ids -> Devices \cup {NoDevice}]
  /\ bounds \in [Ids -> Devices \cup {NoDevice}]
  /\ groups \subseteq Ids /\ queue \in Seq(Notification)
  /\ events \in Nat /\ changes \in Nat /\ launches \in Nat

\* What a new process starts from.  Nothing is dimmed before the user acts.
Fresh ==
  /\ plan' = Nothing /\ cmds' = Nothing /\ engaged' = Nothing
  /\ devices' = [i \in Ids |-> NoDevice]
  /\ todo' = {} /\ rewrite' = FALSE /\ target' = NoTarget /\ job' = "batch"
  /\ overlays' = {} /\ queue' = <<>> /\ unmet' = {} /\ quitting' = FALSE
  /\ bounds' = device /\ groups' = Present(device)

Init ==
  /\ ramp = [d \in Devices |-> IF d \in Tinted THEN Tint ELSE Off]
  /\ attached = {Home[i] : i \in Ids}
  /\ marker = FALSE /\ marked = FALSE /\ touched = {} /\ lost = {}
  /\ pc = "down" /\ job = "batch"
  /\ plan = Nothing /\ cmds = Nothing /\ engaged = Nothing
  /\ devices = [i \in Ids |-> NoDevice]
  /\ todo = {} /\ rewrite = FALSE /\ target = NoTarget
  /\ overlays = {} /\ queue = <<>> /\ unmet = {}
  /\ device = Home /\ bounds = Home /\ groups = Ids /\ quitting = FALSE
  /\ events = MaxEvents /\ changes = MaxChanges /\ launches = MaxLaunches
  /\ trouble = FALSE

-----------------------------------------------------------------------------
(* Launch: startup.rs.                                                     *)

Launch ==
  /\ pc = "down" /\ launches > 0
  /\ launches' = launches - 1
  /\ pc' = IF marker THEN "recovering" ELSE "idle"
  /\ trouble' = marker
  /\ Fresh
  /\ UNCHANGED <<ramp, attached, marker, marked, touched, lost, device, events, changes>>

\* recover_from_crash_marker: the restore hook runs, and whatever it reports ...
Recover ==
  /\ pc = "recovering"
  /\ RestoreAll
  /\ lost' = {d \in Devices : ramp'[d] \in Factors}
  /\ pc' = "recovered"
  /\ UNCHANGED <<marker, guardVars, job, plan, batchVars, coordVars, overlays,
                 displayVars, budgetVars, unmet, quitting, trouble>>

\* ... the marker is removed.
ForgetMarker ==
  /\ pc = "recovered"
  /\ marker' = FALSE
  /\ pc' = "idle"
  /\ UNCHANGED <<ramp, guardVars, lost, job, plan, batchVars, coordVars, overlays,
                 displayVars, budgetVars, unmet, quitting, trouble>>

-----------------------------------------------------------------------------
(* One batch: engage new ramps, diff the overlays, restore stale ramps.    *)

\* plan_commands: the displays the application shows whose bounds are known.
Commands(p, shown) ==
  [i \in Ids |-> IF i \in shown \cap Present(bounds) THEN p[i] ELSE Off]

\* Seeded bug: commands without a factor reach the ramp.
ToEngageAll(cs, again) == {i \in Ids : again \/ engaged[i] # cs[i]}

ToEngage(cs, again) ==
  {i \in Ids : cs[i] \in Factors /\ (again \/ engaged[i] # cs[i])}

ToRestore == {i \in Ids : engaged[i] # Off /\ cmds[i] \notin Factors}

\* apply_overlays; "again" after an invalidate.
ApplyOverlays(cs, again) ==
  /\ cmds' = cs
  /\ todo' = ToEngage(cs, again)
  /\ rewrite' = again
  /\ unmet' = {}
  /\ pc' = "engage" /\ job' = "batch"
  /\ UNCHANGED <<ramp, marker, guardVars, lost, target, coordVars, overlays, device,
                 bounds, attached, quitting, events, launches, trouble>>

SetUserLevel(i, ask) ==
  /\ pc = "idle" /\ changes > 0 /\ i \in groups
  /\ plan' = [plan EXCEPT ![i] = ask]
  /\ changes' = changes - 1
  /\ ApplyOverlays(Commands(plan', groups), FALSE)
  /\ UNCHANGED <<groups, queue>>

\* on_platform_wake invalidates before it applies, on_displays_changed regroups.
HandleNotification ==
  /\ pc = "idle" /\ queue # <<>>
  /\ queue' = Tail(queue)
  /\ groups' = IF Head(queue) = PlatformWake THEN groups ELSE Head(queue).ids
  /\ ApplyOverlays(Commands(plan, groups'), Head(queue) = PlatformWake)
  /\ UNCHANGED <<plan, changes>>

\* Seeded bug: the record of a display whose rewrite was refused is kept.
RefusedKeeping(i) == unmet' = unmet \cup {i} /\ UNCHANGED coordVars

\* A refused engage: an ordinary one keeps the record of the older factor, one
\* of a rewrite drops it.
Refused(i) ==
  /\ engaged' = IF rewrite THEN [engaged EXCEPT ![i] = Off] ELSE engaged
  /\ unmet' = unmet \cup {i}
  /\ UNCHANGED devices

\* GuardSink::engage up to the ramp: the device is looked up when it is needed.
Engage(i) ==
  /\ pc = "engage" /\ i \in todo
  /\ todo' = todo \ {i}
  /\ \/ /\ bounds[i] = NoDevice
        /\ Refused(i)
        /\ UNCHANGED <<pc, target, marker, marked>>
     \/ /\ bounds[i] # NoDevice
        /\ target' = <<i, bounds[i]>>
        /\ pc' = "write"
        /\ MarkIfNeeded
        /\ UNCHANGED <<coordVars, unmet>>
  /\ UNCHANGED <<ramp, touched, lost, job, plan, cmds, rewrite, overlays,
                 displayVars, budgetVars, quitting, trouble>>

WriteRamp ==
  LET i == target[1]
      d == target[2]
  IN
  /\ pc = "write"
  /\ \/ /\ SetGamma(d, cmds[i])
        /\ engaged' = [engaged EXCEPT ![i] = cmds[i]]
        /\ devices' = [devices EXCEPT ![i] = d]
        /\ UNCHANGED unmet
     \/ /\ RefusesGamma(d)
        /\ Refused(i)
        /\ UNCHANGED <<ramp, touched, lost>>
  /\ pc' = "engage" /\ target' = NoTarget
  /\ UNCHANGED <<marker, marked, job, plan, cmds, todo, rewrite, overlays,
                 displayVars, budgetVars, quitting, trouble>>

\* Seeded bug: stale ramps are restored before the overlays are diffed.
EngagePhaseEndsRestoring ==
  /\ pc = "engage" /\ todo = {}
  /\ pc' = "restore" /\ todo' = ToRestore
  /\ UNCHANGED <<ramp, marker, guardVars, lost, job, plan, cmds, rewrite, target,
                 coordVars, overlays, displayVars, budgetVars, unmet, quitting, trouble>>

EngagePhaseEnds ==
  /\ pc = "engage" /\ todo = {}
  /\ pc' = "overlay"
  /\ UNCHANGED <<ramp, marker, guardVars, lost, job, plan, batchVars, coordVars,
                 overlays, displayVars, budgetVars, unmet, quitting, trouble>>

\* Dimmer::apply, and the restore phase computes what is stale whatever it says.
OverlayDiff ==
  /\ pc = "overlay"
  /\ \/ /\ overlays' = {i \in Ids : cmds[i] = Overlay}
        /\ UNCHANGED unmet
     \/ /\ "overlay" \in Faults
        /\ unmet' = unmet \cup {i \in Ids : cmds[i] = Overlay}
        /\ UNCHANGED overlays
  /\ todo' = ToRestore
  /\ pc' = "restore"
  /\ UNCHANGED <<ramp, marker, guardVars, lost, job, plan, cmds, rewrite, target,
                 coordVars, displayVars, budgetVars, quitting, trouble>>

\* GuardSink::restore: the record goes whether or not the ramp does.
Restore(i) ==
  /\ pc = "restore" /\ i \in todo
  /\ todo' = todo \ {i}
  /\ engaged' = [engaged EXCEPT ![i] = Off]
  /\ devices' = [devices EXCEPT ![i] = NoDevice]
  /\ RestoreDisplay(devices[i])
  /\ pc' = IF devices[i] \in touched /\ touched' = {} THEN "clear" ELSE "restore"
  /\ trouble' = (trouble \/ devices[i] \in touched')
  /\ UNCHANGED <<marker, marked, lost, job, plan, cmds, rewrite, target, overlays,
                 displayVars, budgetVars, quitting, unmet>>

BatchEnds ==
  /\ pc = "restore" /\ todo = {}
  /\ pc' = "idle"
  /\ cmds' = Nothing /\ rewrite' = FALSE /\ unmet' = {}
  /\ UNCHANGED <<ramp, marker, guardVars, lost, job, plan, todo, target, coordVars,
                 overlays, displayVars, budgetVars, quitting, trouble>>

-----------------------------------------------------------------------------
(* Restore screen, quit, and the end of the process.                       *)

\* Dimmer::clear.
ClearOverlays ==
  \/ overlays' = {}
  \/ "overlay" \in Faults /\ UNCHANGED overlays

\* restore_screen clears the overlays first, begin_quit last.
RestoreScreen ==
  /\ pc = "idle" /\ changes > 0
  /\ changes' = changes - 1
  /\ pc' = "restoring" /\ job' = "screen"
  /\ ClearOverlays /\ trouble' = TRUE
  /\ UNCHANGED <<ramp, marker, guardVars, lost, plan, batchVars, coordVars,
                 displayVars, quitting, events, launches, unmet>>

BeginQuit ==
  /\ pc = "idle"
  /\ pc' = "restoring" /\ job' = "quit" /\ quitting' = TRUE
  /\ UNCHANGED <<ramp, marker, guardVars, lost, plan, batchVars, coordVars, overlays,
                 displayVars, budgetVars, unmet, trouble>>

\* Seeded bug: the marker goes although a restore failed.
RestoreNowClearing ==
  /\ pc = "restoring"
  /\ \E bad \in Failing(touched) :
       /\ RestoreTouched(bad)
       /\ devices' = [i \in Ids |-> IF devices[i] \in bad THEN devices[i] ELSE NoDevice]
       /\ trouble' = (trouble \/ bad # {})
  /\ pc' = "clear"
  /\ engaged' = Nothing
  /\ UNCHANGED <<marker, marked, lost, job, plan, batchVars, overlays,
                 displayVars, budgetVars, unmet, quitting>>

\* OsGamma::restore_all: the coordinator forgets everything, the sink keeps the
\* records of the devices that failed.
RestoreNow ==
  /\ pc = "restoring"
  /\ \E bad \in Failing(touched) :
       /\ RestoreTouched(bad)
       /\ devices' = [i \in Ids |-> IF devices[i] \in bad THEN devices[i] ELSE NoDevice]
       /\ pc' = IF bad = {} THEN "clear" ELSE "rescue"
       /\ trouble' = (trouble \/ bad # {})
  /\ engaged' = Nothing
  /\ UNCHANGED <<marker, marked, lost, job, plan, batchVars, overlays,
                 displayVars, budgetVars, unmet, quitting>>

\* Seeded bug: every quit ends with the global identity pass.
ClearThenRescue ==
  /\ pc = "clear"
  /\ ClearMarker
  /\ pc' = CASE job = "batch" -> "restore" [] job = "drop" -> "down" [] OTHER -> "rescue"
  /\ UNCHANGED <<ramp, touched, lost, job, plan, batchVars, coordVars, overlays,
                 displayVars, budgetVars, unmet, quitting, trouble>>

\* The marker goes when nothing is touched, and its caller goes on: the batch,
\* restore_screen, tear_down_gamma and begin_quit, or the end of Drop.
Clear ==
  /\ pc = "clear"
  /\ ClearMarker
  /\ pc' = CASE job = "batch"  -> "restore"
             [] job = "screen" -> "rescue"
             [] job = "quit"   -> "remove"
             [] job = "drop"   -> "down"
  /\ UNCHANGED <<ramp, touched, lost, job, plan, batchVars, coordVars, overlays,
                 displayVars, budgetVars, unmet, quitting, trouble>>

\* The global identity pass: always for restore_screen, after a restore that was
\* not clean for tear_down_gamma.
Rescue ==
  /\ pc = "rescue"
  /\ RestoreAll
  /\ pc' = "idle"
  /\ IF job = "quit" THEN ClearOverlays ELSE UNCHANGED overlays
  /\ UNCHANGED <<marker, guardVars, lost, job, plan, batchVars, coordVars,
                 displayVars, budgetVars, unmet, quitting, trouble>>

\* begin_quit removes the marker itself after a clean restore.  What the event
\* loop had queued is still handled before it ends.
RemoveMarker ==
  /\ pc = "remove"
  /\ marker' = FALSE
  /\ pc' = "idle"
  /\ ClearOverlays
  /\ UNCHANGED <<ramp, guardVars, lost, job, plan, batchVars, coordVars,
                 displayVars, budgetVars, unmet, quitting, trouble>>

LoopEnds ==
  /\ pc = "idle" /\ quitting
  /\ pc' = "drop"
  /\ UNCHANGED <<ramp, marker, guardVars, lost, job, plan, batchVars, coordVars,
                 overlays, displayVars, budgetVars, unmet, quitting, trouble>>

\* ScreenStateGuard::drop, at the end of the process or on a panic unwind.
Drop ==
  /\ pc = "drop"
  /\ \E bad \in Failing(touched) :
       /\ WriteIdentity(touched, bad)
       /\ pc' = IF bad = {} THEN "clear" ELSE "down"
       /\ marked' = (marked /\ bad = {})
  /\ touched' = {} /\ job' = "drop" /\ overlays' = {}
  /\ UNCHANGED <<marker, lost, plan, batchVars, coordVars, displayVars, budgetVars,
                 unmet, quitting, trouble>>

Panic ==
  /\ "panic" \in Faults /\ pc \in Batching \cup {"idle"}
  /\ pc' = "drop"
  /\ UNCHANGED <<ramp, marker, guardVars, lost, job, plan, batchVars, coordVars,
                 overlays, displayVars, budgetVars, unmet, quitting, trouble>>

Kill ==
  /\ "kill" \in Faults /\ pc # "down"
  /\ pc' = "down" /\ overlays' = {}
  /\ GuardGone
  /\ UNCHANGED <<ramp, marker, lost, job, plan, batchVars, coordVars,
                 displayVars, budgetVars, unmet, quitting, trouble>>

-----------------------------------------------------------------------------
(* The system and the engine thread.                                       *)

\* Where the displays may be: each on its own device, or not connected.
Placements ==
  {f \in [Ids -> Devices \cup {NoDevice}] :
     /\ \A i \in Ids : f[i] \in {Home[i], NoDevice} \/ "renumber" \in Faults
     /\ \A i, j \in Ids : f[i] = f[j] /\ f[i] # NoDevice => i = j}

Resets == IF "reset" \in Faults THEN SUBSET Devices ELSE {{}}

\* Displays come and go, ramps may be dropped, and the application is told.
DisplayEvent ==
  /\ events > 0
  /\ events' = events - 1
  /\ device' \in Placements
  /\ attached' = {device'[i] : i \in Ids} \ {NoDevice}
  /\ \E dropped \in Resets :
       ramp' = [d \in Devices |-> IF d \in dropped /\ Dimmed(d) THEN Off ELSE ramp[d]]
  /\ queue' = IF pc \in Up THEN Append(queue, PlatformWake) ELSE queue
  /\ UNCHANGED <<marker, guardVars, lost, pc, job, plan, batchVars, coordVars, overlays,
                 bounds, groups, changes, launches, unmet, quitting, trouble>>

\* The engine enumerates: the bounds map is replaced at once, the application is
\* told when a display came or went.
Enumerate ==
  /\ pc \in Up /\ bounds # device
  /\ bounds' = device
  /\ queue' = IF Present(bounds) # Present(device)
              THEN Append(queue, DisplaysChanged(Present(device))) ELSE queue
  /\ UNCHANGED <<ramp, attached, marker, guardVars, lost, pc, job, plan, batchVars,
                 coordVars, overlays, device, groups, budgetVars, unmet, quitting, trouble>>

\* The process is not launched again.
Terminated == pc = "down" /\ launches = 0 /\ UNCHANGED vars

Next ==
  \/ Terminated
  \/ Launch \/ Recover \/ ForgetMarker
  \/ \E i \in Ids, ask \in DimCommand : SetUserLevel(i, ask)
  \/ HandleNotification
  \/ \E i \in Ids : Engage(i) \/ Restore(i)
  \/ WriteRamp \/ EngagePhaseEnds \/ OverlayDiff \/ BatchEnds
  \/ RestoreScreen \/ BeginQuit \/ RestoreNow \/ Clear \/ Rescue \/ RemoveMarker
  \/ LoopEnds \/ Drop \/ Panic \/ Kill
  \/ DisplayEvent \/ Enumerate

Spec == Init /\ [][Next]_vars
-----------------------------------------------------------------------------
(* What the channel promises.                                              *)

\* A ramp of ours is never lit without the marker that makes the next launch
\* undo it, wherever the process dies -- except one the last recovery could not
\* restore, whose marker is removed all the same (startup.rs).
LitRampIsMarked == \A d \in Devices : Dimmed(d) => marker \/ d \in lost

\* The application knows of every display event.
UpToDate == \A k \in DOMAIN queue : queue[k] # PlatformWake

\* A recorded factor is what the device carries: when no display event is yet to
\* be handled, the diff skips only what is live, so no display that asks for
\* gamma stays bright until its slider moves.
RecordIsLive ==
  pc = "idle" /\ UpToDate =>
    \A i \in Ids : engaged[i] # Off => /\ devices[i] # NoDevice
                                      /\ ramp[devices[i]] = engaged[i]

\* The display is dimmed, by an overlay or by its ramp.
Shown(i) == i \in overlays \/ (devices[i] # NoDevice /\ Dimmed(devices[i]))

\* A batch that moves a display between an overlay and a ramp never brightens it
\* on the way, unless the new dim could not be put or the system dropped a ramp.
DimmedThroughout ==
  [][\A i \in Ids :
       /\ pc \in Batching /\ pc' # "down" /\ UpToDate'
       /\ Shown(i) /\ cmds[i] # Off
       => Shown(i)' \/ i \in unmet']_vars

\* The identity ramp replaces another program's only in a session that met a
\* marker or a failed restore, or was asked to restore the screen: every other
\* session ends without touching what it did not dim (tear_down_gamma, D-108).
SparesOtherPrograms ==
  [][\A d \in Devices : ramp[d] = Tint /\ ramp'[d] = Off => trouble']_vars

-----------------------------------------------------------------------------
(* What the documentation says and the code does not do.                   *)

\* gamma.rs, restore_phase: restore every ramp the batch no longer asks for.  A
\* rewrite that is refused forgets the display, and a later batch that no longer
\* dims it leaves the ramp up.
StaleRampsGo ==
  pc = "idle" /\ queue = <<>> /\ ~trouble =>
    \A i \in Ids : bounds[i] # NoDevice /\ plan[i] \notin Factors =>
                    ~Dimmed(bounds[i])

=============================================================================
