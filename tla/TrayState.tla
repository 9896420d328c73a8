----------------------------- MODULE TrayState -----------------------------
(***************************************************************************)
(* The application state of the tray                                       *)
(* (crates/duja-app/src/bin_support/tray/state.rs): what the user asked    *)
(* for, display by display, folded over the engine's notifications.  The   *)
(* handlers run one at a time on the main thread.  The engine's thread     *)
(* enumerates on its own and writes the bounds map before it notifies, so  *)
(* a handler may read a map that is newer than the snapshot it was given.  *)
(*                                                                         *)
(* Every display has the same floor and scale, and overlays dim it; the    *)
(* gamma channel, which takes the same batch, is GammaChannel.             *)
(***************************************************************************)
EXTENDS CloneGroups, Continuum

CONSTANTS
  Panels,        \* the connected monitors, numbered in connector order
  BareId,        \* the id each reports; twins report the same
  Surfaces,      \* what the desktop may assign to a monitor
  MaxAttached,   \* bound: monitors attached at once
  MaxAnnounced,  \* bound: DisplaysChanged on their way
  Floor, MinPerceived,
  UserLevels,    \* bound: the levels a slider or a client asks for
  SavedLevels,   \* bound: what the state file may hold, NoLevel for none
  NudgedLevels,  \* bound: the levels a hotkey may lead to
  Readings,      \* bound: the hardware levels a snapshot or a poll reports
  Placeless,     \* the monitors whose backend may report no surface
  MayLackHardware, \* bound: the ids whose writes may be refused for good
  Step           \* HOTKEY_BRIGHTNESS_STEP

NoLevel == -1
DefaultUserLevel == 50     \* DEFAULT_USER_LEVEL_PCT

Percent == 0 .. 100

ASSUME TrayAssumption ==
  /\ Panels \subseteq Nat /\ BareId \in [Panels -> Nat]
  /\ NoSurface \notin Surfaces
  /\ Floor \in Percent /\ MinPerceived \in 0 .. 95
  /\ UserLevels \subseteq Percent /\ NudgedLevels \subseteq Percent
  /\ SavedLevels \subseteq Percent \union {NoLevel}
  /\ Readings \subseteq Percent
  /\ MaxAttached \in Nat /\ MaxAnnounced \in Nat /\ Step \in Nat

VARIABLES
  bounds,       \* BoundsMap: the last enumeration, a list of [panel, surface]
  due,          \* the engine owes a DisplaysChanged for it
  announced,    \* the DisplaysChanged on their way: the ids of each
  seen,         \* displays and groups: the grouping's source, by resolved id
  level,        \* the user levels of the state store
  controlled,   \* user_controlled
  unresponsive,
  greyed,       \* the rows FlyoutVm shows greyed
  overlays,     \* the overlays on screen
  sent          \* the hardware writes of the last step

engineVars == <<bounds, due, announced>>
vars == <<bounds, due, announced, seen, level, controlled, unresponsive, greyed,
          overlays, sent>>

\* The ids the monitors may come to have: a slot needs a twin.
Ids == {<<BareId[p], Bare>> : p \in Panels} \union
       {<<BareId[p], s>> : p \in {q \in Panels : \E r \in Panels \ {q} : BareId[r] = BareId[q]},
                           s \in 1 .. MaxAttached}

-----------------------------------------------------------------------------
(* The engine's side. *)

BareIds(map) == [i \in DOMAIN map |-> BareId[map[i].panel]]

\* Enumerations: in connector order, each monitor on a surface or on none.
Enumerations ==
  LET Places(n) == [1 .. n -> [panel : Panels, surface : Surfaces \union {NoSurface}]]
  IN {map \in UNION {Places(n) : n \in 0 .. MaxAttached} :
        /\ \A i, j \in DOMAIN map : i < j => map[i].panel < map[j].panel
        /\ \A i \in DOMAIN map : map[i].surface = NoSurface => map[i].panel \in Placeless}

\* The resolved ids of an enumeration.
IdsOf == [map \in Enumerations |->
            LET resolved == AssignTwinSlots(BareIds(map))
            IN {resolved[i] : i \in DOMAIN map}]

\* surface_token_for and bounds_for of a resolved id.
SurfaceFor == [map \in Enumerations |-> [id \in Ids |->
                 LET found == SelectSlotMatch(id, BareIds(map))
                 IN IF found = {} THEN NoSurface ELSE map[CHOOSE i \in found : TRUE].surface]]

\* What a DisplaysChanged about these displays may say: the engine's level for
\* each, and whether its hardware works.
Snapshots(ids) ==
  {s \in [ids -> [reading : Readings \union {DefaultUserLevel}, software : BOOLEAN]] :
     \A id \in ids : s[id].software => id \in MayLackHardware}

Init ==
  /\ bounds = <<>>
  /\ due = FALSE
  /\ announced = <<>>
  /\ seen = <<>>
  /\ \E saved \in SavedLevels : level = [id \in Ids |-> saved]
  /\ controlled = {} /\ unresponsive = {} /\ greyed = {}
  /\ overlays = {} /\ sent = {}

\* refresh: the enumerator writes the map; a pass that finds the same displays
\* yields no event and notifies nobody.
Enumerate ==
  /\ ~due
  /\ bounds' \in Enumerations
  /\ due' = (IdsOf[bounds'] # IdsOf[bounds])
  /\ sent' = {}
  /\ UNCHANGED <<announced, seen, level, controlled, unresponsive, greyed, overlays>>

\* notify_displays_changed: after such a pass, and whenever a level or the
\* state of a display's hardware changed.
Announce ==
  /\ Len(announced) < MaxAnnounced
  /\ announced' = Append(announced, IdsOf[bounds])
  /\ due' = FALSE
  /\ sent' = {}
  /\ UNCHANGED <<bounds, seen, level, controlled, unresponsive, greyed, overlays>>

-----------------------------------------------------------------------------
(* What the handlers share. *)

\* The continuum of a display's group, and of one that is not grouped yet.
ConfigOf(groups, id) ==
  IF GroupIsSoftware(groups, id) THEN SoftwareOnly ELSE Hardware(Floor, MinPerceived)

LevelOr(levels, id, default) == IF levels[id] = NoLevel THEN default ELSE levels[id]

\* The anchor a member routes to, or the id itself while it is in no group.
Route(id) == IF id \in DOMAIN seen THEN AnchorOf(seen, id) ELSE id

\* Seeded bug: one command for each panel.
PlanPerPanel(groups, held, levels) ==
  {o \in {[id |-> p, surface |-> SurfaceFor[bounds][p],
           alpha |-> OverlayAlpha(LevelOr(levels, p, 100), ConfigOf(groups, p))] :
            p \in DOMAIN groups \intersect held} :
     o.surface # NoSurface /\ o.alpha > 0}

\* plan_commands and the overlay half of apply_overlays: one command for each
\* controlled group whose place on the desktop is known; an overlay is on
\* screen when its alpha is not zero.
Plan(groups, held, levels) ==
  {o \in {[id |-> a, surface |-> SurfaceFor[bounds][a],
           alpha |-> OverlayAlpha(LevelOr(levels, a, 100), ConfigOf(groups, a))] :
            a \in Anchors(groups) \intersect held} :
     o.surface # NoSurface /\ o.alpha > 0}

\* group_hardware_writes
Writes(anchor, pct) ==
  IF anchor \in DOMAIN seen
    THEN FanOut(seen, anchor, HardwarePct(pct, ConfigOf(seen, anchor)))
    ELSE {}

-----------------------------------------------------------------------------
(* User input. *)

\* set_user_level, for each anchor of the domain of "wanted".
SetUserLevels(wanted) ==
  /\ level' = [id \in Ids |-> IF id \in DOMAIN wanted THEN wanted[id] ELSE level[id]]
  /\ controlled' = controlled \union DOMAIN wanted
  /\ overlays' = Plan(seen, controlled', level')
  /\ sent' = UNION {Writes(a, wanted[a]) : a \in DOMAIN wanted}
  /\ UNCHANGED <<engineVars, seen, unresponsive, greyed>>

\* A slider names a row, a client of the IPC server any display the engine
\* knows, which the tray may not have seen yet.
SetUserLevel ==
  \E id \in DOMAIN seen \union IdsOf[bounds], pct \in UserLevels :
    SetUserLevels([a \in {Route(id)} |-> pct])

\* nudge_all: every group by one hotkey step.
Nudge(delta) ==
  LET Clamped(n) == IF n < 0 THEN 0 ELSE IF n > 100 THEN 100 ELSE n
      wanted == [a \in Anchors(seen) |-> Clamped(LevelOr(level, a, 100) + delta)]
  IN /\ \A a \in DOMAIN wanted : wanted[a] \in NudgedLevels
     /\ SetUserLevels(wanted)

\* restore_screen: the overlays go until the next batch.
RestoreScreen ==
  /\ overlays' = {} /\ sent' = {}
  /\ UNCHANGED <<engineVars, seen, level, controlled, unresponsive, greyed>>

-----------------------------------------------------------------------------
(* Notifications. *)

\* adopt_position: a reading that is still the placeholder yields to the level
\* of an earlier session.
AdoptPosition(reading, saved, cfg) ==
  IF saved # NoLevel /\ reading = DefaultUserLevel THEN saved ELSE ReverseMap(reading, cfg)

\* on_displays_changed, with rebuild_groups and adopt_enumeration.
DisplaysChanged ==
  /\ announced # <<>>
  /\ \E snapshots \in Snapshots(Head(announced)) :
     LET groups == [id \in DOMAIN snapshots |->
                      [surface |-> SurfaceFor[bounds][id], software |-> snapshots[id].software]]
         moved  == Moved(seen, groups, controlled)
         Inherited(a) ==
           LevelOr(level, CHOOSE o \in Predecessors(seen, groups, controlled, a) : TRUE,
                   DefaultUserLevel)
         held == (controlled \union moved) \intersect DOMAIN groups
     IN /\ seen' = groups
        /\ controlled' = held
        /\ level' = [id \in Ids |->
             IF id \in moved THEN Inherited(id)
             ELSE IF id \in DOMAIN groups \ held
               THEN AdoptPosition(snapshots[id].reading, level[id], ConfigOf(groups, id))
               ELSE level[id]]
        /\ unresponsive' = unresponsive \intersect DOMAIN groups
        /\ greyed' = {a \in Anchors(groups) : AllUnresponsive(groups, a, unresponsive')}
        /\ overlays' = Plan(groups, held, level')
  /\ announced' = Tail(announced)
  /\ sent' = {}
  /\ UNCHANGED <<bounds, due>>

\* Seeded bug: the row shows the member that changed last.
MemberHealthUngrouped(id, responsive) ==
  /\ unresponsive' = IF responsive THEN unresponsive \ {id} ELSE unresponsive \union {id}
  /\ greyed' = IF id \notin DOMAIN seen THEN greyed
               ELSE IF responsive THEN greyed \ {Route(id)} ELSE greyed \union {Route(id)}
  /\ sent' = {}
  /\ UNCHANGED <<engineVars, seen, level, controlled, overlays>>

\* on_member_responsive
MemberHealth(id, responsive) ==
  /\ unresponsive' = IF responsive THEN unresponsive \ {id} ELSE unresponsive \union {id}
  /\ greyed' = IF id \notin DOMAIN seen THEN greyed
               ELSE IF AllUnresponsive(seen, id, unresponsive') THEN greyed \union {Route(id)}
               ELSE greyed \ {Route(id)}
  /\ sent' = {}
  /\ UNCHANGED <<engineVars, seen, level, controlled, overlays>>

\* reflected_level: a reading the current level does not already ask for.
Reflects(hw, current, cfg) ==
  LET intended == HardwarePct(current, cfg)
  IN intended # NoHardware /\ (hw - intended > 1 \/ intended - hw > 1)

\* Seeded bug: the overlays are not planned anew.
LevelReadOnly(id, hw) ==
  /\ id \in DOMAIN seen
  /\ Reflects(hw, LevelOr(level, Route(id), DefaultUserLevel), ConfigOf(seen, Route(id)))
  /\ level' = [level EXCEPT ![Route(id)] = ReverseMap(hw, ConfigOf(seen, Route(id)))]
  /\ sent' = {}
  /\ UNCHANGED <<engineVars, seen, controlled, unresponsive, greyed, overlays>>

\* on_level_read
LevelRead(id, hw) ==
  /\ id \in DOMAIN seen
  /\ LET a == Route(id)  cfg == ConfigOf(seen, a)
     IN /\ Reflects(hw, LevelOr(level, a, DefaultUserLevel), cfg)
        /\ level' = [level EXCEPT ![a] = ReverseMap(hw, cfg)]
  /\ overlays' = Plan(seen, controlled, level')
  /\ sent' = {}
  /\ UNCHANGED <<engineVars, seen, controlled, unresponsive, greyed>>

\* on_platform_wake
PlatformWake ==
  /\ overlays' = Plan(seen, controlled, level)
  /\ sent' = {}
  /\ UNCHANGED <<engineVars, seen, level, controlled, unresponsive, greyed>>

Next ==
  \/ Enumerate \/ Announce
  \/ SetUserLevel \/ Nudge(Step) \/ Nudge(-Step) \/ RestoreScreen
  \/ DisplaysChanged \/ PlatformWake
  \/ \E id \in IdsOf[bounds], responsive \in BOOLEAN : MemberHealth(id, responsive)
  \/ \E id \in IdsOf[bounds], hw \in Readings : LevelRead(id, hw)

Spec == Init /\ [][Next]_vars

-----------------------------------------------------------------------------
(* Properties. *)

\* Type correctness.
TrayTypeOK ==
  /\ bounds \in Enumerations /\ due \in BOOLEAN
  /\ Len(announced) =< MaxAnnounced
  /\ DOMAIN seen \subseteq Ids
  /\ level \in [Ids -> Percent \union {NoLevel}]
  /\ controlled \subseteq Ids /\ unresponsive \subseteq Ids /\ greyed \subseteq Ids
  /\ overlays \subseteq [id : Ids, surface : Surfaces, alpha : 1 .. MaxAlpha]
  /\ sent \subseteq [id : Ids, pct : Percent]

\* The grouping the handlers work with is the one of the desktop as it is.
Fresh == \A id \in DOMAIN seen : seen[id].surface = SurfaceFor[bounds][id]

\* A dim the user asked for stays with its screen when the displays behind it
\* change: an enumeration that leaves a surface with a group leaves it
\* controlled, at its level, whoever is the anchor now, and so for a display
\* that is on no surface before and after.
DimFollowsSurface ==
  [][ DisplaysChanged =>
        \A old \in Anchors(seen) \intersect controlled, new \in Anchors(seen') :
          /\ seen[old].surface = seen'[new].surface
          /\ seen[old].surface = NoSurface => old = new
          => new \in controlled' /\ (level[old] # NoLevel => level'[new] = level[old]) ]_vars

\* Twins are not mistaken for each other: the id an enumeration gives a monitor
\* finds that monitor, and no other, in the bare ids of the same enumeration.
TwinsStayApart ==
  LET bare == BareIds(bounds)
  IN \A i \in DOMAIN bounds : SelectSlotMatch(AssignTwinSlots(bare)[i], bare) = {i}

\* The row of a group is greyed exactly when none of its members answers,
\* whichever member the row was named for when that was noticed.
GreyedExactlyWhenAllDown ==
  \A a \in Anchors(seen) : a \in greyed <=> AllUnresponsive(seen, a, unresponsive)

\* What is on screen is what the sliders ask for: an overlay belongs to the
\* anchor of a group the user controls and has the depth of that group's level.
OverlayFollowsSlider ==
  \A o \in overlays :
    /\ o.id \in Anchors(seen) \intersect controlled
    /\ o.alpha = OverlayAlpha(LevelOr(level, o.id, 100), ConfigOf(seen, o.id))

\* A surface is dimmed once: with a grouping that is that of the desktop, a
\* handler leaves no second overlay on a surface, and under an overlay it
\* drives the panels to their floor or to full brightness, never in between.
NoDoubleDim ==
  [][ Fresh' /\ (overlays' # overlays \/ sent' # {}) =>
        \A o \in overlays' :
          /\ \A other \in overlays' : other.surface = o.surface => other = o
          /\ \A w \in sent' : SurfaceFor[bounds][w.id] = o.surface =>
               w.pct = IF GroupIsSoftware(seen, w.id) THEN 100 ELSE Floor ]_vars

\* The grouping is fresh across hot-plug and across a switch between
\* extending and duplicating the desktop, once every notification arrived.
GroupsFollowSurfaces == announced = <<>> /\ ~due => Fresh

=============================================================================
