---------------------------- MODULE GammaProofs ----------------------------
(***************************************************************************)
(* What module GammaChannel promises of the crash marker, of ramps other    *)
(* programs set, of the coordinator's record and of the hand-over between   *)
(* ramps and overlays, proved for every set of displays, devices and        *)
(* factors, every bound, and every combination of faults; the last two but  *)
(* for the fault that renumbers devices.                                    *)
(***************************************************************************)
EXTENDS GammaChannel, TLAPS

\* What the phases of a batch leave for the next one.
BatchOK ==
  /\ pc \in {"engage", "write"} => \A i \in todo : cmds[i] \in Factors
  /\ pc = "write" => target \in Ids \X Devices /\ cmds[target[1]] \in Factors

\* The guard knows of every ramp of ours that is lit, and has marked it, as long
\* as the process lives; afterwards the marker alone does.
GuardOK ==
  /\ pc \in Up => \A d \in Devices : Dimmed(d) => d \in touched \cup lost
  /\ pc \notin Up => touched = {} /\ ~marked
  /\ pc \in {"down", "recovering"} => LitRampIsMarked
  /\ pc = "recovered" => \A d \in Devices : Dimmed(d) => d \in lost
  /\ pc \in {"clear", "remove"} => touched = {}
  /\ pc = "remove" => ~marked
  /\ touched # {} \/ pc = "write" => marked
  /\ marked => marker

\* A pass over every display runs in troubled sessions only, and the guard
\* touches no device that still carries another program's ramp.
SpareOK ==
  /\ pc \in Batching => job = "batch"
  /\ pc \in {"recovering", "rescue"} => trouble
  /\ pc \in {"restoring", "clear"} /\ job = "screen" => trouble
  /\ \A d \in touched : ramp[d] # Tint

IInv == GammaTypeOK /\ BatchOK /\ GuardOK /\ SpareOK

LEMMA NothingType ==
  Nothing \in [Ids -> DimCommand] /\ Nothing \in [Ids -> Factors \cup {Off}]
BY DEF Nothing, DimCommand

\* plan_commands gives each display a command, whatever the bounds map holds.
LEMMA CommandsType ==
  ASSUME NEW p \in [Ids -> DimCommand], NEW shown
  PROVE  Commands(p, shown) \in [Ids -> DimCommand]
BY DEF Commands, DimCommand

\* The engage phase handles displays that ask for a ramp.
LEMMA ToEngageType ==
  ASSUME NEW cs, NEW again
  PROVE  ToEngage(cs, again) \subseteq Ids /\ \A i \in ToEngage(cs, again) : cs[i] \in Factors
BY DEF ToEngage

LEMMA AppendType ==
  ASSUME NEW S, NEW q \in Seq(S), NEW n \in S
  PROVE  Append(q, n) \in Seq(S)
OBVIOUS

\* What is left of the bounds stays a number.
LEMMA BudgetStep ==
  ASSUME GammaTypeOK, [Next]_vars
  PROVE  events' \in Nat /\ changes' \in Nat /\ launches' \in Nat
<1>1. events \in Nat /\ changes \in Nat /\ launches \in Nat
  BY DEF GammaTypeOK
<1>2. ASSUME Launch PROVE launches' \in Nat /\ events' = events /\ changes' = changes
  BY <1>1, <1>2 DEF Launch
<1>3. ASSUME RestoreScreen PROVE changes' \in Nat /\ events' = events /\ launches' = launches
  BY <1>1, <1>3 DEF RestoreScreen
<1>4. ASSUME NEW i \in Ids, NEW ask \in DimCommand, SetUserLevel(i, ask)
      PROVE  changes' \in Nat /\ events' = events /\ launches' = launches
  BY <1>1, <1>4 DEF SetUserLevel, ApplyOverlays
<1>5. ASSUME HandleNotification PROVE UNCHANGED budgetVars
  BY <1>5 DEF HandleNotification, ApplyOverlays, budgetVars
<1>6. ASSUME DisplayEvent PROVE events' \in Nat /\ changes' = changes /\ launches' = launches
  BY <1>1, <1>6 DEF DisplayEvent
<1>7. ASSUME NEW i \in Ids, Engage(i) \/ Restore(i) PROVE UNCHANGED budgetVars
  BY <1>7 DEF Engage, Restore
<1>8. ASSUME \/ Terminated \/ Recover \/ ForgetMarker \/ WriteRamp \/ EngagePhaseEnds
             \/ OverlayDiff \/ BatchEnds \/ BeginQuit \/ RestoreNow \/ Clear \/ Rescue
             \/ RemoveMarker \/ LoopEnds \/ Drop \/ Panic \/ Kill \/ Enumerate
             \/ UNCHANGED vars
      PROVE  UNCHANGED budgetVars
  BY <1>8 DEF Terminated, Recover, ForgetMarker, WriteRamp, EngagePhaseEnds, OverlayDiff,
     BatchEnds, BeginQuit, RestoreNow, Clear, Rescue, RemoveMarker, LoopEnds, Drop, Panic,
     Kill, Enumerate, vars, budgetVars
<1> QED
  BY <1>1, <1>2, <1>3, <1>4, <1>5, <1>6, <1>7, <1>8 DEF Next, budgetVars

\* A display event moves displays between devices and drops ramps of ours.
LEMMA DisplaysMove ==
  ASSUME GammaTypeOK, DisplayEvent
  PROVE  /\ ramp' \in [Devices -> Ramp] /\ attached' \subseteq Devices
         /\ device' \in [Ids -> Devices \cup {NoDevice}]
         /\ queue' \in Seq(Notification) /\ events' \in Nat
         /\ \A d \in Devices : ramp'[d] = ramp[d] \/ ramp'[d] = Off
<1>1. events' \in Nat
  BY DEF GammaTypeOK, DisplayEvent
<1>2. PICK dropped \in Resets :
        ramp' = [d \in Devices |-> IF d \in dropped /\ Dimmed(d) THEN Off ELSE ramp[d]]
  BY DEF DisplayEvent
<1>3. ramp' \in [Devices -> Ramp] /\ \A d \in Devices : ramp'[d] = ramp[d] \/ ramp'[d] = Off
  BY <1>2 DEF GammaTypeOK, GuardTypeOK, Ramp
<1>4. device' \in Placements /\ attached' = {device'[i] : i \in Ids} \ {NoDevice}
  BY DEF DisplayEvent
<1>5. device' \in [Ids -> Devices \cup {NoDevice}]
  BY <1>4 DEF Placements
<1>6. attached' \subseteq Devices
  BY <1>4, <1>5
<1>7. queue' \in Seq(Notification)
  <2>1. PlatformWake \in Notification
    BY DEF PlatformWake, Notification
  <2>2. queue' = queue \/ queue' = Append(queue, PlatformWake)
    BY DEF DisplayEvent
  <2> QED
    BY <2>1, <2>2, AppendType DEF GammaTypeOK
<1> QED
  BY <1>1, <1>3, <1>5, <1>6, <1>7

LEMMA TypeStep ==
  ASSUME IInv, [Next]_vars
  PROVE  GammaTypeOK' /\ BatchOK'
<1> USE GuardAssumption, GammaAssumption DEF IInv, Up, Batching, Ramp, GammaTypeOK, GuardTypeOK, BatchOK,
       NoTarget, batchVars, coordVars, displayVars, budgetVars, guardVars
<1>1. ASSUME Terminated PROVE GammaTypeOK' /\ BatchOK'
  BY <1>1 DEF Terminated, vars
<1>2. ASSUME Launch PROVE GammaTypeOK' /\ BatchOK'
  <2>1. plan' \in [Ids -> DimCommand] /\ cmds' \in [Ids -> DimCommand]
        /\ engaged' \in [Ids -> Factors \cup {Off}]
    BY <1>2, NothingType DEF Launch, Fresh
  <2>2. devices' \in [Ids -> Devices \cup {NoDevice}] /\ groups' \subseteq Ids /\ queue' \in Seq(Notification)
    BY <1>2 DEF Launch, Fresh, Present
  <2> QED
    BY <1>2, <2>1, <2>2, BudgetStep DEF Launch, Fresh
<1>3. ASSUME Recover PROVE GammaTypeOK' /\ BatchOK'
  BY <1>3 DEF Recover, RestoreAll, WriteIdentity
<1>4. ASSUME ForgetMarker PROVE GammaTypeOK' /\ BatchOK'
  BY <1>4 DEF ForgetMarker
<1>5. ASSUME NEW i \in Ids, NEW ask \in DimCommand, SetUserLevel(i, ask) PROVE GammaTypeOK' /\ BatchOK'
  <2>1. plan' \in [Ids -> DimCommand]
    BY <1>5 DEF SetUserLevel
  <2>2. cmds' \in [Ids -> DimCommand] /\ todo' \subseteq Ids /\ \A k \in todo' : cmds'[k] \in Factors
    BY <1>5, <2>1, CommandsType, ToEngageType DEF SetUserLevel, ApplyOverlays
  <2> QED
    BY <1>5, <2>1, <2>2, BudgetStep DEF SetUserLevel, ApplyOverlays
<1>6. ASSUME HandleNotification PROVE GammaTypeOK' /\ BatchOK'
  <2>1. Head(queue) \in Notification /\ queue' \in Seq(Notification) /\ queue' = Tail(queue)
    BY <1>6 DEF HandleNotification
  <2>2. groups' \subseteq Ids
    BY <1>6, <2>1 DEF HandleNotification, Notification
  <2>3. cmds' \in [Ids -> DimCommand] /\ todo' \subseteq Ids /\ \A k \in todo' : cmds'[k] \in Factors
    BY <1>6, CommandsType, ToEngageType DEF HandleNotification, ApplyOverlays
  <2>4. rewrite' \in BOOLEAN
    BY <1>6 DEF HandleNotification, ApplyOverlays
  <2> QED
    BY <1>6, <2>1, <2>2, <2>3, <2>4 DEF HandleNotification, ApplyOverlays
<1>7. ASSUME NEW i \in Ids, Engage(i) PROVE GammaTypeOK' /\ BatchOK'
  <2>1. CASE bounds[i] = NoDevice
    <3>1. Refused(i) /\ UNCHANGED <<pc, target, marker, marked>>
      BY <1>7, <2>1 DEF Engage
    <3>2. engaged' \in [Ids -> Factors \cup {Off}] /\ devices' = devices /\ unmet' \subseteq Ids
      BY <3>1 DEF Refused
    <3> QED
      BY <1>7, <3>1, <3>2 DEF Engage
  <2>2. CASE bounds[i] # NoDevice
    <3>1. target' \in Ids \X Devices /\ target'[1] = i /\ pc' = "write" /\ UNCHANGED <<coordVars, unmet>>
      BY <1>7, <2>2 DEF Engage
    <3>2. marker' \in BOOLEAN /\ marked' \in BOOLEAN /\ cmds[i] \in Factors
      BY <1>7, <2>2 DEF Engage, MarkIfNeeded
    <3> QED
      BY <1>7, <3>1, <3>2 DEF Engage
  <2> QED
    BY <2>1, <2>2
<1>8. ASSUME NEW i \in Ids, Restore(i) PROVE GammaTypeOK' /\ BatchOK'
  BY <1>8 DEF Restore, RestoreDisplay, WriteIdentity, Failing
<1>9. ASSUME WriteRamp PROVE GammaTypeOK' /\ BatchOK'
  <2>1. target \in Ids \X Devices /\ cmds[target[1]] \in Factors
    BY <1>9 DEF WriteRamp
  <2>2. engaged' \in [Ids -> Factors \cup {Off}] /\ devices' \in [Ids -> Devices \cup {NoDevice}]
    BY <1>9, <2>1 DEF WriteRamp, Refused
  <2>3. ramp' \in [Devices -> Ramp] /\ touched' \subseteq Devices /\ lost' \subseteq Devices
    BY <1>9, <2>1 DEF WriteRamp, SetGamma
  <2>4. unmet' \subseteq Ids
    BY <1>9, <2>1 DEF WriteRamp, Refused
  <2> QED
    BY <1>9, <2>1, <2>2, <2>3, <2>4 DEF WriteRamp
<1>10. ASSUME EngagePhaseEnds PROVE GammaTypeOK' /\ BatchOK'
  BY <1>10 DEF EngagePhaseEnds
<1>11. ASSUME OverlayDiff PROVE GammaTypeOK' /\ BatchOK'
  BY <1>11 DEF OverlayDiff, ToRestore
<1>12. ASSUME BatchEnds PROVE GammaTypeOK' /\ BatchOK'
  BY <1>12 DEF BatchEnds, Nothing, DimCommand
<1>13. ASSUME RestoreScreen PROVE GammaTypeOK' /\ BatchOK'
  BY <1>13, BudgetStep DEF RestoreScreen, ClearOverlays
<1>14. ASSUME BeginQuit PROVE GammaTypeOK' /\ BatchOK'
  BY <1>14 DEF BeginQuit
<1>15. ASSUME RestoreNow PROVE GammaTypeOK' /\ BatchOK'
  <2>1. PICK bad \in Failing(touched) :
          /\ RestoreTouched(bad)
          /\ devices' = [i \in Ids |-> IF devices[i] \in bad THEN devices[i] ELSE NoDevice]
          /\ pc' = IF bad = {} THEN "clear" ELSE "rescue"
          /\ trouble' = (trouble \/ bad # {})
    BY <1>15 DEF RestoreNow
  <2>2. ramp' \in [Devices -> Ramp] /\ touched' \subseteq Devices
    BY <2>1 DEF RestoreTouched, WriteIdentity, Failing
  <2>3. devices' \in [Ids -> Devices \cup {NoDevice}] /\ trouble' \in BOOLEAN
    BY <2>1
  <2>4. engaged' \in [Ids -> Factors \cup {Off}]
    BY <1>15, NothingType DEF RestoreNow
  <2> QED
    BY <1>15, <2>1, <2>2, <2>3, <2>4 DEF RestoreNow
<1>16. ASSUME Clear PROVE GammaTypeOK' /\ BatchOK'
  BY <1>16 DEF Clear, ClearMarker
<1>17. ASSUME Rescue PROVE GammaTypeOK' /\ BatchOK'
  BY <1>17 DEF Rescue, ClearOverlays, RestoreAll, WriteIdentity, Failing
<1>18. ASSUME RemoveMarker PROVE GammaTypeOK' /\ BatchOK'
  BY <1>18 DEF RemoveMarker, ClearOverlays
<1>19. ASSUME LoopEnds PROVE GammaTypeOK' /\ BatchOK'
  BY <1>19 DEF LoopEnds
<1>20. ASSUME Drop PROVE GammaTypeOK' /\ BatchOK'
  BY <1>20 DEF Drop, WriteIdentity, Failing
<1>21. ASSUME Panic PROVE GammaTypeOK' /\ BatchOK'
  BY <1>21 DEF Panic
<1>22. ASSUME Kill PROVE GammaTypeOK' /\ BatchOK'
  BY <1>22 DEF Kill, GuardGone
<1>23. ASSUME DisplayEvent PROVE GammaTypeOK' /\ BatchOK'
  BY <1>23, DisplaysMove DEF DisplayEvent
<1>24. ASSUME Enumerate PROVE GammaTypeOK' /\ BatchOK'
  <2>1. DisplaysChanged(Present(device)) \in Notification
    BY DEF DisplaysChanged, Present, Notification
  <2>2. queue' \in Seq(Notification)
    BY <1>24, <2>1, AppendType DEF Enumerate
  <2> QED
    BY <1>24, <2>2 DEF Enumerate
<1>25. CASE UNCHANGED vars
  BY <1>25, BudgetStep DEF vars
<1> QED
  BY <1>1, <1>2, <1>3, <1>4, <1>5, <1>6, <1>7, <1>8, <1>9, <1>10, <1>11, <1>12, <1>13, <1>14, <1>15, <1>16, <1>17, <1>18, <1>19, <1>20, <1>21, <1>22, <1>23, <1>24, <1>25 DEF Next

LEMMA GuardStep ==
  ASSUME IInv, [Next]_vars
  PROVE  GuardOK'
<1> USE GuardAssumption, GammaAssumption DEF IInv, Up, Batching, GuardOK, LitRampIsMarked, Dimmed,
       GammaTypeOK, GuardTypeOK, BatchOK, Ramp, batchVars, coordVars, displayVars, budgetVars, guardVars
<1>1. ASSUME Terminated PROVE GuardOK'
  BY <1>1 DEF Terminated, vars
<1>2. ASSUME Launch PROVE GuardOK'
  BY <1>2 DEF Launch, Fresh, Nothing, NoTarget, Present
<1>3. ASSUME Recover PROVE GuardOK'
  BY <1>3 DEF Recover, RestoreAll, WriteIdentity
<1>4. ASSUME ForgetMarker PROVE GuardOK'
  BY <1>4 DEF ForgetMarker
<1>5. ASSUME NEW i \in Ids, NEW ask \in DimCommand, SetUserLevel(i, ask) PROVE GuardOK'
  BY <1>5 DEF SetUserLevel, ApplyOverlays, Commands, ToEngage, DimCommand
<1>6. ASSUME HandleNotification PROVE GuardOK'
  BY <1>6 DEF HandleNotification, ApplyOverlays, Commands, ToEngage, DimCommand, PlatformWake, Notification
<1>7. ASSUME NEW i \in Ids, Engage(i) PROVE GuardOK'
  <2>1. CASE bounds[i] = NoDevice
    BY <1>7, <2>1 DEF Engage
  <2>2. CASE bounds[i] # NoDevice
    <3>1. pc' = "write" /\ marker' = (marker \/ ~marked) /\ marked' = TRUE
      BY <1>7, <2>2 DEF Engage, MarkIfNeeded
    <3> QED
      BY <1>7, <3>1 DEF Engage
  <2> QED
    BY <2>1, <2>2
<1>8. ASSUME NEW i \in Ids, Restore(i) PROVE GuardOK'
  BY <1>8 DEF Restore, RestoreDisplay, WriteIdentity, Failing
<1>9. ASSUME WriteRamp PROVE GuardOK'
  BY <1>9 DEF WriteRamp, SetGamma, Refused
<1>10. ASSUME EngagePhaseEnds PROVE GuardOK'
  BY <1>10 DEF EngagePhaseEnds
<1>11. ASSUME OverlayDiff PROVE GuardOK'
  BY <1>11 DEF OverlayDiff, ToRestore
<1>12. ASSUME BatchEnds PROVE GuardOK'
  BY <1>12 DEF BatchEnds, Nothing, DimCommand
<1>13. ASSUME RestoreScreen PROVE GuardOK'
  BY <1>13 DEF RestoreScreen, ClearOverlays
<1>14. ASSUME BeginQuit PROVE GuardOK'
  BY <1>14 DEF BeginQuit
<1>15. ASSUME RestoreNow PROVE GuardOK'
  <2>1. PICK bad \in Failing(touched) :
          /\ RestoreTouched(bad)
          /\ pc' = IF bad = {} THEN "clear" ELSE "rescue"
    BY <1>15 DEF RestoreNow
  <2>2. bad \subseteq touched /\ touched' = bad
    BY <2>1 DEF RestoreTouched, Failing
  <2>3. \A d \in Devices : ramp'[d] \in Factors => d \in bad \/ (ramp[d] \in Factors /\ d \notin touched)
    BY <2>1 DEF RestoreTouched, WriteIdentity
  <2> QED
    BY <1>15, <2>1, <2>2, <2>3 DEF RestoreNow
<1>16. ASSUME Clear PROVE GuardOK'
  BY <1>16 DEF Clear, ClearMarker
<1>17. ASSUME Rescue PROVE GuardOK'
  BY <1>17 DEF Rescue, ClearOverlays, RestoreAll, WriteIdentity, Failing
<1>18. ASSUME RemoveMarker PROVE GuardOK'
  BY <1>18 DEF RemoveMarker, ClearOverlays
<1>19. ASSUME LoopEnds PROVE GuardOK'
  BY <1>19 DEF LoopEnds
<1>20. ASSUME Drop PROVE GuardOK'
  <2>1. PICK bad \in Failing(touched) :
          /\ WriteIdentity(touched, bad)
          /\ pc' = IF bad = {} THEN "clear" ELSE "down"
          /\ marked' = (marked /\ bad = {})
    BY <1>20 DEF Drop
  <2>2. bad \subseteq touched /\ touched' = {}
    BY <1>20, <2>1 DEF Drop, Failing
  <2>3. \A d \in Devices : ramp'[d] \in Factors => d \in bad \/ (ramp[d] \in Factors /\ d \notin touched)
    BY <2>1 DEF WriteIdentity
  <2>4. pc = "drop" /\ marker' = marker /\ lost' = lost
    BY <1>20 DEF Drop
  <2> QED
    BY <2>1, <2>2, <2>3, <2>4
<1>21. ASSUME Panic PROVE GuardOK'
  BY <1>21 DEF Panic
<1>22. ASSUME Kill PROVE GuardOK'
  BY <1>22 DEF Kill, GuardGone
<1>23. ASSUME DisplayEvent PROVE GuardOK'
  BY <1>23, DisplaysMove DEF DisplayEvent
<1>24. ASSUME Enumerate PROVE GuardOK'
  BY <1>24 DEF Enumerate, Present
<1>25. CASE UNCHANGED vars
  BY <1>25 DEF vars
<1> QED
  BY <1>1, <1>2, <1>3, <1>4, <1>5, <1>6, <1>7, <1>8, <1>9, <1>10, <1>11, <1>12, <1>13, <1>14, <1>15, <1>16, <1>17, <1>18, <1>19, <1>20, <1>21, <1>22, <1>23, <1>24, <1>25 DEF Next

LEMMA SpareStep ==
  ASSUME IInv, [Next]_vars
  PROVE  SpareOK'
<1> USE GuardAssumption, GammaAssumption DEF IInv, SpareOK, Up, Batching, Dimmed, GuardOK,
       GammaTypeOK, GuardTypeOK, BatchOK, Ramp, batchVars, coordVars, displayVars, budgetVars, guardVars
<1>1. ASSUME Terminated PROVE SpareOK'
  BY <1>1 DEF Terminated, vars
<1>2. ASSUME Launch PROVE SpareOK'
  BY <1>2 DEF Launch, Fresh, Nothing, NoTarget, Present
<1>3. ASSUME Recover PROVE SpareOK'
  BY <1>3 DEF Recover, RestoreAll, WriteIdentity
<1>4. ASSUME ForgetMarker PROVE SpareOK'
  BY <1>4 DEF ForgetMarker
<1>5. ASSUME NEW i \in Ids, NEW ask \in DimCommand, SetUserLevel(i, ask) PROVE SpareOK'
  BY <1>5 DEF SetUserLevel, ApplyOverlays, Commands, ToEngage, DimCommand
<1>6. ASSUME HandleNotification PROVE SpareOK'
  BY <1>6 DEF HandleNotification, ApplyOverlays, Commands, ToEngage, DimCommand, PlatformWake, Notification
<1>7. ASSUME NEW i \in Ids, Engage(i) PROVE SpareOK'
  BY <1>7 DEF Engage, Refused, MarkIfNeeded
<1>8. ASSUME NEW i \in Ids, Restore(i) PROVE SpareOK'
  <2>1. touched' \subseteq touched /\ \A d \in touched' : ramp'[d] = ramp[d] \/ ramp'[d] = Off
    BY <1>8 DEF Restore, RestoreDisplay, WriteIdentity, Failing
  <2>2. (trouble => trouble') /\ job' = job /\ pc' \in {"clear", "restore"}
    BY <1>8 DEF Restore
  <2> QED
    BY <1>8, <2>1, <2>2 DEF Restore, Off, Tint
<1>9. ASSUME WriteRamp PROVE SpareOK'
  BY <1>9 DEF WriteRamp, SetGamma, Refused
<1>10. ASSUME EngagePhaseEnds PROVE SpareOK'
  BY <1>10 DEF EngagePhaseEnds
<1>11. ASSUME OverlayDiff PROVE SpareOK'
  BY <1>11 DEF OverlayDiff, ToRestore
<1>12. ASSUME BatchEnds PROVE SpareOK'
  BY <1>12 DEF BatchEnds, Nothing, DimCommand
<1>13. ASSUME RestoreScreen PROVE SpareOK'
  BY <1>13 DEF RestoreScreen, ClearOverlays
<1>14. ASSUME BeginQuit PROVE SpareOK'
  BY <1>14 DEF BeginQuit
<1>15. ASSUME RestoreNow PROVE SpareOK'
  <2>1. PICK bad \in Failing(touched) :
          /\ RestoreTouched(bad)
          /\ pc' = IF bad = {} THEN "clear" ELSE "rescue"
          /\ trouble' = (trouble \/ bad # {})
    BY <1>15 DEF RestoreNow
  <2>2. touched' \subseteq touched /\ \A d \in touched' : ramp'[d] = ramp[d] \/ ramp'[d] = Off
    BY <2>1 DEF RestoreTouched, WriteIdentity, Failing
  <2> QED
    BY <1>15, <2>1, <2>2 DEF RestoreNow, Off, Tint
<1>16. ASSUME Clear PROVE SpareOK'
  BY <1>16 DEF Clear, ClearMarker
<1>17. ASSUME Rescue PROVE SpareOK'
  <2>1. \A d \in Devices : ramp'[d] = ramp[d] \/ ramp'[d] = Off
    BY <1>17 DEF Rescue, RestoreAll, WriteIdentity
  <2> QED
    BY <1>17, <2>1 DEF Rescue, Off, Tint
<1>18. ASSUME RemoveMarker PROVE SpareOK'
  BY <1>18 DEF RemoveMarker, ClearOverlays
<1>19. ASSUME LoopEnds PROVE SpareOK'
  BY <1>19 DEF LoopEnds
<1>20. ASSUME Drop PROVE SpareOK'
  BY <1>20 DEF Drop, WriteIdentity, Failing
<1>21. ASSUME Panic PROVE SpareOK'
  BY <1>21 DEF Panic
<1>22. ASSUME Kill PROVE SpareOK'
  BY <1>22 DEF Kill, GuardGone
<1>23. ASSUME DisplayEvent PROVE SpareOK'
  BY <1>23, DisplaysMove DEF DisplayEvent, Off, Tint
<1>24. ASSUME Enumerate PROVE SpareOK'
  BY <1>24 DEF Enumerate, Present
<1>25. CASE UNCHANGED vars
  BY <1>25 DEF vars
<1> QED
  BY <1>1, <1>2, <1>3, <1>4, <1>5, <1>6, <1>7, <1>8, <1>9, <1>10, <1>11, <1>12, <1>13, <1>14, <1>15, <1>16, <1>17, <1>18, <1>19, <1>20, <1>21, <1>22, <1>23, <1>24, <1>25 DEF Next

LEMMA InitIInv == Init => IInv
<1> SUFFICES ASSUME Init PROVE IInv
  OBVIOUS
<1>1. ramp \in [Devices -> Ramp] /\ \A d \in Devices : ~Dimmed(d)
  BY GuardAssumption DEF Init, Ramp, Dimmed
<1>2. GuardTypeOK
  BY <1>1, GammaAssumption DEF Init, GuardTypeOK
<1>3. GammaTypeOK
  <2>1. plan = Nothing /\ cmds = Nothing /\ engaged = Nothing
    BY DEF Init
  <2>2. /\ Home \in [Ids -> Devices \cup {NoDevice}]
        /\ [i \in Ids |-> NoDevice] \in [Ids -> Devices \cup {NoDevice}]
        /\ <<>> \in Seq(Notification)
    BY GammaAssumption
  <2> QED
    BY <1>2, <2>1, <2>2, NothingType, GammaAssumption DEF Init, GammaTypeOK
<1>4. BatchOK /\ SpareOK
  BY DEF Init, BatchOK, SpareOK, Batching
<1>5. GuardOK
  BY <1>1 DEF Init, GuardOK, Up, Batching, LitRampIsMarked
<1> QED
  BY <1>3, <1>4, <1>5 DEF IInv

LEMMA Invariance == Spec => []IInv
<1>1. IInv /\ [Next]_vars => IInv'
  BY TypeStep, GuardStep, SpareStep DEF IInv
<1> QED
  BY <1>1, InitIInv, PTL DEF Spec

\* Every variable keeps its type, whatever the drivers, the displays and the
\* user do.
THEOREM GammaTypeCorrect == Spec => []GammaTypeOK
BY Invariance, PTL DEF IInv

\* Wherever the process dies -- between the marker and the ramp, between a
\* restore and the removal of the marker, in a panic, while quitting -- a ramp
\* of ours that is still lit leaves the marker for the next launch, or is one
\* the recovery before could not restore.
THEOREM MarkerSafety == Spec => []LitRampIsMarked
<1>1. IInv => LitRampIsMarked
  BY DEF IInv, GuardOK, LitRampIsMarked, GammaTypeOK, Up, Batching
<1> QED
  BY <1>1, Invariance, PTL

\* A session that met no marker and no failed restore, and was not asked to
\* restore the screen, flattens no ramp another program set.
THEOREM CleanSessionsSpareOthers == Spec => SparesOtherPrograms
<1>1. ASSUME IInv, [Next]_vars, NEW d \in Devices, ramp[d] = Tint, ramp'[d] = Off
      PROVE  trouble'
  <2> USE <1>1, GuardAssumption DEF IInv, SpareOK, Off, Tint
  <2>1. d \notin touched /\ Tint \notin Factors
    OBVIOUS
  <2>2. CASE Recover \/ Rescue
    BY <2>2 DEF Recover, Rescue
  <2>3. ASSUME NEW i \in Ids, Restore(i) PROVE FALSE
    BY <2>1, <2>3 DEF Restore, RestoreDisplay, WriteIdentity
  <2>4. CASE RestoreNow
    BY <2>1, <2>4 DEF RestoreNow, RestoreTouched, WriteIdentity
  <2>5. CASE Drop
    BY <2>1, <2>5 DEF Drop, WriteIdentity
  <2>6. CASE WriteRamp
    <3>1. cmds[target[1]] \in Factors /\ ramp \in [Devices -> Ramp]
      BY <2>6 DEF WriteRamp, BatchOK, GammaTypeOK, GuardTypeOK
    <3> QED
      BY <2>6, <3>1 DEF WriteRamp, SetGamma
  <2>7. CASE DisplayEvent
    BY <2>1, <2>7 DEF DisplayEvent, Dimmed
  <2>8. ASSUME NEW i \in Ids, NEW ask \in DimCommand, SetUserLevel(i, ask) PROVE FALSE
    BY <2>8 DEF SetUserLevel, ApplyOverlays
  <2>9. ASSUME NEW i \in Ids, Engage(i) PROVE FALSE
    BY <2>9 DEF Engage
  <2>10. CASE HandleNotification
    BY <2>10 DEF HandleNotification, ApplyOverlays
  <2>11. CASE \/ Terminated \/ Launch \/ ForgetMarker \/ EngagePhaseEnds \/ OverlayDiff
              \/ BatchEnds \/ RestoreScreen \/ BeginQuit \/ Clear \/ RemoveMarker
              \/ LoopEnds \/ Panic \/ Kill \/ Enumerate \/ UNCHANGED vars
    BY <2>11 DEF Terminated, Launch, ForgetMarker, EngagePhaseEnds, OverlayDiff, BatchEnds,
       RestoreScreen, BeginQuit, Clear, RemoveMarker, LoopEnds, Panic, Kill, Enumerate, vars
  <2> QED
    BY <2>2, <2>3, <2>4, <2>5, <2>6, <2>7, <2>8, <2>9, <2>10, <2>11 DEF Next
<1>2. IInv /\ [Next]_vars => [\A d \in Devices : ramp[d] = Tint /\ ramp'[d] = Off => trouble']_vars
  BY <1>1
<1> QED
  BY <1>2, Invariance, PTL DEF Spec, SparesOtherPrograms

-----------------------------------------------------------------------------
(* The record and the hand-over, on machines that keep their device names:   *)
(* then no two displays ever share a device, and what one is given is never  *)
(* taken for what another carries.                                           *)

AtHome(f) == \A i \in Ids : f[i] \in {Home[i], NoDevice}

\* Every map of device names holds the name a display started with, or none.
HomeOK ==
  /\ AtHome(device) /\ AtHome(bounds) /\ AtHome(devices)
  /\ pc = "write" => target[2] = Home[target[1]]

\* The record of a display is what its device carries.
Live(i) == engaged[i] # Off => devices[i] = Home[i] /\ ramp[Home[i]] = engaged[i]

\* The engage phase has yet to come to the display.
Ahead(i) == i \in todo \/ (pc = "write" /\ i = target[1])

Engaging  == pc \in {"engage", "write", "overlay"}
Restoring == pc = "restore" \/ (pc = "clear" /\ job = "batch")
Forgotten == pc \in {"recovering", "recovered", "rescue", "remove"}
               \/ (pc = "clear" /\ job \in {"screen", "quit"})

\* Between batches every record is live.  A batch after a wake starts with
\* records that may be stale: it rewrites those that ask for a ramp and then
\* restores the others.
LiveOK ==
  /\ pc = "overlay" => todo = {}
  /\ Forgotten => engaged = Nothing
  /\ UpToDate /\ pc \in {"idle", "restoring"} => \A i \in Ids : Live(i)
  /\ UpToDate /\ Engaging =>
       \A i \in Ids : Live(i) \/ (rewrite /\ (cmds[i] \notin Factors \/ Ahead(i)))
  /\ UpToDate /\ Restoring => \A i \in Ids : Live(i) \/ i \in todo

\* What a batch asks for is ahead, put, or known not to be.
MetOK ==
  /\ pc = "restoring" => job # "batch"
  /\ Engaging => \A i \in Ids :
       cmds[i] \in Factors => Ahead(i) \/ i \in unmet \/ engaged[i] = cmds[i]
  /\ Restoring => \A i \in Ids :
       /\ cmds[i] = Overlay => i \in overlays \union unmet
       /\ i \in todo => cmds[i] \notin Factors

HandOverInv == HomeOK /\ LiveOK /\ MetOK

\* A wake that is queued is known until it is handled.
LEMMA WakeIsNew ==
  ASSUME NEW q \in Seq(Notification), NEW n \in Notification
  PROVE  /\ \A k \in DOMAIN q : Append(q, n)[k] = q[k] /\ k \in DOMAIN Append(q, n)
         /\ Len(q) + 1 \in DOMAIN Append(q, n) /\ Append(q, n)[Len(q) + 1] = n
OBVIOUS

LEMMA WakeIsHandled ==
  ASSUME NEW q \in Seq(Notification), q # <<>>, Head(q) # PlatformWake,
         \A k \in DOMAIN Tail(q) : Tail(q)[k] # PlatformWake
  PROVE  \A k \in DOMAIN q : q[k] # PlatformWake
<1> SUFFICES ASSUME NEW k \in DOMAIN q, q[k] = PlatformWake PROVE FALSE
  OBVIOUS
<1>1. CASE k = 1
  BY <1>1
<1>2. CASE k # 1
  <2>1. k - 1 \in DOMAIN Tail(q) /\ Tail(q)[k - 1] = q[k]
    BY <1>2
  <2> QED
    BY <2>1
<1> QED
  BY <1>1, <1>2

\* Only a display event brings news the application does not have, and only
\* the wake it handles takes news away.
LEMMA NewsStep ==
  ASSUME GammaTypeOK
  PROVE  /\ DisplayEvent /\ pc \in Up => ~UpToDate'
         /\ Enumerate /\ UpToDate' => UpToDate
         /\ HandleNotification /\ Head(queue) # PlatformWake /\ UpToDate' => UpToDate
<1>1. queue \in Seq(Notification) /\ PlatformWake \in Notification
  BY DEF GammaTypeOK, PlatformWake, Notification
<1>2. ASSUME DisplayEvent, pc \in Up PROVE ~UpToDate'
  <2>1. queue' = Append(queue, PlatformWake)
    BY <1>2 DEF DisplayEvent
  <2> QED
    BY <1>1, <2>1, WakeIsNew DEF UpToDate
<1>3. ASSUME Enumerate, UpToDate' PROVE UpToDate
  <2>1. DisplaysChanged(Present(device)) \in Notification
    BY DEF DisplaysChanged, Present, Notification
  <2>2. queue' = queue \/ queue' = Append(queue, DisplaysChanged(Present(device)))
    BY <1>3 DEF Enumerate
  <2> QED
    BY <1>1, <1>3, <2>1, <2>2, WakeIsNew DEF UpToDate
<1>4. ASSUME HandleNotification, Head(queue) # PlatformWake, UpToDate' PROVE UpToDate
  <2>1. queue # <<>> /\ queue' = Tail(queue)
    BY <1>4 DEF HandleNotification
  <2> QED
    BY <1>1, <1>4, <2>1, WakeIsHandled DEF UpToDate
<1> QED
  BY <1>2, <1>3, <1>4

\* The steps of the process itself leave the queue alone.
LEMMA QueueKept ==
  ASSUME \/ Recover \/ ForgetMarker \/ WriteRamp \/ EngagePhaseEnds \/ OverlayDiff
         \/ BatchEnds \/ RestoreScreen \/ BeginQuit \/ RestoreNow \/ Clear \/ Rescue
         \/ RemoveMarker \/ LoopEnds \/ Drop \/ Panic \/ Kill
         \/ \E i \in Ids : Engage(i) \/ Restore(i) \/ \E ask \in DimCommand : SetUserLevel(i, ask)
  PROVE  UpToDate' <=> UpToDate
BY DEF Recover, ForgetMarker, WriteRamp, EngagePhaseEnds, OverlayDiff, BatchEnds, RestoreScreen,
   BeginQuit, RestoreNow, Clear, Rescue, RemoveMarker, LoopEnds, Drop, Panic, Kill, Engage,
   Restore, SetUserLevel, displayVars, UpToDate

LEMMA HomeStep ==
  ASSUME "renumber" \notin Faults, IInv, HomeOK, [Next]_vars
  PROVE  HomeOK'
<1> USE DEF HomeOK, AtHome
<1>1. ASSUME Launch PROVE HomeOK'
  BY <1>1 DEF Launch, Fresh
<1>2. ASSUME NEW i \in Ids, NEW ask \in DimCommand, SetUserLevel(i, ask) PROVE HomeOK'
  BY <1>2 DEF SetUserLevel, ApplyOverlays, coordVars
<1>3. ASSUME HandleNotification PROVE HomeOK'
  BY <1>3 DEF HandleNotification, ApplyOverlays, coordVars
<1>4. ASSUME NEW i \in Ids, Engage(i) PROVE HomeOK'
  <2>1. CASE bounds[i] = NoDevice
    BY <1>4, <2>1 DEF Engage, Refused, displayVars
  <2>2. CASE bounds[i] # NoDevice
    <3>1. target' = <<i, Home[i]>> /\ UNCHANGED <<device, bounds, devices>>
      BY <1>4, <2>2 DEF Engage, displayVars, coordVars
    <3> QED
      BY <3>1
  <2> QED
    BY <2>1, <2>2
<1>5. ASSUME NEW i \in Ids, Restore(i) PROVE HomeOK'
  <2>1. UNCHANGED <<device, bounds>> /\ pc' # "write" /\ devices' = [devices EXCEPT ![i] = NoDevice]
    BY <1>5 DEF Restore, displayVars
  <2>2. devices \in [Ids -> Devices \cup {NoDevice}]
    BY DEF IInv, GammaTypeOK
  <2> QED
    BY <2>1, <2>2
<1>6. ASSUME WriteRamp PROVE HomeOK'
  <2>1. UNCHANGED <<device, bounds>> /\ pc' # "write"
    BY <1>6 DEF WriteRamp, displayVars
  <2>2. devices' = devices \/ devices' = [devices EXCEPT ![target[1]] = Home[target[1]]]
    BY <1>6 DEF WriteRamp, Refused
  <2>3. devices \in [Ids -> Devices \cup {NoDevice}]
    BY DEF IInv, GammaTypeOK
  <2> QED
    BY <2>1, <2>2, <2>3
<1>7. ASSUME RestoreNow PROVE HomeOK'
  <2>1. UNCHANGED <<device, bounds>> /\ pc' # "write"
    BY <1>7 DEF RestoreNow, displayVars
  <2>2. PICK bad : devices' = [i \in Ids |-> IF devices[i] \in bad THEN devices[i] ELSE NoDevice]
    BY <1>7 DEF RestoreNow
  <2> QED
    BY <2>1, <2>2
<1>8. ASSUME DisplayEvent PROVE HomeOK'
  <2>1. AtHome(device')
    BY <1>8 DEF DisplayEvent, Placements
  <2>2. UNCHANGED <<pc, bounds, devices, target>>
    BY <1>8 DEF DisplayEvent, coordVars, batchVars
  <2> QED
    BY <2>1, <2>2
<1>9. ASSUME Enumerate PROVE HomeOK'
  BY <1>9 DEF Enumerate, coordVars, batchVars
<1>10. ASSUME \/ Terminated \/ Recover \/ ForgetMarker \/ EngagePhaseEnds \/ OverlayDiff
              \/ BatchEnds \/ RestoreScreen \/ BeginQuit \/ Clear \/ Rescue \/ RemoveMarker
              \/ LoopEnds \/ Drop \/ Panic \/ Kill \/ UNCHANGED vars
      PROVE  HomeOK'
  <2>1. UNCHANGED <<device, bounds, devices>>
    BY <1>10 DEF Terminated, Recover, ForgetMarker, EngagePhaseEnds, OverlayDiff, BatchEnds,
       RestoreScreen, BeginQuit, Clear, Rescue, RemoveMarker, LoopEnds, Drop, Panic, Kill,
       vars, displayVars, coordVars
  <2>2. CASE Clear
    <3>1. pc' # "write"
      BY <2>2 DEF Clear, IInv, GammaTypeOK
    <3> QED
      BY <2>1, <3>1
  <2>3. CASE Terminated \/ UNCHANGED vars
    BY <2>1, <2>3 DEF Terminated, vars
  <2>4. CASE ~Clear /\ ~Terminated /\ ~UNCHANGED vars
    <3>1. pc' # "write"
      BY <1>10, <2>4 DEF Recover, ForgetMarker, EngagePhaseEnds, OverlayDiff, BatchEnds,
         RestoreScreen, BeginQuit, Rescue, RemoveMarker, LoopEnds, Drop, Panic, Kill
    <3> QED
      BY <2>1, <3>1
  <2> QED
    BY <2>2, <2>3, <2>4
<1> QED
  BY <1>1, <1>2, <1>3, <1>4, <1>5, <1>6, <1>7, <1>8, <1>9, <1>10 DEF Next

\* No two displays share a device.
LEMMA OwnDevice ==
  ASSUME HomeOK, NEW i \in Ids, NEW j \in Ids, i # j, devices[i] # NoDevice
  PROVE  devices[i] = Home[i] /\ Home[i] # Home[j] /\ devices[j] # devices[i]
BY GammaAssumption DEF HomeOK, AtHome

LEMMA LiveStep ==
  ASSUME "renumber" \notin Faults, IInv, HomeOK, LiveOK, [Next]_vars
  PROVE  LiveOK'
<1> USE DEF LiveOK, Live, Ahead, Engaging, Restoring, Forgotten
<1>0. /\ engaged \in [Ids -> Factors \cup {Off}] /\ devices \in [Ids -> Devices \cup {NoDevice}]
      /\ ramp \in [Devices -> Ramp] /\ todo \subseteq Ids /\ Home \in [Ids -> Devices]
      /\ job \in {"batch", "screen", "quit", "drop"}
      /\ \A i \in Ids : Nothing[i] = Off
  BY GammaAssumption DEF IInv, GammaTypeOK, GuardTypeOK, Nothing
<1>1. ASSUME Terminated \/ UNCHANGED vars PROVE LiveOK'
  BY <1>1 DEF Terminated, vars, UpToDate
<1>2. ASSUME Launch PROVE LiveOK'
  BY <1>0, <1>2 DEF Launch, Fresh
<1>3. ASSUME Recover \/ ForgetMarker PROVE LiveOK'
  BY <1>0, <1>3, QueueKept DEF Recover, ForgetMarker, coordVars, batchVars
<1>4. ASSUME NEW i \in Ids, NEW ask \in DimCommand, SetUserLevel(i, ask) PROVE LiveOK'
  BY <1>0, <1>4, QueueKept DEF SetUserLevel, ApplyOverlays, coordVars
<1>5. ASSUME HandleNotification PROVE LiveOK'
  <2>1. /\ pc = "idle" /\ pc' = "engage" /\ todo' = ToEngage(cmds', rewrite')
        /\ rewrite' = (Head(queue) = PlatformWake)
        /\ UNCHANGED <<ramp, engaged, devices>>
    BY <1>5 DEF HandleNotification, ApplyOverlays, coordVars
  <2>2. CASE Head(queue) = PlatformWake
    BY <1>0, <2>1, <2>2 DEF ToEngage
  <2>3. CASE Head(queue) # PlatformWake
    <3>1. UpToDate' => UpToDate
      BY <1>5, <2>3, NewsStep DEF IInv
    <3> QED
      BY <2>1, <3>1
  <2> QED
    BY <2>2, <2>3
<1>6. ASSUME NEW i \in Ids, Engage(i) PROVE LiveOK'
  <2>1. /\ pc = "engage" /\ todo' = todo \ {i} /\ (UpToDate' <=> UpToDate)
        /\ UNCHANGED <<ramp, cmds, rewrite, job>>
    BY <1>6, QueueKept DEF Engage
  <2>2. CASE bounds[i] = NoDevice
    <3>1. pc' = "engage" /\ Refused(i)
      BY <1>6, <2>1, <2>2 DEF Engage
    <3>2. devices' = devices /\ engaged' = IF rewrite THEN [engaged EXCEPT ![i] = Off] ELSE engaged
      BY <3>1 DEF Refused
    <3> QED
      BY <1>0, <2>1, <3>1, <3>2
  <2>3. CASE bounds[i] # NoDevice
    <3>1. pc' = "write" /\ target'[1] = i /\ UNCHANGED coordVars
      BY <1>6, <2>3 DEF Engage
    <3> QED
      BY <1>0, <2>1, <3>1 DEF coordVars
  <2> QED
    BY <2>2, <2>3
<1>7. ASSUME WriteRamp PROVE LiveOK'
  <2> DEFINE i == target[1]
             d == target[2]
  <2>1. /\ pc = "write" /\ pc' = "engage" /\ i \in Ids /\ d = Home[i] /\ (UpToDate' <=> UpToDate)
        /\ UNCHANGED <<cmds, rewrite, todo, job>> /\ cmds[i] \in Factors
    BY <1>7, QueueKept DEF WriteRamp, IInv, BatchOK, HomeOK
  <2>2. CASE SetGamma(d, cmds[i]) /\ engaged' = [engaged EXCEPT ![i] = cmds[i]]
             /\ devices' = [devices EXCEPT ![i] = d]
    <3>1. ramp' = [ramp EXCEPT ![d] = cmds[i]]
      BY <2>2 DEF SetGamma
    <3>2. engaged'[i] = cmds[i] /\ devices'[i] = Home[i] /\ ramp'[Home[i]] = cmds[i]
      BY <1>0, <2>1, <2>2, <3>1
    <3>3. \A j \in Ids \ {i} : /\ engaged'[j] = engaged[j] /\ devices'[j] = devices[j]
                               /\ ramp'[Home[j]] = ramp[Home[j]]
      BY <1>0, <2>1, <2>2, <3>1, GammaAssumption
    <3> QED
      BY <2>1, <3>2, <3>3
  <2>3. CASE Refused(i) /\ ramp' = ramp
    <3>1. devices' = devices /\ engaged' = IF rewrite THEN [engaged EXCEPT ![i] = Off] ELSE engaged
      BY <2>3 DEF Refused
    <3> QED
      BY <1>0, <2>1, <2>3, <3>1
  <2> QED
    BY <1>7, <2>2, <2>3 DEF WriteRamp
<1>8. ASSUME EngagePhaseEnds PROVE LiveOK'
  BY <1>0, <1>8, QueueKept DEF EngagePhaseEnds, coordVars, batchVars
<1>9. ASSUME OverlayDiff PROVE LiveOK'
  BY <1>0, <1>9, QueueKept DEF OverlayDiff, coordVars, ToRestore
<1>10. ASSUME NEW i \in Ids, Restore(i) PROVE LiveOK'
  <2>1. /\ pc = "restore" /\ pc' \in {"clear", "restore"} /\ job = "batch" /\ job' = job
        /\ i \in todo /\ todo' = todo \ {i} /\ (UpToDate' <=> UpToDate)
        /\ engaged' = [engaged EXCEPT ![i] = Off] /\ devices' = [devices EXCEPT ![i] = NoDevice]
    BY <1>10, QueueKept DEF Restore, IInv, SpareOK, Batching
  <2>2. \A j \in Ids \ {i} : Live(j) => Live(j)'
    <3> SUFFICES ASSUME NEW j \in Ids \ {i}, Live(j), engaged'[j] # Off
                 PROVE  devices'[j] = Home[j] /\ ramp'[Home[j]] = engaged'[j]
      OBVIOUS
    <3>1. engaged'[j] = engaged[j] /\ devices'[j] = devices[j] /\ devices[j] = Home[j]
      BY <1>0, <2>1
    <3>2. devices[j] # devices[i]
      BY <1>0, <3>1, OwnDevice, GammaAssumption
    <3>3. ramp'[Home[j]] = ramp[Home[j]]
      BY <1>0, <1>10, <3>1, <3>2 DEF Restore, RestoreDisplay, WriteIdentity
    <3> QED
      BY <3>1, <3>3
  <2> QED
    BY <1>0, <2>1, <2>2
<1>11. ASSUME BatchEnds PROVE LiveOK'
  BY <1>0, <1>11, QueueKept DEF BatchEnds, coordVars
<1>12. ASSUME RestoreScreen \/ BeginQuit PROVE LiveOK'
  BY <1>0, <1>12, QueueKept DEF RestoreScreen, BeginQuit, coordVars
<1>13. ASSUME RestoreNow PROVE LiveOK'
  BY <1>0, <1>13, QueueKept DEF RestoreNow
<1>14. ASSUME Clear PROVE LiveOK'
  BY <1>0, <1>14, QueueKept DEF Clear, coordVars, batchVars
<1>15. ASSUME Rescue \/ RemoveMarker PROVE LiveOK'
  BY <1>0, <1>15, QueueKept DEF Rescue, RemoveMarker, coordVars, batchVars
<1>16. ASSUME LoopEnds \/ Drop \/ Panic \/ Kill PROVE LiveOK'
  BY <1>0, <1>16, QueueKept DEF LoopEnds, Drop, Panic, Kill, coordVars, batchVars
<1>17. ASSUME DisplayEvent PROVE LiveOK'
  <2>1. UNCHANGED <<pc, job, todo, engaged>>
    BY <1>17 DEF DisplayEvent, batchVars, coordVars
  <2>2. pc \in Up => ~UpToDate'
    BY <1>17, NewsStep DEF IInv
  <2> QED
    BY <2>1, <2>2 DEF Up, Batching
<1>18. ASSUME Enumerate PROVE LiveOK'
  <2>1. /\ UNCHANGED <<pc, job, todo, engaged, devices, ramp, cmds, rewrite, target>>
        /\ UpToDate' => UpToDate
    BY <1>18, NewsStep DEF Enumerate, batchVars, coordVars, IInv
  <2> QED
    BY <2>1
<1> QED
  BY <1>1, <1>2, <1>3, <1>4, <1>5, <1>6, <1>7, <1>8, <1>9, <1>10, <1>11, <1>12, <1>13, <1>14,
     <1>15, <1>16, <1>17, <1>18 DEF Next

LEMMA MetStep ==
  ASSUME IInv, MetOK, [Next]_vars
  PROVE  MetOK'
<1> USE DEF MetOK, Ahead, Engaging, Restoring
<1>0. /\ engaged \in [Ids -> Factors \cup {Off}] /\ todo \subseteq Ids
      /\ job \in {"batch", "screen", "quit", "drop"} /\ cmds \in [Ids -> DimCommand]
  BY DEF IInv, GammaTypeOK
<1>1. ASSUME NEW i \in Ids, NEW ask \in DimCommand, SetUserLevel(i, ask) PROVE MetOK'
  BY <1>1 DEF SetUserLevel, ApplyOverlays, ToEngage, coordVars
<1>2. ASSUME HandleNotification PROVE MetOK'
  BY <1>2 DEF HandleNotification, ApplyOverlays, ToEngage, coordVars
<1>3. ASSUME NEW i \in Ids, Engage(i) PROVE MetOK'
  <2>1. pc = "engage" /\ todo' = todo \ {i} /\ UNCHANGED <<cmds, job>>
    BY <1>3 DEF Engage
  <2>2. CASE bounds[i] = NoDevice
    <3>1. pc' = "engage" /\ Refused(i)
      BY <1>3, <2>1, <2>2 DEF Engage
    <3> QED
      BY <1>0, <2>1, <3>1 DEF Refused
  <2>3. CASE bounds[i] # NoDevice
    <3>1. pc' = "write" /\ target'[1] = i /\ UNCHANGED <<engaged, unmet>>
      BY <1>3, <2>3 DEF Engage, coordVars
    <3> QED
      BY <2>1, <3>1
  <2> QED
    BY <2>2, <2>3
<1>4. ASSUME WriteRamp PROVE MetOK'
  <2> DEFINE i == target[1]
  <2>1. pc = "write" /\ pc' = "engage" /\ i \in Ids /\ UNCHANGED <<cmds, todo, job>>
    BY <1>4 DEF WriteRamp, IInv, BatchOK
  <2>2. CASE engaged' = [engaged EXCEPT ![i] = cmds[i]] /\ unmet' = unmet
    BY <1>0, <2>1, <2>2
  <2>3. CASE Refused(i)
    BY <1>0, <2>1, <2>3 DEF Refused
  <2> QED
    BY <1>4, <2>2, <2>3 DEF WriteRamp
<1>5. ASSUME EngagePhaseEnds PROVE MetOK'
  BY <1>5 DEF EngagePhaseEnds, batchVars, coordVars
<1>6. ASSUME OverlayDiff PROVE MetOK'
  BY <1>6 DEF OverlayDiff, ToRestore
<1>7. ASSUME NEW i \in Ids, Restore(i) PROVE MetOK'
  BY <1>7 DEF Restore, IInv, SpareOK, Batching
<1>8. ASSUME Clear PROVE MetOK'
  BY <1>0, <1>8 DEF Clear, batchVars
<1>9. ASSUME DisplayEvent \/ Enumerate PROVE MetOK'
  BY <1>9 DEF DisplayEvent, Enumerate, batchVars, coordVars
<1>10. ASSUME Terminated \/ UNCHANGED vars PROVE MetOK'
  BY <1>10 DEF Terminated, vars
<1>11. ASSUME \/ Launch \/ Recover \/ ForgetMarker \/ BatchEnds \/ RestoreScreen \/ BeginQuit
              \/ RestoreNow \/ Rescue \/ RemoveMarker \/ LoopEnds \/ Drop \/ Panic \/ Kill
       PROVE  MetOK'
  BY <1>11 DEF Launch, Recover, ForgetMarker, BatchEnds, RestoreScreen, BeginQuit, RestoreNow,
     Rescue, RemoveMarker, LoopEnds, Drop, Panic, Kill
<1> QED
  BY <1>1, <1>2, <1>3, <1>4, <1>5, <1>6, <1>7, <1>8, <1>9, <1>10, <1>11 DEF Next

LEMMA HandOverInit == Init => HandOverInv
<1> SUFFICES ASSUME Init PROVE HandOverInv
  OBVIOUS
<1>1. HomeOK
  BY DEF Init, HomeOK, AtHome
<1>2. LiveOK /\ MetOK
  BY DEF Init, LiveOK, MetOK, Forgotten, Engaging, Restoring
<1> QED
  BY <1>1, <1>2 DEF HandOverInv

LEMMA HandOverInvariance ==
  ASSUME "renumber" \notin Faults
  PROVE  Spec => [](IInv /\ HandOverInv)
<1>1. IInv /\ HandOverInv /\ [Next]_vars => HandOverInv'
  BY HomeStep, LiveStep, MetStep DEF HandOverInv
<1> QED
  BY <1>1, HandOverInit, Invariance, PTL DEF Spec

\* On machines that keep their device names the coordinator's record is what
\* the screen carries whenever the application has handled every display
\* event, whichever ramps were dropped and whichever rewrites were refused.
THEOREM RecordsAreLive ==
  ASSUME "renumber" \notin Faults
  PROVE  Spec => []RecordIsLive
<1>1. IInv /\ HandOverInv => RecordIsLive
  <2> SUFFICES ASSUME HandOverInv, pc = "idle", UpToDate, NEW i \in Ids, engaged[i] # Off
               PROVE  devices[i] # NoDevice /\ ramp[devices[i]] = engaged[i]
    BY DEF RecordIsLive
  <2>1. devices[i] = Home[i] /\ ramp[Home[i]] = engaged[i]
    BY DEF HandOverInv, LiveOK, Live
  <2> QED
    BY <2>1, GammaAssumption
<1> QED
  BY <1>1, HandOverInvariance, PTL

\* A batch never brightens a display on the way from a ramp to an overlay or
\* back, unless the new dim could not be put or the system dropped a ramp: also
\* when overlays fail, ramps are refused and the displays change meanwhile.
THEOREM HandOversStayDim ==
  ASSUME "renumber" \notin Faults
  PROVE  Spec => DimmedThroughout
<1>1. ASSUME IInv, HandOverInv, [Next]_vars, NEW i \in Ids, pc \in Batching, pc' # "down",
             UpToDate', Shown(i), cmds[i] # Off
      PROVE  Shown(i)' \/ i \in unmet'
  <2> USE DEF Shown, Dimmed
  <2>0. /\ ramp \in [Devices -> Ramp] /\ devices \in [Ids -> Devices \cup {NoDevice}]
        /\ cmds[i] \in DimCommand /\ Overlay \notin Factors
    BY <1>1, GuardAssumption DEF IInv, GammaTypeOK, GuardTypeOK, Overlay
  <2>1. CASE OverlayDiff
    <3>1. CASE cmds[i] = Overlay
      BY <1>1, <2>1, <3>1 DEF OverlayDiff
    <3>2. CASE cmds[i] \in Factors
      <4>1. Live(i) /\ (i \in unmet \/ engaged[i] = cmds[i])
        BY <1>1, <2>1, <3>2 DEF OverlayDiff, HandOverInv, LiveOK, MetOK, Engaging, Ahead,
                                displayVars, UpToDate
      <4>2. i \in unmet' \/ (devices'[i] = Home[i] /\ ramp'[Home[i]] \in Factors)
        BY <2>1, <3>2, <4>1, GuardAssumption DEF OverlayDiff, Live, coordVars
      <4> QED
        BY <4>2, GammaAssumption
    <3> QED
      BY <1>1, <2>0, <3>1, <3>2 DEF DimCommand
  <2>2. ASSUME NEW j \in Ids, Restore(j) PROVE Shown(i)' \/ i \in unmet'
    <3>1. pc = "restore" /\ j \in todo /\ UNCHANGED <<overlays, unmet>>
          /\ devices' = [devices EXCEPT ![j] = NoDevice]
      BY <2>2 DEF Restore
    <3>2. CASE i = j
      <4>1. cmds[i] = Overlay
        BY <1>1, <2>0, <3>1, <3>2 DEF HandOverInv, MetOK, Restoring, DimCommand
      <4> QED
        BY <1>1, <3>1, <4>1 DEF HandOverInv, MetOK, Restoring
    <3>3. CASE i # j /\ devices[i] # NoDevice
      <4>1. devices'[i] = devices[i] /\ devices[j] # devices[i]
        BY <1>1, <2>0, <3>1, <3>3, OwnDevice DEF HandOverInv
      <4>2. ramp'[devices[i]] = ramp[devices[i]]
        BY <2>0, <2>2, <3>3, <4>1 DEF Restore, RestoreDisplay, WriteIdentity
      <4> QED
        BY <1>1, <3>1, <4>1, <4>2
    <3>4. CASE devices[i] = NoDevice
      BY <1>1, <3>1, <3>4
    <3> QED
      BY <3>2, <3>3, <3>4
  <2>3. CASE WriteRamp
    <3> DEFINE k == target[1]
               d == target[2]
    <3>1. k \in Ids /\ d \in Devices /\ cmds[k] \in Factors /\ UNCHANGED overlays
      BY <1>1, <2>3 DEF WriteRamp, IInv, BatchOK
    <3>2. CASE SetGamma(d, cmds[k]) /\ devices' = [devices EXCEPT ![k] = d]
      <4>1. \A e \in Devices : ramp[e] \in Factors \/ e = d => ramp'[e] \in Factors
        BY <2>0, <3>1, <3>2 DEF SetGamma
      <4> QED
        BY <1>1, <2>0, <3>1, <3>2, <4>1, GammaAssumption
    <3>3. CASE Refused(k) /\ ramp' = ramp
      BY <1>1, <3>1, <3>3 DEF Refused
    <3> QED
      BY <2>3, <3>2, <3>3 DEF WriteRamp
  <2>4. CASE DisplayEvent
    BY <1>1, <2>4, NewsStep DEF IInv, Up
  <2>5. ASSUME NEW j \in Ids, Engage(j) PROVE Shown(i)'
    BY <1>1, <2>5 DEF Engage, Refused, coordVars
  <2>6. CASE EngagePhaseEnds \/ BatchEnds \/ Panic \/ Enumerate \/ UNCHANGED vars
    BY <1>1, <2>6 DEF EngagePhaseEnds, BatchEnds, Panic, Enumerate, coordVars, vars
  <2>7. ~ \/ Terminated \/ Launch \/ Recover \/ ForgetMarker \/ RestoreScreen \/ BeginQuit
          \/ RestoreNow \/ Clear \/ Rescue \/ RemoveMarker \/ LoopEnds \/ Drop \/ Kill
          \/ HandleNotification \/ \E j \in Ids, ask \in DimCommand : SetUserLevel(j, ask)
    BY <1>1 DEF Batching, Terminated, Launch, Recover, ForgetMarker, RestoreScreen, BeginQuit,
       RestoreNow, Clear, Rescue, RemoveMarker, LoopEnds, Drop, Kill, HandleNotification,
       SetUserLevel
  <2> QED
    BY <1>1, <2>1, <2>2, <2>3, <2>4, <2>5, <2>6, <2>7 DEF Next
<1>2. IInv /\ HandOverInv /\ [Next]_vars =>
        [\A i \in Ids :
           /\ pc \in Batching /\ pc' # "down" /\ UpToDate'
           /\ Shown(i) /\ cmds[i] # Off
           => Shown(i)' \/ i \in unmet']_vars
  BY <1>1
<1> QED
  BY <1>2, HandOverInvariance, PTL DEF Spec, DimmedThroughout

=============================================================================
