---------------------------- MODULE ScreenGuard ----------------------------
(***************************************************************************)
(* The piece of screen state that outlives the process: GPU gamma ramps,   *)
(* the guard that remembers which of them this process dimmed, and the     *)
(* crash marker (crates/duja-dimmer/src/win/gamma.rs, marker.rs), as on    *)
(* Windows.  The operators are the guard's calls on the screen; each is    *)
(* one call of the operating system, so that a process can die between any *)
(* two of them.  The marker file itself is assumed writable.               *)
(***************************************************************************)
EXTENDS FiniteSets

CONSTANTS
  Devices,   \* the GDI device names a ramp is addressed by
  Factors,   \* dimming factors
  Faults     \* what the drivers and the environment may do

FaultKinds ==
  {"refuse",     \* a dimming ramp may be refused
   "restore",    \* an identity ramp may be refused
   "reset",      \* a display event may drop ramps
   "renumber",   \* a display event may give displays other device names
   "overlay",    \* the overlay backend may fail
   "kill",       \* the process may be killed
   "panic"}      \* the process may unwind

Off  == "off"    \* the identity ramp
Tint == "tint"   \* the ramp of another program (a colour temperature, a profile)

ASSUME GuardAssumption ==
  /\ Faults \subseteq FaultKinds
  /\ Off \notin Factors /\ Tint \notin Factors /\ "overlay" \notin Factors

VARIABLES
  ramp,      \* the ramp of each device
  attached,  \* devices attached to the desktop
  marker,    \* the marker file exists
  marked,    \* ScreenStateGuard: it wrote the marker
  touched,   \* ScreenStateGuard: devices dimmed and not yet restored
  lost       \* history: devices left dimmed by the last recovery that ran

guardVars == <<marked, touched>>

Ramp == Factors \cup {Off, Tint}

\* The device carries a ramp of ours.
Dimmed(d) == ramp[d] \in Factors

GuardTypeOK ==
  /\ ramp \in [Devices -> Ramp]
  /\ attached \subseteq Devices /\ touched \subseteq Devices /\ lost \subseteq Devices
  /\ marker \in BOOLEAN /\ marked \in BOOLEAN

\* The sets of failures a pass over the devices of S may meet: a device that is
\* not attached cannot be written, another may refuse.
Failing(S) ==
  {bad \in SUBSET S : S \ attached \subseteq bad
                      /\ ("restore" \notin Faults => bad \cap attached = {})}

\* Identity ramps are written to the devices of S, except those in bad.
WriteIdentity(S, bad) ==
  ramp' = [d \in Devices |-> IF d \in S \ bad THEN Off ELSE ramp[d]]

\* engage_gamma: the marker is written before the first ramp ...
MarkIfNeeded ==
  /\ marker' = (marker \/ ~marked)
  /\ marked' = TRUE

\* ... and a device is recorded only when its ramp was accepted.
SetGamma(d, factor) ==
  /\ d \in attached
  /\ ramp' = [ramp EXCEPT ![d] = factor]
  /\ touched' = touched \cup {d}
  /\ lost' = lost \ {d}

RefusesGamma(d) == "refuse" \in Faults \/ d \notin attached

\* restore_display, its ramp: a refused one stays touched.
RestoreDisplay(d) ==
  \E bad \in Failing({d} \cap touched) :
    /\ WriteIdentity({d} \cap touched, bad)
    /\ touched' = (touched \ {d}) \cup bad

\* restore_now and Drop, their ramps: what failed stays touched.
RestoreTouched(bad) ==
  /\ bad \in Failing(touched)
  /\ WriteIdentity(touched, bad)
  /\ touched' = bad

\* clear_marker_now.
ClearMarker == marker' = FALSE /\ marked' = FALSE

\* The global restore_all: the identity ramp on every attached device.
RestoreAll ==
  \E bad \in Failing(attached) : WriteIdentity(attached, bad)

\* The process is gone, and its guard with it.
GuardGone == marked' = FALSE /\ touched' = {}

=============================================================================
