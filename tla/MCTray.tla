------------------------------- MODULE MCTray -------------------------------
(***************************************************************************)
(* Instances of TrayState for TLC: two twins, and a definition that gives  *)
(* further monitors another kind.  The continuum is checked on its own.    *)
(***************************************************************************)
EXTENDS TrayState, TLC

CONSTANTS X, Y

\* No definition tells two surfaces apart.
SurfaceSymmetry == Permutations(Surfaces)

TwinsAndAnother == [p \in Panels |-> IF p < 3 THEN 1 ELSE 0]
SecondTwin == {<<1, 2>>}

\* What the continuum promises, over the scales and floors users can choose:
\* moving the slider up never darkens, a panel never reads below its floor,
\* and a position above the transition comes back from the reading it causes,
\* but for one percent of rounding.
Configs == {Hardware(floor, min) : floor \in {0, 20, 50, 100}, min \in {0, 25, 60, 95}}

ContinuumIsMonotone ==
  \A cfg \in Configs \union {SoftwareOnly} : \A p \in 0 .. 99 :
    /\ HardwarePct(p, cfg) =< HardwarePct(p + 1, cfg)
    /\ OverlayAlpha(p, cfg) >= OverlayAlpha(p + 1, cfg)

ContinuumKeepsFloor ==
  \A cfg \in Configs : \A p \in Percent :
    /\ HardwarePct(p, cfg) \in cfg.floor .. 100
    /\ OverlayAlpha(p, cfg) > 0 => HardwarePct(p, cfg) = cfg.floor

PositionComesBack ==
  \A cfg \in Configs : \A p \in Percent :
    100 * p >= Transition(cfg) => ReverseMap(HardwarePct(p, cfg), cfg) \in p - 1 .. p + 1

ASSUME ContinuumAssumption == ContinuumIsMonotone /\ ContinuumKeepsFloor /\ PositionComesBack

\* What an enumeration says has the types the handlers rely on.
ASSUME TablesAssumption ==
  /\ IdsOf \in [Enumerations -> SUBSET Ids]
  /\ SurfaceFor \in [Enumerations -> [Ids -> Surfaces \union {NoSurface}]]

=============================================================================
