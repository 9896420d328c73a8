----------------------------- MODULE Continuum -----------------------------
(***************************************************************************)
(* The perceptual continuum of crates/duja-core/src/continuum.rs: what a   *)
(* slider position asks of the hardware and of the overlay, and where a    *)
(* hardware reading puts the slider.  Percentages are integers; the        *)
(* program's divisions in single precision round to the same integers.     *)
(***************************************************************************)
EXTENDS Integers

MaxAlpha == 8800           \* MAX_ALPHA, in ten-thousandths
NoHardware == -1           \* hardware_pct: None

\* One display's ContinuumConfig under DimMode::Overlay.
Hardware(floor, min) == [software |-> FALSE, floor |-> floor, min |-> min]
SoftwareOnly == [software |-> TRUE, floor |-> 0, min |-> 0]

Least(a, b) == IF a < b THEN a ELSE b
Most(a, b)  == IF a > b THEN a ELSE b

\* round_clamp of n / d: half away from zero.
RoundClamp(n, d, lo, hi) == Least(hi, Most(lo, (2 * n + d) \div (2 * d)))

\* pos, in hundredths: the slider position at which the panel shows h.
Pos(h, m) == 100 * m + (100 - m) * h

Transition(cfg) == Pos(cfg.floor, cfg.min)

\* map_user_level: the hardware half ...
HardwarePct(p, cfg) ==
  IF cfg.software THEN NoHardware
  ELSE IF 100 * p < Transition(cfg) THEN cfg.floor
  ELSE IF p = 100 THEN 100
  ELSE RoundClamp((p - cfg.min) * 100, 100 - cfg.min, cfg.floor, 100)

\* Seeded bug: the darkest overlay is opaque.
OverlayAlphaUnclamped(p, cfg) ==
  LET full == IF cfg.software THEN 10000 ELSE Transition(cfg)
  IN IF 100 * p >= full THEN 0 ELSE ((full - 100 * p) * 10000) \div full

\* ... and the overlay half: the alpha, in ten-thousandths.
OverlayAlpha(p, cfg) ==
  LET full == IF cfg.software THEN 10000 ELSE Transition(cfg)
  IN IF 100 * p >= full THEN 0
     ELSE Least(MaxAlpha, ((full - 100 * p) * 10000) \div full)

ReverseMap(hw, cfg) ==
  IF cfg.software THEN hw ELSE RoundClamp(Pos(hw, cfg.min), 100, 0, 100)

=============================================================================
