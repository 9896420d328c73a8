----------------------------- MODULE MCDrivers -----------------------------
(***************************************************************************)
(* The engine and its workers, with a handful of DDC controllers for the   *)
(* drivers they call: with and without their quirks, on monitors that      *)
(* misreport their maximum, garble their capability string or have no      *)
(* brightness range.                                                       *)
(***************************************************************************)
EXTENDS MCEngine, DdcController

SomeQuirks ==
  [ddc_broken : {FALSE}, caps_unreliable : BOOLEAN, verify_writes : BOOLEAN,
   no_input_switch : {FALSE}, caps_retry : {0}, max_brightness : {NoQuirk, 50},
   restricted : {TRUE}, input_source_allowed : {{17}}]

SomeMonitors(raw) ==
  [value : {[f \in FeatureALL |-> raw]}, maxima : {{0, 100}},
   features : {{"Contrast"}, FeatureALL}, inputs : {{15, 17}}, garbles : {TRUE}]

NewController(quirks, monitor) ==
  [quirks |-> quirks, probed |-> FALSE, monitor |-> monitor,
   caps |-> [features |-> {}, hardware_range |-> FALSE, raw_capabilities |-> "None",
             allowed_inputs |-> {}],
   cached_max |-> [f \in Continuous |-> NotCached], exchanges |-> 0, result |-> "ok",
   reading |-> [current |-> 0, max |-> 0], again |-> FALSE]

Drivers(raw) ==
  {NewController(quirks, monitor) : quirks \in SomeQuirks, monitor \in SomeMonitors(raw)}

\* The ones to write to: the way of probing makes no difference to a write.
Writers(raw) ==
  {c \in Drivers(raw) : c.quirks.caps_unreliable /\ "Brightness" \in c.monitor.features}

\* Where a panel of range 100 may be, and what it may be asked for.
Raws  == {PanelStart[d] : d \in Displays} \cup OutsideLevels \cup Levels
Calls == {<<raw, asked>> : raw \in Raws, asked \in Raws}

\* The brightness writes under way: where the panel is, and what it is asked for.
Call(w) == <<panel[w[1]], local[w].write.raw>>
CallsUnderWay == {Call(w) : w \in {v \in Workers : At(v, "writing") /\ local[v].feature = "Brightness"}}

VerifiedCalls ==
  {call \in Calls : \A c \in Writers(call[1]) : VerifiedWriteSticks(c, "Brightness", call[2])}

ScaledCalls ==
  {call \in Calls :
     \A c \in Writers(call[1]) :
       ~c.quirks.verify_writes => ScaleIsKept(c, "Brightness", call[2])}

ProbedRaws == {raw \in Raws : \A c \in Drivers(raw) : VerdictIsPositive(c)}

\* A write reported as verified left the panel where it was asked to be, though
\* any of its exchanges may fail, be lost or land unacknowledged (set_continuous).
DriversVerify == CallsUnderWay \subseteq VerifiedCalls

\* What a controller reports as the maximum is what it clamps the next write to,
\* and is never zero, whatever the monitor answers (get, effective_max).
DriversKeepScale == CallsUnderWay \subseteq ScaledCalls

\* A controller calls a panel one without brightness range on evidence only,
\* never because it did not answer (probe_inner, probe_by_reads).
ProbesNeedEvidence ==
  \A w \in Workers : At(w, "opening") => panel[w[1]] \in ProbedRaws

\* The rest of what module DdcController promises, on the same controllers.
ASSUME DriverAssumption ==
  /\ \A c \in Drivers(40) : OfferedInputsAreWritten(c)
  /\ \A c \in Writers(40) :
       IF c.quirks.verify_writes THEN ExchangesAreBounded(c, "Brightness", 100)
       ELSE WritesWholly(c, "Brightness", 100)

=============================================================================
