--------------------------- MODULE DdcController ---------------------------
(***************************************************************************)
(* The driver behind a worker: DdcController of                            *)
(* crates/duja-ddc/src/controller.rs, which turns single exchanges on an   *)
(* unreliable bus into probe, get and set.                                 *)
(*                                                                         *)
(* A call is a function from the controller and the monitor it drives to   *)
(* the set of what may have become of them when it returns, whichever      *)
(* exchanges fail.  One thread makes the calls, one after the other.       *)
(***************************************************************************)
EXTENDS Integers

OP_ATTEMPTS           == 3
DEFAULT_CAPS_ATTEMPTS == 3
VERIFY_ATTEMPTS       == 3
VERIFY_TOLERANCE      == 2

Continuous == {"Brightness", "Contrast"}
FeatureALL == Continuous \cup {"InputSource"}

TransportError == {"Disconnected", "Timeout", "Backend"}

NoQuirk == -1

ResolvedQuirks ==
  [ddc_broken : BOOLEAN, caps_unreliable : BOOLEAN, verify_writes : BOOLEAN,
   no_input_switch : BOOLEAN,
   caps_retry : Nat \cup {NoQuirk}, max_brightness : Nat \cup {NoQuirk},
   restricted : BOOLEAN, input_source_allowed : SUBSET Nat]  \* None, or Some(codes)

Capabilities ==
  [features : SUBSET FeatureALL, hardware_range : BOOLEAN,
   raw_capabilities : {"None", "Some"},   \* the capability string read
   allowed_inputs : SUBSET Nat]

\* The display: what it is set to, the maxima it may report, and what its
\* capability string lists, which may also arrive garbled.
Monitor ==
  [value : [FeatureALL -> Nat], maxima : SUBSET Nat,
   features : SUBSET FeatureALL, inputs : SUBSET Nat, garbles : BOOLEAN]

VcpReading == [current : Nat, max : Nat]

NotCached == 0   \* in cached_max: no entry

Controller ==
  [quirks : ResolvedQuirks, probed : BOOLEAN, caps : Capabilities,
   cached_max : [Continuous -> Nat],
   monitor : Monitor,
   \* of the call under way: the exchanges made, its result, the last reading,
   \* and whether a verified write goes on
   exchanges : Nat, result : {"ok", "Unsupported"} \cup TransportError,
   reading : VcpReading, again : BOOLEAN]

Begin(c) == [c EXCEPT !.exchanges = 0, !.result = "ok", !.again = FALSE]

Fails(c, error) == [c EXCEPT !.result = error]
Stops(c)        == [c EXCEPT !.again = FALSE]

Succeeded(outcomes) == {c \in outcomes : c.result = "ok"}
Errors(outcomes)    == outcomes \ Succeeded(outcomes)

-----------------------------------------------------------------------------
(* Retries.  The first success returns; the last failure is the error.     *)

After(c, n) == [c EXCEPT !.exchanges = @ + n]

Replied(c, attempts) == {After(c, n) : n \in 1 .. attempts}
GaveUp(c, attempts)   == {Fails(After(c, attempts), e) : e \in TransportError}

Reads(c, feature, max) ==
  [c EXCEPT !.reading = [current |-> c.monitor.value[feature], max |-> max]]

read_retry(c, feature) ==
  GaveUp(c, OP_ATTEMPTS)
    \cup UNION {Replied(Reads(c, feature, max), OP_ATTEMPTS) : max \in c.monitor.maxima}

\* Any of the attempts may have reached the monitor, acknowledged or not, and
\* an acknowledged one may have had no effect.
Put(monitor, feature, value) ==
  [monitor EXCEPT !.value = [@ EXCEPT ![feature] = value]]

Landed(c, feature, value) ==
  {c, [c EXCEPT !.monitor = Put(@, feature, value)]}

write_retry(c, feature, value) ==
  UNION {GaveUp(s, OP_ATTEMPTS) \cup Replied(s, OP_ATTEMPTS) : s \in Landed(c, feature, value)}

CapsAttempts(quirks) ==
  IF quirks.caps_retry = NoQuirk THEN DEFAULT_CAPS_ATTEMPTS
  ELSE IF quirks.caps_retry = 0 THEN 1 ELSE quirks.caps_retry

caps_retry(c) == GaveUp(c, CapsAttempts(c.quirks)) \cup Replied(c, CapsAttempts(c.quirks))

-----------------------------------------------------------------------------
(* Maxima.                                                                 *)

floor_continuous_max(feature, max) ==
  IF feature # "InputSource" /\ max = 0 THEN 1 ELSE max

AtMost(value, max) == IF value <= max THEN value ELSE max

Overridden(c, feature) == feature = "Brightness" /\ c.quirks.max_brightness # NoQuirk

with_max_override(c, feature, reading) ==
  IF Overridden(c, feature)
    THEN [current |-> AtMost(reading.current, c.quirks.max_brightness),
          max |-> floor_continuous_max(feature, c.quirks.max_brightness)]
    ELSE [reading EXCEPT !.max = floor_continuous_max(feature, @)]

\* What effective_max returns, once it has returned.
Maximum(c, feature) ==
  IF Overridden(c, feature)
    THEN floor_continuous_max(feature, c.quirks.max_brightness)
    ELSE c.cached_max[feature]

Learn(c, feature, max) == [c EXCEPT !.cached_max = [@ EXCEPT ![feature] = max]]

effective_max(c, feature) ==
  IF Overridden(c, feature) \/ c.cached_max[feature] # NotCached THEN {c}
  ELSE LET read == read_retry(c, feature) IN
       Errors(read) \cup
         {Learn(s, feature, with_max_override(s, feature, s.reading).max) : s \in Succeeded(read)}

-----------------------------------------------------------------------------
(* Writing.                                                                *)

IsNear(a, b) == a - b <= VERIFY_TOLERANCE /\ b - a <= VERIFY_TOLERANCE

\* Seeded bug: a read-back that got no answer passes for agreement.
ReadBackUnanswered(c, feature, clamped) ==
  IF c.result = "ok" /\ ~IsNear(c.reading.current, clamped) THEN Fails(c, "Backend")
  ELSE Stops(Learn(Fails(c, "ok"), feature, Maximum(c, feature)))

\* What the read after a verified write means; a mismatch is a failure so far.
ReadBack(c, feature, clamped) ==
  IF c.result # "ok" THEN c
  ELSE IF IsNear(c.reading.current, clamped)
    THEN Stops(Learn(c, feature, Maximum(c, feature)))
    ELSE Fails(c, "Backend")

\* One round of a verified write: only a failed write ends it early.
VerifyAttempt(c, feature, clamped) ==
  LET wrote == write_retry(Fails(c, "ok"), feature, clamped) IN
  {Stops(s) : s \in Errors(wrote)}
    \cup UNION {{ReadBack(t, feature, clamped) : t \in read_retry(s, feature)} :
                 s \in Succeeded(wrote)}

VerifyRound(outcomes, feature, clamped) ==
  {s \in outcomes : ~s.again}
    \cup UNION {VerifyAttempt(s, feature, clamped) : s \in {t \in outcomes : t.again}}

\* VERIFY_ATTEMPTS rounds.
Verified(c, feature, clamped) ==
  LET first  == VerifyAttempt([c EXCEPT !.again = TRUE], feature, clamped)
      second == VerifyRound(first, feature, clamped)
  IN VerifyRound(second, feature, clamped)

WriteClamped(c, feature, clamped) ==
  IF c.quirks.verify_writes THEN Verified(c, feature, clamped)
  ELSE LET wrote == write_retry(c, feature, clamped) IN
       Errors(wrote) \cup {Learn(s, feature, Maximum(s, feature)) : s \in Succeeded(wrote)}

set_continuous(c, feature, value) ==
  LET sized == effective_max(c, feature) IN
  Errors(sized) \cup
    UNION {WriteClamped(s, feature, AtMost(value, Maximum(s, feature))) : s \in Succeeded(sized)}

Permitted(c, value) == c.quirks.restricted => value \in c.quirks.input_source_allowed

set_input_source(c, value) ==
  IF Permitted(c, value) THEN write_retry(c, "InputSource", value) ELSE {Fails(c, "Backend")}

-----------------------------------------------------------------------------
(* Probing.                                                                *)

resolve_allowed_inputs(quirks, from_caps) ==
  IF ~quirks.restricted THEN from_caps
  ELSE IF from_caps = {} THEN quirks.input_source_allowed
  ELSE from_caps \cap quirks.input_source_allowed

\* The capabilities found, less what a quirk takes back.
Found(c, features, inputs, raw) ==
  LET switching == ~c.quirks.no_input_switch IN
  [c EXCEPT !.result = "ok", !.probed = TRUE, !.caps =
     [features |-> IF switching THEN features ELSE features \ {"InputSource"},
      hardware_range |-> "Brightness" \in features,
      raw_capabilities |-> raw,
      allowed_inputs |-> IF switching THEN resolve_allowed_inputs(c.quirks, inputs) ELSE {}]]

\* Seeded bug: what does not answer is missing, brightness included.
ProbeBySilence(c) ==
  {IF s.result = "ok" THEN Found(s, {"Brightness"}, {}, "None") ELSE Found(s, {}, {}, "None") :
     s \in read_retry(c, "Brightness")}

\* Brightness must answer; contrast may be missing, unless the monitor is gone.
probe_by_reads(c) ==
  LET brightness == read_retry(c, "Brightness")
      contrast   == UNION {read_retry(s, "Contrast") : s \in Succeeded(brightness)}
  IN
  Errors(brightness)
    \cup {s \in contrast : s.result = "Disconnected"}
    \cup {Found(s, IF s.result = "ok" THEN Continuous ELSE {"Brightness"}, {}, "None") :
            s \in {t \in contrast : t.result # "Disconnected"}}

\* A string that does not parse lists nothing.
probe_by_string(c) ==
  {Found(c, c.monitor.features, c.monitor.inputs, "Some")}
    \cup (IF c.monitor.garbles THEN {Found(c, {}, {}, "Some")} ELSE {})

probe_inner(c) ==
  IF c.quirks.ddc_broken
    THEN {[c EXCEPT !.probed = TRUE, !.caps =
             [features |-> {}, hardware_range |-> FALSE, raw_capabilities |-> "None",
              allowed_inputs |-> {}]]}
  ELSE IF c.quirks.caps_unreliable THEN probe_by_reads(c)
  ELSE LET asked == caps_retry(c)
           gone  == {s \in asked : s.result = "Disconnected"}
           mute  == Errors(asked) \ gone
       IN gone \cup (UNION {probe_by_string(s) : s \in Succeeded(asked)})
               \cup (UNION {probe_by_reads(Fails(s, "ok")) : s \in mute})

-----------------------------------------------------------------------------
(* The BrightnessController trait.                                         *)

known_unsupported(c, feature) == c.probed /\ feature \notin c.caps.features

probe(c) == probe_inner(Begin(c))

\* Seeded bug: the maximum that was reported is not remembered.
GetForgetful(c, feature) ==
  IF known_unsupported(c, feature) THEN {Fails(Begin(c), "Unsupported")}
  ELSE LET read == read_retry(Begin(c), feature) IN
       Errors(read)
         \cup {[s EXCEPT !.reading = with_max_override(s, feature, @)] : s \in Succeeded(read)}

get(c, feature) ==
  IF known_unsupported(c, feature) THEN {Fails(Begin(c), "Unsupported")}
  ELSE LET read == read_retry(Begin(c), feature)
           Returns(s) ==
             LET range == with_max_override(s, feature, s.reading)
                 told  == [s EXCEPT !.reading = range]
             IN IF feature \in Continuous THEN Learn(told, feature, range.max) ELSE told
       IN Errors(read) \cup {Returns(s) : s \in Succeeded(read)}

set(c, feature, value) ==
  IF known_unsupported(c, feature) THEN {Fails(Begin(c), "Unsupported")}
  ELSE IF feature \in Continuous THEN set_continuous(Begin(c), feature, value)
  ELSE set_input_source(Begin(c), value)

-----------------------------------------------------------------------------
(* What the calls promise.                                                 *)

\* A verified write that reports success left the monitor where it was asked
\* to be, whichever of the attempts were lost or answered late.
VerifiedWriteSticks(c, feature, value) ==
  c.quirks.verify_writes =>
    \A s \in set(c, feature, value) :
      s.result = "ok" => IsNear(s.monitor.value[feature], AtMost(value, Maximum(s, feature)))

\* However a write fails, the monitor is where it was or where the clamped value
\* puts it, and nothing else of it changed: what module Worker takes for granted.
WritesWholly(c, feature, value) ==
  \A s \in set(c, feature, value) :
    \/ s.monitor = c.monitor
    \/ s.monitor = Put(c.monitor, feature, AtMost(value, Maximum(s, feature)))

\* The maximum a reading reports is the one writes are clamped to, whatever the
\* monitor reports next: a level scaled with it is never clamped.
ScaleIsKept(c, feature, value) ==
  \A s \in get(c, feature) :
    s.result = "ok" =>
      /\ s.reading.max > 0
      /\ \A t \in set(s, feature, value) : Maximum(t, feature) = s.reading.max

\* The exchanges of a call are bounded, so a monitor that never answers holds
\* the worker up for a bounded time.
ExchangesAreBounded(c, feature, value) ==
  /\ \A s \in get(c, feature) : s.exchanges <= OP_ATTEMPTS
  /\ \A s \in set(c, feature, value) : s.exchanges <= (1 + 2 * VERIFY_ATTEMPTS) * OP_ATTEMPTS
  /\ \A s \in probe(c) : s.exchanges <= CapsAttempts(c.quirks) + 2 * OP_ATTEMPTS

\* A monitor is reported without a brightness range only on positive evidence: a
\* quirk says so or a string was read that does not list it; never silence.
VerdictIsPositive(c) ==
  \A s \in probe(c) :
    s.result = "ok" /\ ~s.caps.hardware_range =>
      \/ c.quirks.ddc_broken
      \/ s.caps.raw_capabilities = "Some" /\ ("Brightness" \notin c.monitor.features \/ c.monitor.garbles)

\* An input a probe offers reaches the bus, if the probe found the feature.
OfferedInputsAreWritten(c) ==
  \A s \in probe(c) :
    s.result = "ok" /\ "InputSource" \in s.caps.features =>
      \A value \in s.caps.allowed_inputs :
        \A t \in set(s, "InputSource", value) : t.exchanges > 0

=============================================================================
