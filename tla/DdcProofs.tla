----------------------------- MODULE DdcProofs -----------------------------
(***************************************************************************)
(* What the calls of a DDC controller promise, for every controller, every *)
(* set of quirks and every monitor, whichever exchanges fail.              *)
(***************************************************************************)
EXTENDS MCDrivers, FollowProofs

-----------------------------------------------------------------------------
(* Single exchanges and their retries.                                     *)

CallResult == {"ok", "Unsupported"} \cup TransportError

LEMMA ControllerFields ==
  ASSUME NEW c \in Controller
  PROVE  /\ c.quirks \in ResolvedQuirks /\ c.probed \in BOOLEAN /\ c.caps \in Capabilities
         /\ c.cached_max \in [Continuous -> Nat] /\ c.monitor \in Monitor
         /\ c.exchanges \in Nat /\ c.result \in CallResult
         /\ c.reading \in VcpReading /\ c.again \in BOOLEAN
BY DEF Controller, CallResult

\* What no exchange touches.
Same(s, c) == s.quirks = c.quirks /\ s.probed = c.probed /\ s.caps = c.caps

LEMMA BeginType ==
  ASSUME NEW c \in Controller
  PROVE  /\ Begin(c) \in Controller /\ Same(Begin(c), c) /\ Begin(c).result = "ok"
         /\ Begin(c).exchanges = 0 /\ Begin(c).monitor = c.monitor
         /\ Begin(c).cached_max = c.cached_max /\ ~Begin(c).again
         /\ \A f : Maximum(Begin(c), f) = Maximum(c, f)
BY DEF Begin, Controller, Same, Maximum, Overridden

LEMMA FailsType ==
  ASSUME NEW c \in Controller, NEW e \in CallResult
  PROVE  /\ Fails(c, e) \in Controller /\ Same(Fails(c, e), c) /\ Fails(c, e).result = e
         /\ Fails(c, e).exchanges = c.exchanges /\ Fails(c, e).monitor = c.monitor
         /\ Fails(c, e).cached_max = c.cached_max /\ Fails(c, e).again = c.again
         /\ Fails(c, e).reading = c.reading
BY DEF Fails, Controller, Same, CallResult

LEMMA AfterType ==
  ASSUME NEW c \in Controller, NEW n \in Nat
  PROVE  /\ After(c, n) \in Controller /\ Same(After(c, n), c)
         /\ After(c, n).exchanges = c.exchanges + n /\ After(c, n).monitor = c.monitor
         /\ After(c, n).cached_max = c.cached_max /\ After(c, n).again = c.again
         /\ After(c, n).reading = c.reading /\ After(c, n).result = c.result
BY ControllerFields DEF After, Controller, Same

LEMMA Monitors ==
  ASSUME NEW m \in Monitor
  PROVE  /\ m.value \in [FeatureALL -> Nat] /\ m.maxima \in SUBSET Nat
         /\ m.features \in SUBSET FeatureALL /\ m.inputs \in SUBSET Nat
BY DEF Monitor

\* An exchange of at most three attempts.
Tried(s, c) ==
  /\ s \in Controller /\ Same(s, c)
  /\ s.cached_max = c.cached_max /\ s.again = c.again
  /\ s.exchanges > c.exchanges /\ s.exchanges <= c.exchanges + OP_ATTEMPTS
  /\ s.result = "ok" \/ s.result \in TransportError

LEMMA GaveUpType ==
  ASSUME NEW c \in Controller, NEW n \in Nat, NEW s \in GaveUp(c, n)
  PROVE  /\ s \in Controller /\ Same(s, c) /\ s.exchanges = c.exchanges + n
         /\ s.monitor = c.monitor /\ s.cached_max = c.cached_max /\ s.again = c.again
         /\ s.result \in TransportError /\ s.result # "ok"
<1>1. PICK e \in TransportError : s = Fails(After(c, n), e)
  BY DEF GaveUp
<1>2. e \in CallResult /\ e # "ok"
  BY DEF CallResult, TransportError
<1> QED
  BY <1>1, <1>2, AfterType, FailsType DEF Same

LEMMA AnsweredType ==
  ASSUME NEW c \in Controller, NEW n \in Nat, NEW s \in Replied(c, n)
  PROVE  /\ s \in Controller /\ Same(s, c)
         /\ s.exchanges > c.exchanges /\ s.exchanges <= c.exchanges + n
         /\ s.monitor = c.monitor /\ s.cached_max = c.cached_max /\ s.again = c.again
         /\ s.reading = c.reading /\ s.result = c.result
<1>1. PICK k \in 1 .. n : s = After(c, k)
  BY DEF Replied
<1>2. k \in Nat /\ k > 0 /\ k <= n
  BY <1>1
<1>3. s.exchanges = c.exchanges + k /\ c.exchanges \in Nat
  BY <1>1, <1>2, AfterType, ControllerFields
<1>4. s.exchanges > c.exchanges /\ s.exchanges <= c.exchanges + n
  BY <1>2, <1>3
<1> QED
  BY <1>1, <1>2, <1>4, AfterType

LEMMA ReadTries ==
  ASSUME NEW c \in Controller, c.result = "ok", NEW f \in FeatureALL,
         NEW s \in read_retry(c, f)
  PROVE  /\ Tried(s, c) /\ s.monitor = c.monitor
         /\ s.result = "ok" => s.reading.current = c.monitor.value[f]
<1>1. /\ c.exchanges \in Nat /\ c.monitor \in Monitor
      /\ c.monitor.value[f] \in Nat /\ c.monitor.maxima \in SUBSET Nat
  BY ControllerFields, Monitors
<1>2. CASE s \in GaveUp(c, OP_ATTEMPTS)
  BY <1>1, <1>2, GaveUpType DEF Tried, OP_ATTEMPTS
<1>3. CASE s \notin GaveUp(c, OP_ATTEMPTS)
  <2>1. PICK max \in c.monitor.maxima : s \in Replied(Reads(c, f, max), OP_ATTEMPTS)
    BY <1>3 DEF read_retry
  <2> DEFINE r == [current |-> c.monitor.value[f], max |-> max]
             t == Reads(c, f, max)
  <2>2. r \in VcpReading /\ r.current = c.monitor.value[f]
    BY <1>1 DEF VcpReading
  <2>3. t = [c EXCEPT !.reading = r]
    BY DEF Reads
  <2> HIDE DEF r, t
  <2>4. /\ t \in Controller /\ t.reading = r /\ t.result = "ok" /\ t.exchanges = c.exchanges
        /\ Same(t, c) /\ t.cached_max = c.cached_max /\ t.again = c.again /\ t.monitor = c.monitor
    BY <2>2, <2>3 DEF Controller, Same
  <2>5. s \in Replied(t, OP_ATTEMPTS)
    BY <2>1 DEF t
  <2> QED
    BY <1>1, <2>2, <2>4, <2>5, AnsweredType DEF Tried, OP_ATTEMPTS, Same
<1> QED
  BY <1>2, <1>3

LEMMA PutType ==
  ASSUME NEW m \in Monitor, NEW f \in FeatureALL, NEW v \in Nat
  PROVE  /\ Put(m, f, v) \in Monitor /\ Put(m, f, v).value[f] = v
         /\ Put(Put(m, f, v), f, v) = Put(m, f, v)
<1>1. m.value \in [FeatureALL -> Nat]
  BY Monitors
<1>2. /\ Put(m, f, v) \in Monitor
      /\ Put(m, f, v).value = [m.value EXCEPT ![f] = v]
  BY <1>1 DEF Put, Monitor
<1>3. [[m.value EXCEPT ![f] = v] EXCEPT ![f] = v] = [m.value EXCEPT ![f] = v]
  BY <1>1
<1>4. Put(Put(m, f, v), f, v) = [Put(m, f, v) EXCEPT !.value = [m.value EXCEPT ![f] = v]]
  BY <1>2, <1>3 DEF Put
<1>5. [Put(m, f, v) EXCEPT !.value = [m.value EXCEPT ![f] = v]] = Put(m, f, v)
  BY <1>1 DEF Put, Monitor
<1> QED
  BY <1>1, <1>2, <1>4, <1>5

\* The monitor is where it was or where v puts feature f.
Puts(s, c, f, v) == s.monitor = c.monitor \/ s.monitor = Put(c.monitor, f, v)

LEMMA WriteTries ==
  ASSUME NEW c \in Controller, c.result = "ok", NEW f \in FeatureALL, NEW v \in Nat,
         NEW s \in write_retry(c, f, v)
  PROVE  Tried(s, c) /\ Puts(s, c, f, v)
<1>1. c.exchanges \in Nat /\ c.monitor \in Monitor /\ Put(c.monitor, f, v) \in Monitor
  BY ControllerFields, PutType
<1>2. PICK t \in Landed(c, f, v) : s \in GaveUp(t, OP_ATTEMPTS) \cup Replied(t, OP_ATTEMPTS)
  BY DEF write_retry
<1> DEFINE m == Put(c.monitor, f, v)
<1>3. t = c \/ t = [c EXCEPT !.monitor = m]
  BY <1>2 DEF Landed
<1>4. m \in Monitor
  BY <1>1
<1> HIDE DEF m
<1>5. /\ t \in Controller /\ Same(t, c) /\ t.exchanges = c.exchanges /\ t.result = "ok"
      /\ t.cached_max = c.cached_max /\ t.again = c.again
      /\ t.monitor = c.monitor \/ t.monitor = m
  BY <1>1, <1>3, <1>4 DEF Controller, Same
<1>6. CASE s \in GaveUp(t, OP_ATTEMPTS)
  BY <1>1, <1>5, <1>6, GaveUpType DEF Tried, Same, OP_ATTEMPTS, Puts, m
<1>7. CASE s \in Replied(t, OP_ATTEMPTS)
  BY <1>1, <1>5, <1>7, AnsweredType DEF Tried, Same, OP_ATTEMPTS, Puts, m
<1> QED
  BY <1>2, <1>6, <1>7

-----------------------------------------------------------------------------
(* Writes of a continuous feature.                                         *)

LEMMA StopsType ==
  ASSUME NEW c \in Controller
  PROVE  /\ Stops(c) \in Controller /\ Same(Stops(c), c) /\ ~Stops(c).again
         /\ Stops(c).exchanges = c.exchanges /\ Stops(c).monitor = c.monitor
         /\ Stops(c).cached_max = c.cached_max /\ Stops(c).result = c.result
BY DEF Stops, Controller, Same

LEMMA LearnType ==
  ASSUME NEW c \in Controller, NEW f \in Continuous, NEW m \in Nat
  PROVE  /\ Learn(c, f, m) \in Controller /\ Same(Learn(c, f, m), c)
         /\ Learn(c, f, m).exchanges = c.exchanges /\ Learn(c, f, m).monitor = c.monitor
         /\ Learn(c, f, m).result = c.result /\ Learn(c, f, m).again = c.again
         /\ Learn(c, f, m).reading = c.reading
         /\ Learn(c, f, m).cached_max[f] = m
<1>1. c.cached_max \in [Continuous -> Nat]
  BY ControllerFields
<1> DEFINE cache == [c.cached_max EXCEPT ![f] = m]
<1>2. cache \in [Continuous -> Nat] /\ cache[f] = m
  BY <1>1
<1>3. Learn(c, f, m) = [c EXCEPT !.cached_max = cache]
  BY DEF Learn
<1> HIDE DEF cache
<1> QED
  BY <1>2, <1>3 DEF Controller, Same

LEMMA MaximumType ==
  ASSUME NEW c \in Controller, NEW f \in Continuous
  PROVE  Maximum(c, f) \in Nat
<1>1. c.cached_max[f] \in Nat /\ c.quirks.max_brightness \in Nat \cup {NoQuirk}
  BY ControllerFields DEF ResolvedQuirks
<1> QED
  BY <1>1 DEF Maximum, Overridden, floor_continuous_max

\* Learning the maximum that is in force, or nothing, leaves it in force.
LEMMA MaximumKept ==
  ASSUME NEW c \in Controller, NEW s \in Controller, NEW f \in Continuous, Same(s, c),
         s.cached_max[f] = c.cached_max[f] \/ s.cached_max[f] = Maximum(c, f)
  PROVE  Maximum(s, f) = Maximum(c, f)
BY DEF Maximum, Overridden, Same

\* What writing v to feature f comes to, in at most n exchanges.
Comes(s, c, f, v, n) ==
  /\ s \in Controller /\ Same(s, c) /\ Puts(s, c, f, v)
  /\ Maximum(s, f) = Maximum(c, f)
  /\ s.exchanges <= c.exchanges + n
  /\ s.result = "ok" \/ s.result \in TransportError

\* A verified write that has ended well is where it should be.
Proven(s, f, v) ==
  /\ s.again => s.result # "ok"
  /\ s.result = "ok" => IsNear(s.monitor.value[f], v)

LEMMA AttemptComes ==
  ASSUME NEW c \in Controller, NEW f \in Continuous, NEW v \in Nat,
         NEW s \in VerifyAttempt(c, f, v)
  PROVE  Comes(s, c, f, v, 6) /\ Proven(s, f, v)
<1> DEFINE c0    == Fails(c, "ok")
           wrote == write_retry(c0, f, v)
<1>1. /\ c0 \in Controller /\ Same(c0, c) /\ c0.exchanges = c.exchanges /\ c0.result = "ok"
      /\ c0.monitor = c.monitor /\ c0.cached_max = c.cached_max /\ c.exchanges \in Nat
  BY FailsType, ControllerFields DEF CallResult
<1>2. f \in FeatureALL
  BY DEF FeatureALL
<1>3. \/ \E t \in Errors(wrote) : s = Stops(t)
      \/ \E t \in Succeeded(wrote) : \E u \in read_retry(t, f) : s = ReadBack(u, f, v)
  BY DEF VerifyAttempt
<1> HIDE DEF c0
<1>4. \A t \in wrote : Tried(t, c0) /\ Puts(t, c0, f, v)
  BY <1>1, <1>2, WriteTries
<1> HIDE DEF wrote
<1>5. CASE \E t \in Errors(wrote) : s = Stops(t)
  <2>1. PICK t \in wrote : t.result # "ok" /\ s = Stops(t)
    BY <1>5 DEF Errors, Succeeded
  <2>2. Tried(t, c0) /\ Puts(t, c0, f, v) /\ t \in Controller /\ t.exchanges \in Nat
    BY <1>4, ControllerFields DEF Tried
  <2>3. /\ s \in Controller /\ Same(s, c) /\ s.monitor = t.monitor /\ s.result = t.result
        /\ s.cached_max = c.cached_max /\ s.exchanges = t.exchanges
    BY <1>1, <2>1, <2>2, StopsType DEF Tried, Same
  <2>4. Maximum(s, f) = Maximum(c, f)
    BY <2>3, MaximumKept
  <2>5. s.exchanges <= c.exchanges + 6 /\ t.result \in TransportError
    BY <1>1, <2>1, <2>2, <2>3 DEF Tried, OP_ATTEMPTS
  <2> QED
    BY <1>1, <2>1, <2>2, <2>3, <2>4, <2>5 DEF Comes, Proven, Puts
<1>6. CASE \E t \in Succeeded(wrote) : \E u \in read_retry(t, f) : s = ReadBack(u, f, v)
  <2>0. PICK t \in wrote : t.result = "ok" /\ \E u \in read_retry(t, f) : s = ReadBack(u, f, v)
    BY <1>6 DEF Succeeded
  <2>1. PICK u \in read_retry(t, f) : t.result = "ok" /\ s = ReadBack(u, f, v)
    BY <2>0
  <2>2. Tried(t, c0) /\ Puts(t, c0, f, v) /\ t \in Controller /\ t.exchanges \in Nat
    BY <1>4, ControllerFields DEF Tried
  <2>3. /\ Tried(u, t) /\ u.monitor = t.monitor /\ u \in Controller /\ u.exchanges \in Nat
        /\ u.result = "ok" => u.reading.current = t.monitor.value[f]
    BY <1>2, <2>1, <2>2, ReadTries, ControllerFields DEF Tried
  <2>4. /\ Same(u, c) /\ Puts(u, c, f, v) /\ u.cached_max = c.cached_max
        /\ u.result = "ok" \/ u.result \in TransportError
    BY <1>1, <2>2, <2>3 DEF Tried, Same, Puts
  <2>5. u.exchanges <= c.exchanges + 6
    BY <1>1, <2>2, <2>3 DEF Tried, OP_ATTEMPTS
  <2>6. Maximum(u, f) = Maximum(c, f) /\ Maximum(c, f) \in Nat
    BY <2>3, <2>4, MaximumKept, MaximumType
  <2>7. CASE u.result # "ok"
    BY <2>1, <2>3, <2>4, <2>5, <2>6, <2>7 DEF ReadBack, Comes, Proven
  <2>8. CASE u.result = "ok" /\ ~IsNear(u.reading.current, v)
    <3>1. s = Fails(u, "Backend") /\ "Backend" \in CallResult /\ "Backend" \in TransportError
      BY <2>1, <2>8 DEF ReadBack, CallResult, TransportError
    <3>2. /\ s \in Controller /\ Same(s, c) /\ s.monitor = u.monitor /\ s.result = "Backend"
          /\ s.cached_max = c.cached_max /\ s.exchanges = u.exchanges
      BY <2>3, <2>4, <3>1, FailsType DEF Same
    <3>3. Maximum(s, f) = Maximum(c, f)
      BY <3>2, MaximumKept
    <3> QED
      BY <2>4, <2>5, <3>1, <3>2, <3>3 DEF Comes, Proven, Puts
  <2>9. CASE u.result = "ok" /\ IsNear(u.reading.current, v)
    <3> DEFINE l == Learn(u, f, Maximum(u, f))
    <3>1. /\ l \in Controller /\ Same(l, u) /\ l.exchanges = u.exchanges /\ l.monitor = u.monitor
          /\ l.result = "ok" /\ l.cached_max[f] = Maximum(c, f)
      BY <2>3, <2>6, <2>9, LearnType
    <3>2. s = Stops(l)
      BY <2>1, <2>9 DEF ReadBack
    <3> HIDE DEF l
    <3>3. /\ s \in Controller /\ Same(s, c) /\ s.exchanges = u.exchanges /\ s.monitor = u.monitor
          /\ s.result = "ok" /\ s.cached_max[f] = Maximum(c, f) /\ ~s.again
      BY <2>4, <3>1, <3>2, StopsType DEF Same
    <3>4. Maximum(s, f) = Maximum(c, f)
      BY <3>3, MaximumKept
    <3> QED
      BY <2>3, <2>4, <2>5, <2>9, <3>3, <3>4 DEF Comes, Proven, Puts
  <2> QED
    BY <2>7, <2>8, <2>9
<1> QED
  BY <1>3, <1>5, <1>6

LEMMA RoundComes ==
  ASSUME NEW c \in Controller, NEW f \in Continuous, NEW v \in Nat, NEW n \in Nat,
         NEW outcomes, \A t \in outcomes : Comes(t, c, f, v, n) /\ Proven(t, f, v),
         NEW s \in VerifyRound(outcomes, f, v)
  PROVE  Comes(s, c, f, v, n + 6) /\ Proven(s, f, v)
<1>1. c.exchanges \in Nat /\ c.monitor \in Monitor /\ f \in FeatureALL
  BY ControllerFields DEF FeatureALL
<1>2. CASE s \in outcomes
  <2>1. s.exchanges \in Nat /\ s.exchanges <= c.exchanges + n
    BY <1>2, ControllerFields DEF Comes
  <2>2. s.exchanges <= c.exchanges + (n + 6)
    BY <1>1, <2>1
  <2> QED
    BY <1>2, <2>2 DEF Comes
<1>3. CASE s \notin outcomes
  <2>1. PICK t \in outcomes : s \in VerifyAttempt(t, f, v)
    BY <1>3 DEF VerifyRound
  <2>2. Comes(t, c, f, v, n) /\ t \in Controller /\ t.exchanges \in Nat
    BY <2>1, ControllerFields DEF Comes
  <2>3. Comes(s, t, f, v, 6) /\ Proven(s, f, v)
    BY <2>1, <2>2, AttemptComes
  <2>4. s.exchanges \in Nat
    BY <2>3, ControllerFields DEF Comes
  <2>5. s.exchanges <= c.exchanges + (n + 6)
    BY <1>1, <2>2, <2>3, <2>4 DEF Comes
  <2>6. Put(Put(c.monitor, f, v), f, v) = Put(c.monitor, f, v)
    BY <1>1, PutType
  <2>7. Puts(s, c, f, v)
    BY <2>2, <2>3, <2>6 DEF Comes, Puts
  <2> QED
    BY <2>2, <2>3, <2>5, <2>7 DEF Comes, Same
<1> QED
  BY <1>2, <1>3

LEMMA VerifiedComes ==
  ASSUME NEW c \in Controller, NEW f \in Continuous, NEW v \in Nat,
         NEW s \in Verified(c, f, v)
  PROVE  Comes(s, c, f, v, 18) /\ Proven(s, f, v)
<1> DEFINE c0     == [c EXCEPT !.again = TRUE]
           first  == VerifyAttempt(c0, f, v)
           second == VerifyRound(first, f, v)
<1>1. /\ c0 \in Controller /\ Same(c0, c) /\ c0.exchanges = c.exchanges
      /\ c0.monitor = c.monitor /\ c0.cached_max = c.cached_max
  BY DEF Controller, Same
<1>2. s \in VerifyRound(second, f, v)
  BY DEF Verified
<1> HIDE DEF c0
<1>3. \A t \in first : Comes(t, c0, f, v, 6) /\ Proven(t, f, v)
  BY <1>1, AttemptComes
<1> HIDE DEF first
<1>4. \A t \in second : Comes(t, c0, f, v, 12) /\ Proven(t, f, v)
  BY <1>1, <1>3, RoundComes
<1> HIDE DEF second
<1>5. Comes(s, c0, f, v, 18) /\ Proven(s, f, v)
  BY <1>1, <1>2, <1>4, RoundComes
<1>6. Maximum(c0, f) = Maximum(c, f)
  BY <1>1, MaximumKept
<1> QED
  BY <1>1, <1>5, <1>6 DEF Comes, Same, Puts

-----------------------------------------------------------------------------
(* set.                                                                    *)

\* The maximum is in force: a quirk gives it, or it was learnt.
MaxKnown(c, f) == Overridden(c, f) \/ c.cached_max[f] # NotCached

LEMMA ReportsPositive ==
  ASSUME NEW c \in Controller, NEW f \in Continuous, NEW r \in VcpReading
  PROVE  /\ with_max_override(c, f, r) \in VcpReading
         /\ with_max_override(c, f, r).max > 0
         /\ Overridden(c, f) => Maximum(c, f) = with_max_override(c, f, r).max
<1>1. /\ c.quirks.max_brightness \in Nat \cup {NoQuirk}
      /\ r.current \in Nat /\ r.max \in Nat /\ r = [current |-> r.current, max |-> r.max]
  BY ControllerFields DEF ResolvedQuirks, VcpReading
<1>2. f # "InputSource"
  BY DEF Continuous
<1>3. CASE Overridden(c, f)
  BY <1>1, <1>2, <1>3
     DEF Overridden, with_max_override, floor_continuous_max, AtMost, Maximum, VcpReading
<1>4. CASE ~Overridden(c, f)
  BY <1>1, <1>2, <1>4 DEF with_max_override, floor_continuous_max, VcpReading
<1> QED
  BY <1>3, <1>4

LEMMA EffectiveMaxLearns ==
  ASSUME NEW c \in Controller, c.result = "ok", NEW f \in Continuous,
         NEW s \in effective_max(c, f)
  PROVE  /\ s \in Controller /\ Same(s, c) /\ s.monitor = c.monitor
         /\ s.exchanges <= c.exchanges + 3
         /\ s.result = "ok" \/ s.result \in TransportError
         /\ MaxKnown(c, f) => Maximum(s, f) = Maximum(c, f)
<1>1. c.exchanges \in Nat /\ f \in FeatureALL
  BY ControllerFields DEF FeatureALL
<1>2. CASE MaxKnown(c, f)
  BY <1>1, <1>2 DEF effective_max, MaxKnown, Same
<1>3. CASE ~MaxKnown(c, f)
  <2>1. PICK t \in read_retry(c, f) :
           \/ s = t
           \/ t.result = "ok" /\ s = Learn(t, f, with_max_override(t, f, t.reading).max)
    BY <1>3 DEF effective_max, MaxKnown, Errors, Succeeded
  <2>2. Tried(t, c) /\ t.monitor = c.monitor /\ t \in Controller /\ t.reading \in VcpReading
    BY <1>1, <2>1, ReadTries, ControllerFields DEF Tried
  <2>3. with_max_override(t, f, t.reading).max \in Nat
    BY <2>2, ReportsPositive DEF VcpReading
  <2> QED
    BY <1>3, <2>1, <2>2, <2>3, LearnType DEF Tried, OP_ATTEMPTS, Same
<1> QED
  BY <1>2, <1>3

\* What setting feature f to v comes to.
WriteComes(s, c, f, v) ==
  /\ s \in Controller /\ Same(s, c)
  /\ Puts(s, c, f, AtMost(v, Maximum(s, f)))
  /\ s.exchanges <= 21
  /\ MaxKnown(c, f) => Maximum(s, f) = Maximum(c, f)
  /\ c.quirks.verify_writes /\ s.result = "ok" =>
       IsNear(s.monitor.value[f], AtMost(v, Maximum(s, f)))

LEMMA ClampedComes ==
  ASSUME NEW c \in Controller, c.result = "ok", NEW f \in Continuous, NEW v \in Nat,
         NEW s \in WriteClamped(c, f, v)
  PROVE  /\ Comes(s, c, f, v, 18)
         /\ c.quirks.verify_writes /\ s.result = "ok" => IsNear(s.monitor.value[f], v)
<1>1. CASE c.quirks.verify_writes
  BY <1>1, VerifiedComes DEF WriteClamped, Proven
<1>2. CASE ~c.quirks.verify_writes
  <2>1. PICK t \in write_retry(c, f, v) : s = t \/ s = Learn(t, f, Maximum(t, f))
    BY <1>2 DEF WriteClamped, Errors, Succeeded
  <2>2. /\ Tried(t, c) /\ Puts(t, c, f, v) /\ t \in Controller
        /\ t.exchanges \in Nat /\ c.exchanges \in Nat
    BY <2>1, WriteTries, ControllerFields DEF Tried, FeatureALL
  <2>3. Maximum(t, f) = Maximum(c, f) /\ Maximum(t, f) \in Nat
    BY <2>2, MaximumKept, MaximumType DEF Tried
  <2>4. CASE s = t
    BY <1>2, <2>2, <2>3, <2>4 DEF Comes, Tried, OP_ATTEMPTS
  <2>5. CASE s = Learn(t, f, Maximum(t, f))
    <3>1. /\ s \in Controller /\ Same(s, t) /\ s.exchanges = t.exchanges
          /\ s.monitor = t.monitor /\ s.result = t.result /\ s.cached_max[f] = Maximum(t, f)
      BY <2>2, <2>3, <2>5, LearnType
    <3>2. Maximum(s, f) = Maximum(t, f)
      BY <2>2, <3>1, MaximumKept
    <3> QED
      BY <1>2, <2>2, <2>3, <3>1, <3>2 DEF Comes, Tried, Same, Puts, OP_ATTEMPTS
  <2> QED
    BY <2>1, <2>4, <2>5
<1> QED
  BY <1>1, <1>2

LEMMA SetContinuousComes ==
  ASSUME NEW c \in Controller, c.result = "ok", c.exchanges = 0,
         NEW f \in Continuous, NEW v \in Nat, NEW s \in set_continuous(c, f, v)
  PROVE  WriteComes(s, c, f, v)
<1>1. CASE s \in Errors(effective_max(c, f))
  <2>1. s \in effective_max(c, f) /\ s.result # "ok"
    BY <1>1 DEF Errors, Succeeded
  <2>2. s \in Controller /\ s.exchanges \in Nat /\ s.exchanges <= 3
    BY <2>1, EffectiveMaxLearns, ControllerFields
  <2> QED
    BY <2>1, <2>2, EffectiveMaxLearns DEF WriteComes, Puts
<1>2. CASE s \notin Errors(effective_max(c, f))
  <2>1. PICK t \in effective_max(c, f) :
           t.result = "ok" /\ s \in WriteClamped(t, f, AtMost(v, Maximum(t, f)))
    BY <1>2 DEF set_continuous, Succeeded
  <2>2. /\ t \in Controller /\ Same(t, c) /\ t.monitor = c.monitor
        /\ t.exchanges \in Nat /\ t.exchanges <= 3
        /\ MaxKnown(c, f) => Maximum(t, f) = Maximum(c, f)
    BY <2>1, EffectiveMaxLearns, ControllerFields
  <2>3. AtMost(v, Maximum(t, f)) \in Nat
    BY <2>2, MaximumType DEF AtMost
  <2>4. /\ Comes(s, t, f, AtMost(v, Maximum(t, f)), 18)
        /\ t.quirks.verify_writes /\ s.result = "ok" =>
             IsNear(s.monitor.value[f], AtMost(v, Maximum(t, f)))
    BY <2>1, <2>2, <2>3, ClampedComes
  <2>5. s \in Controller /\ s.exchanges \in Nat
    BY <2>4, ControllerFields DEF Comes
  <2>6. s.exchanges <= 21
    BY <2>2, <2>4, <2>5 DEF Comes
  <2> QED
    BY <2>2, <2>4, <2>6 DEF WriteComes, Comes, Same, Puts
<1> QED
  BY <1>1, <1>2

LEMMA SetComes ==
  ASSUME NEW c \in Controller, NEW f \in Continuous, NEW v \in Nat, NEW s \in set(c, f, v)
  PROVE  WriteComes(s, c, f, v)
<1>1. /\ Begin(c) \in Controller /\ Same(Begin(c), c) /\ Begin(c).result = "ok"
      /\ Begin(c).exchanges = 0 /\ Begin(c).monitor = c.monitor
      /\ Maximum(Begin(c), f) = Maximum(c, f) /\ MaxKnown(Begin(c), f) <=> MaxKnown(c, f)
  BY BeginType DEF MaxKnown, Overridden, Same
<1>2. CASE known_unsupported(c, f)
  <2>1. s = Fails(Begin(c), "Unsupported") /\ "Unsupported" \in CallResult
    BY <1>2 DEF set, CallResult
  <2>2. /\ s \in Controller /\ Same(s, Begin(c)) /\ s.result = "Unsupported" /\ s.exchanges = 0
        /\ s.monitor = c.monitor /\ s.cached_max = Begin(c).cached_max
    BY <1>1, <2>1, FailsType
  <2>3. Maximum(s, f) = Maximum(Begin(c), f)
    BY <1>1, <2>2, MaximumKept
  <2> QED
    BY <1>1, <2>2, <2>3 DEF WriteComes, Puts, Same
<1>3. CASE ~known_unsupported(c, f)
  <2>1. s \in set_continuous(Begin(c), f, v)
    BY <1>3 DEF set
  <2>2. WriteComes(s, Begin(c), f, v)
    BY <1>1, <2>1, SetContinuousComes
  <2> QED
    BY <1>1, <2>2 DEF WriteComes, Same, Puts
<1> QED
  BY <1>2, <1>3

\* A verified write that reports success has left the monitor within the
\* tolerance of the clamped value, whichever of its up to nine writes and nine
\* reads failed or landed unacknowledged.
THEOREM VerifiedWritesStick ==
  ASSUME NEW c \in Controller, NEW f \in Continuous, NEW v \in Nat
  PROVE  VerifiedWriteSticks(c, f, v)
BY SetComes DEF VerifiedWriteSticks, WriteComes

\* However set ends, the monitor is as it was or differs only in that feature,
\* which has the clamped value.
THEOREM WritesAreWhole ==
  ASSUME NEW c \in Controller, NEW f \in Continuous, NEW v \in Nat
  PROVE  WritesWholly(c, f, v)
BY SetComes DEF WritesWholly, WriteComes, Puts

-----------------------------------------------------------------------------
(* get and probe.                                                          *)

\* A reading reports, and leaves in force, a positive maximum.
LEMMA GetComes ==
  ASSUME NEW c \in Controller, NEW f \in FeatureALL, NEW s \in get(c, f)
  PROVE  /\ s \in Controller /\ Same(s, c) /\ s.exchanges <= 3
         /\ f \in Continuous /\ s.result = "ok" =>
              s.reading.max > 0 /\ MaxKnown(s, f) /\ Maximum(s, f) = s.reading.max
<1>1. /\ Begin(c) \in Controller /\ Same(Begin(c), c) /\ Begin(c).result = "ok"
      /\ Begin(c).exchanges = 0
  BY BeginType
<1>2. CASE known_unsupported(c, f)
  <2>1. s = Fails(Begin(c), "Unsupported") /\ "Unsupported" \in CallResult
    BY <1>2 DEF get, CallResult
  <2> QED
    BY <1>1, <2>1, FailsType DEF Same
<1>3. CASE ~known_unsupported(c, f)
  <2>1. PICK t \in read_retry(Begin(c), f) :
           \/ s = t /\ t.result # "ok"
           \/ /\ t.result = "ok"
              /\ LET range == with_max_override(t, f, t.reading)
                     told  == [t EXCEPT !.reading = range]
                 IN s = IF f \in Continuous THEN Learn(told, f, range.max) ELSE told
    BY <1>3 DEF get, Errors, Succeeded
  <2>2. /\ Tried(t, Begin(c)) /\ t \in Controller /\ t.reading \in VcpReading
        /\ t.exchanges \in Nat
    BY <1>1, <2>1, ReadTries, ControllerFields DEF Tried
  <2>3. Same(t, c) /\ t.exchanges <= 3
    BY <1>1, <2>2 DEF Tried, Same, OP_ATTEMPTS
  <2>4. CASE s = t /\ t.result # "ok"
    BY <2>2, <2>3, <2>4
  <2>5. CASE ~(s = t /\ t.result # "ok")
    <3> DEFINE range == with_max_override(t, f, t.reading)
               told  == [t EXCEPT !.reading = range]
    <3>1. t.result = "ok" /\ s = IF f \in Continuous THEN Learn(told, f, range.max) ELSE told
      BY <2>1, <2>5
    <3>2. range \in VcpReading
      <4>1. CASE f \in Continuous
        BY <2>2, <4>1, ReportsPositive
      <4>2. CASE f \notin Continuous
        <5>1. f = "InputSource" /\ t.reading = [current |-> t.reading.current, max |-> t.reading.max]
          BY <2>2, <4>2 DEF FeatureALL, Continuous, VcpReading
        <5> QED
          BY <2>2, <5>1 DEF with_max_override, floor_continuous_max, Overridden, VcpReading
      <4> QED
        BY <4>1, <4>2
    <3>3. /\ f \in Continuous => range.max > 0
          /\ f \in Continuous /\ Overridden(t, f) => Maximum(t, f) = range.max
      BY <2>2, ReportsPositive
    <3>4. range.max \in Nat
      BY <3>2 DEF VcpReading
    <3> HIDE DEF range
    <3>5. /\ told \in Controller /\ Same(told, t) /\ told.exchanges = t.exchanges
          /\ told.reading = range
      BY <2>2, <3>2 DEF Controller, Same
    <3> HIDE DEF told
    <3>6. CASE f \notin Continuous
      BY <2>3, <3>1, <3>5, <3>6 DEF Same
    <3>7. CASE f \in Continuous
      <4>1. /\ s \in Controller /\ Same(s, told) /\ s.exchanges = t.exchanges
            /\ s.reading = range /\ s.cached_max[f] = range.max
        BY <3>1, <3>4, <3>5, <3>7, LearnType
      <4>2. Same(s, t)
        BY <3>5, <4>1 DEF Same
      <4>3. MaxKnown(s, f)
        BY <3>3, <3>4, <3>7, <4>1 DEF MaxKnown, NotCached
      <4>4. Maximum(s, f) = range.max
        BY <3>3, <3>7, <4>1, <4>2 DEF Maximum, Overridden, Same
      <4> QED
        BY <2>3, <3>3, <3>7, <4>1, <4>2, <4>3, <4>4 DEF Same
    <3> QED
      BY <3>6, <3>7
  <2> QED
    BY <2>4, <2>5
<1> QED
  BY <1>2, <1>3

\* The maximum a reading reports is positive and is the one the next write is
\* clamped to, whatever maximum the monitor would report by then.
THEOREM ScalesAreKept ==
  ASSUME NEW c \in Controller, NEW f \in Continuous, NEW v \in Nat
  PROVE  ScaleIsKept(c, f, v)
<1>1. f \in FeatureALL
  BY DEF FeatureALL
<1> QED
  BY <1>1, GetComes, SetComes DEF ScaleIsKept, WriteComes

\* What a probe that succeeded may conclude.
Concludes(s) ==
  /\ s.probed
  /\ ~s.caps.hardware_range =>
       \/ s.quirks.ddc_broken
       \/ s.caps.raw_capabilities = "Some" /\ ("Brightness" \notin s.monitor.features \/ s.monitor.garbles)
  /\ "InputSource" \in s.caps.features /\ s.quirks.restricted =>
       s.caps.allowed_inputs \subseteq s.quirks.input_source_allowed

ProbeComes(s, c, n) ==
  /\ s \in Controller /\ s.quirks = c.quirks /\ s.monitor = c.monitor
  /\ s.exchanges <= c.exchanges + n
  /\ s.result = "ok" => Concludes(s)

LEMMA FoundConcludes ==
  ASSUME NEW c \in Controller, NEW features \in SUBSET FeatureALL, NEW inputs \in SUBSET Nat,
         NEW raw \in {"None", "Some"},
         \/ "Brightness" \in features
         \/ raw = "Some" /\ ("Brightness" \notin c.monitor.features \/ c.monitor.garbles)
  PROVE  ProbeComes(Found(c, features, inputs, raw), c, 0)
<1> DEFINE s == Found(c, features, inputs, raw)
           allowed == IF ~c.quirks.no_input_switch THEN resolve_allowed_inputs(c.quirks, inputs) ELSE {}
           left == IF ~c.quirks.no_input_switch THEN features ELSE features \ {"InputSource"}
           range == "Brightness" \in features
           caps == [features |-> left, hardware_range |-> range,
                    raw_capabilities |-> raw, allowed_inputs |-> allowed]
<1>1. c.quirks.input_source_allowed \in SUBSET Nat /\ c.exchanges \in Nat
  BY ControllerFields DEF ResolvedQuirks
<1>2. /\ allowed \in SUBSET Nat
      /\ c.quirks.restricted => allowed \subseteq c.quirks.input_source_allowed
  BY <1>1 DEF resolve_allowed_inputs
<1>3. left \in SUBSET FeatureALL
  OBVIOUS
<1>4. s = [c EXCEPT !.result = "ok", !.probed = TRUE, !.caps = caps]
  BY DEF Found
<1> HIDE DEF allowed, left
<1>5. range \in BOOLEAN
  OBVIOUS
<1>6. /\ caps \in Capabilities /\ caps.raw_capabilities = raw
      /\ caps.hardware_range <=> "Brightness" \in features
      /\ caps.allowed_inputs = allowed
  BY <1>2, <1>3, <1>5 DEF Capabilities
<1> HIDE DEF caps, s
<1>7. /\ s \in Controller /\ s.quirks = c.quirks /\ s.monitor = c.monitor /\ s.probed
      /\ s.exchanges = c.exchanges /\ s.caps = caps
  BY <1>4, <1>6 DEF Controller
<1>8. s.exchanges <= c.exchanges + 0
  BY <1>1, <1>7
<1>9. Concludes(s)
  BY <1>2, <1>6, <1>7 DEF Concludes
<1> QED
  BY <1>7, <1>8, <1>9 DEF ProbeComes, s

LEMMA ProbeByReadsComes ==
  ASSUME NEW c \in Controller, c.result = "ok", NEW s \in probe_by_reads(c)
  PROVE  ProbeComes(s, c, 6)
<1> DEFINE brightness == read_retry(c, "Brightness")
           contrast == UNION {read_retry(b, "Contrast") : b \in Succeeded(brightness)}
<1>1. c.exchanges \in Nat /\ "Brightness" \in FeatureALL /\ "Contrast" \in FeatureALL
  BY ControllerFields DEF FeatureALL, Continuous
<1>2. \A b \in brightness :
        b \in Controller /\ Same(b, c) /\ b.monitor = c.monitor /\ b.exchanges \in Nat
          /\ b.exchanges <= c.exchanges + 3
  BY <1>1, ReadTries, ControllerFields DEF Tried, OP_ATTEMPTS
<1>3. ASSUME NEW t \in contrast
      PROVE  t \in Controller /\ Same(t, c) /\ t.monitor = c.monitor /\ t.exchanges \in Nat
               /\ t.exchanges <= c.exchanges + 6
  <2>1. PICK b \in brightness : b.result = "ok" /\ t \in read_retry(b, "Contrast")
    BY <1>3 DEF Succeeded
  <2>2. Tried(t, b) /\ t.monitor = b.monitor /\ t \in Controller /\ t.exchanges \in Nat
    BY <1>1, <1>2, <2>1, ReadTries, ControllerFields DEF Tried
  <2>3. t.exchanges <= c.exchanges + 6
    BY <1>1, <1>2, <2>2 DEF Tried, OP_ATTEMPTS
  <2> QED
    BY <1>2, <2>2, <2>3 DEF Tried, Same
<1>4. \/ s \in Errors(brightness)
      \/ s \in contrast /\ s.result = "Disconnected"
      \/ \E t \in contrast :
           s = Found(t, IF t.result = "ok" THEN Continuous ELSE {"Brightness"}, {}, "None")
  BY DEF probe_by_reads
<1> HIDE DEF brightness, contrast
<1>5. CASE s \in Errors(brightness)
  <2>1. s \in brightness /\ s.result # "ok"
    BY <1>5 DEF Errors, Succeeded
  <2>2. s.exchanges <= c.exchanges + 6
    BY <1>1, <1>2, <2>1
  <2> QED
    BY <1>2, <2>1, <2>2 DEF ProbeComes, Same
<1>6. CASE s \in contrast /\ s.result = "Disconnected"
  BY <1>3, <1>6 DEF ProbeComes, Same
<1>7. CASE \E t \in contrast :
             s = Found(t, IF t.result = "ok" THEN Continuous ELSE {"Brightness"}, {}, "None")
  <2>1. PICK t \in contrast, features \in {Continuous, {"Brightness"}} :
           s = Found(t, features, {}, "None")
    BY <1>7
  <2>2. features \in SUBSET FeatureALL /\ "Brightness" \in features
    BY <2>1 DEF FeatureALL, Continuous
  <2>3. ProbeComes(s, t, 0)
    BY <1>3, <2>1, <2>2, FoundConcludes
  <2>4. s.exchanges \in Nat
    BY <2>3, ControllerFields DEF ProbeComes
  <2>5. s.exchanges <= c.exchanges + 6
    BY <1>1, <1>3, <2>3, <2>4 DEF ProbeComes
  <2> QED
    BY <1>3, <2>3, <2>5 DEF ProbeComes, Same
<1> QED
  BY <1>4, <1>5, <1>6, <1>7

LEMMA ProbeByStringComes ==
  ASSUME NEW c \in Controller, NEW s \in probe_by_string(c)
  PROVE  ProbeComes(s, c, 0)
<1>1. c.monitor.features \in SUBSET FeatureALL /\ c.monitor.inputs \in SUBSET Nat
  BY ControllerFields, Monitors
<1>2. CASE s = Found(c, c.monitor.features, c.monitor.inputs, "Some")
  BY <1>1, <1>2, FoundConcludes
<1>3. CASE c.monitor.garbles /\ s = Found(c, {}, {}, "Some")
  BY <1>3, FoundConcludes
<1> QED
  BY <1>2, <1>3 DEF probe_by_string

LEMMA CapsAttemptsType ==
  ASSUME NEW quirks \in ResolvedQuirks
  PROVE  CapsAttempts(quirks) \in Nat /\ CapsAttempts(quirks) >= 1
<1>1. quirks.caps_retry \in Nat \cup {NoQuirk}
  BY DEF ResolvedQuirks
<1> QED
  BY <1>1 DEF CapsAttempts, NoQuirk, DEFAULT_CAPS_ATTEMPTS

LEMMA ProbeInnerComes ==
  ASSUME NEW c \in Controller, c.result = "ok", NEW s \in probe_inner(c)
  PROVE  ProbeComes(s, c, CapsAttempts(c.quirks) + 6)
<1> DEFINE n == CapsAttempts(c.quirks)
           asked == caps_retry(c)
<1>1. c.exchanges \in Nat /\ n \in Nat /\ n >= 1
  BY ControllerFields, CapsAttemptsType
<1>2. CASE c.quirks.ddc_broken
  <2> DEFINE caps == [features |-> {}, hardware_range |-> FALSE, raw_capabilities |-> "None",
                      allowed_inputs |-> {}]
  <2>1. caps \in Capabilities /\ caps.features = {}
    BY DEF Capabilities
  <2>2. s = [c EXCEPT !.probed = TRUE, !.caps = caps]
    BY <1>2 DEF probe_inner
  <2> HIDE DEF caps
  <2>3. /\ s \in Controller /\ s.quirks = c.quirks /\ s.monitor = c.monitor
        /\ s.exchanges = c.exchanges /\ s.caps = caps /\ s.probed
    BY <2>1, <2>2 DEF Controller
  <2>4. s.exchanges <= c.exchanges + (n + 6)
    BY <1>1, <2>3
  <2>5. Concludes(s)
    BY <1>2, <2>1, <2>3 DEF Concludes
  <2> QED
    BY <2>3, <2>4, <2>5 DEF ProbeComes
<1>3. CASE ~c.quirks.ddc_broken /\ c.quirks.caps_unreliable
  <2>1. ProbeComes(s, c, 6)
    BY <1>3, ProbeByReadsComes DEF probe_inner
  <2>2. s.exchanges \in Nat
    BY <2>1, ControllerFields DEF ProbeComes
  <2>3. s.exchanges <= c.exchanges + (n + 6)
    BY <1>1, <2>1, <2>2 DEF ProbeComes
  <2> QED
    BY <2>1, <2>3 DEF ProbeComes
<1>4. CASE ~c.quirks.ddc_broken /\ ~c.quirks.caps_unreliable
  <2>1. \A a \in asked :
          /\ a \in Controller /\ Same(a, c) /\ a.monitor = c.monitor
          /\ a.exchanges \in Nat /\ a.exchanges <= c.exchanges + n
    BY <1>1, GaveUpType, AnsweredType, ControllerFields DEF caps_retry
  <2>2. \/ s \in asked /\ s.result = "Disconnected"
        \/ \E a \in asked : s \in probe_by_string(a)
        \/ \E a \in asked : s \in probe_by_reads(Fails(a, "ok"))
    BY <1>4 DEF probe_inner, Errors, Succeeded
  <2> HIDE DEF asked
  <2> HIDE DEF n
  <2>3. CASE s \in asked /\ s.result = "Disconnected"
    <3>1. s.exchanges <= c.exchanges + (n + 6)
      BY <1>1, <2>1, <2>3
    <3> QED
      BY <2>1, <2>3, <3>1 DEF ProbeComes, Same, n
  <2>4. CASE \E a \in asked : s \in probe_by_string(a)
    <3>1. PICK a \in asked : s \in probe_by_string(a)
      BY <2>4
    <3>2. ProbeComes(s, a, 0)
      BY <2>1, <3>1, ProbeByStringComes
    <3>3. s.exchanges \in Nat
      BY <3>2, ControllerFields DEF ProbeComes
    <3>4. s.exchanges <= c.exchanges + (n + 6)
      BY <1>1, <2>1, <3>1, <3>2, <3>3 DEF ProbeComes
    <3> QED
      BY <2>1, <3>1, <3>2, <3>4 DEF ProbeComes, Same, n
  <2>5. CASE \E a \in asked : s \in probe_by_reads(Fails(a, "ok"))
    <3>1. PICK a \in asked : s \in probe_by_reads(Fails(a, "ok"))
      BY <2>5
    <3> DEFINE b == Fails(a, "ok")
    <3>2. /\ b \in Controller /\ Same(b, a) /\ b.result = "ok" /\ b.monitor = a.monitor
          /\ b.exchanges = a.exchanges
      BY <2>1, <3>1, FailsType DEF CallResult
    <3> HIDE DEF b
    <3>3. ProbeComes(s, b, 6)
      BY <3>1, <3>2, ProbeByReadsComes DEF b
    <3>4. s.exchanges \in Nat
      BY <3>3, ControllerFields DEF ProbeComes
    <3>5. s.exchanges <= c.exchanges + (n + 6)
      BY <1>1, <2>1, <3>1, <3>2, <3>3, <3>4 DEF ProbeComes
    <3> QED
      BY <2>1, <3>1, <3>2, <3>3, <3>5 DEF ProbeComes, Same, n
  <2> QED
    BY <2>2, <2>3, <2>4, <2>5
<1> QED
  BY <1>2, <1>3, <1>4

LEMMA ProbeMakes ==
  ASSUME NEW c \in Controller, NEW s \in probe(c)
  PROVE  /\ s \in Controller /\ s.monitor = c.monitor /\ s.quirks = c.quirks
         /\ s.exchanges <= CapsAttempts(c.quirks) + 6
         /\ s.result = "ok" => Concludes(s)
<1>1. /\ Begin(c) \in Controller /\ Same(Begin(c), c) /\ Begin(c).result = "ok"
      /\ Begin(c).exchanges = 0 /\ Begin(c).monitor = c.monitor
  BY BeginType
<1>2. ProbeComes(s, Begin(c), CapsAttempts(c.quirks) + 6)
  BY <1>1, ProbeInnerComes DEF probe, Same
<1>3. CapsAttempts(c.quirks) \in Nat
  BY ControllerFields, CapsAttemptsType
<1>4. 0 + (CapsAttempts(c.quirks) + 6) = CapsAttempts(c.quirks) + 6
  BY <1>3
<1> QED
  BY <1>1, <1>2, <1>4 DEF ProbeComes, Same

\* Writing an input that is permitted takes at least one exchange.
LEMMA InputWrites ==
  ASSUME NEW c \in Controller, NEW v \in Nat, NEW s \in set(c, "InputSource", v)
  PROVE  /\ s.exchanges \in Nat /\ s.exchanges <= 3
         /\ ~known_unsupported(c, "InputSource") /\ Permitted(c, v) => s.exchanges > 0
<1>1. /\ Begin(c) \in Controller /\ Same(Begin(c), c) /\ Begin(c).result = "ok"
      /\ Begin(c).exchanges = 0
  BY BeginType
<1>2. CASE known_unsupported(c, "InputSource")
  BY <1>1, <1>2, FailsType DEF set, CallResult
<1>3. CASE ~known_unsupported(c, "InputSource")
  <2>1. s \in set_input_source(Begin(c), v) /\ (Permitted(Begin(c), v) <=> Permitted(c, v))
    BY <1>1, <1>3 DEF set, Continuous, Permitted, Same
  <2>2. CASE ~Permitted(c, v)
    BY <1>1, <2>1, <2>2, FailsType DEF set_input_source, CallResult, TransportError
  <2>3. CASE Permitted(c, v)
    <3>1. s \in write_retry(Begin(c), "InputSource", v) /\ "InputSource" \in FeatureALL
      BY <2>1, <2>3 DEF set_input_source, FeatureALL
    <3>2. Tried(s, Begin(c)) /\ s.exchanges \in Nat
      BY <1>1, <3>1, WriteTries, ControllerFields DEF Tried
    <3> QED
      BY <1>1, <3>2 DEF Tried, OP_ATTEMPTS
  <2> QED
    BY <2>2, <2>3
<1> QED
  BY <1>2, <1>3

\* A call makes a bounded number of exchanges, however the monitor behaves:
\* 3 for get, 21 for set, 6 more than the capability attempts for probe.
THEOREM TrafficIsBounded ==
  ASSUME NEW c \in Controller, NEW f \in FeatureALL, NEW v \in Nat
  PROVE  ExchangesAreBounded(c, f, v)
<1>1. \A s \in get(c, f) : s.exchanges <= OP_ATTEMPTS
  BY GetComes DEF OP_ATTEMPTS
<1>2. ASSUME NEW s \in set(c, f, v)
      PROVE  s.exchanges <= (1 + 2 * VERIFY_ATTEMPTS) * OP_ATTEMPTS
  <2>1. (1 + 2 * VERIFY_ATTEMPTS) * OP_ATTEMPTS = 21
    BY DEF VERIFY_ATTEMPTS, OP_ATTEMPTS
  <2>2. CASE f \in Continuous
    BY <1>2, <2>1, <2>2, SetComes DEF WriteComes
  <2>3. CASE f \notin Continuous
    <3>1. f = "InputSource"
      BY <2>3 DEF FeatureALL
    <3>2. s.exchanges \in Nat /\ s.exchanges <= 3
      BY <1>2, <3>1, InputWrites
    <3> QED
      BY <2>1, <3>2
  <2> QED
    BY <2>2, <2>3
<1>3. \A s \in probe(c) : s.exchanges <= CapsAttempts(c.quirks) + 2 * OP_ATTEMPTS
  BY ProbeMakes DEF OP_ATTEMPTS
<1> QED
  BY <1>1, <1>2, <1>3 DEF ExchangesAreBounded

\* A probe says a monitor has no brightness range only if a quirk says so or a
\* capability string was read that does not list it, never because reads failed.
THEOREM VerdictsArePositive ==
  ASSUME NEW c \in Controller
  PROVE  VerdictIsPositive(c)
BY ProbeMakes DEF VerdictIsPositive, Concludes

\* Writing an input that a probe offers reaches the bus: the list offered and
\* the list permitted agree, whatever the quirks and the capability string say.
THEOREM OfferedInputsReachTheBus ==
  ASSUME NEW c \in Controller
  PROVE  OfferedInputsAreWritten(c)
<1> SUFFICES ASSUME NEW s \in probe(c), s.result = "ok", "InputSource" \in s.caps.features,
                    NEW v \in s.caps.allowed_inputs, NEW t \in set(s, "InputSource", v)
             PROVE  t.exchanges > 0
  BY DEF OfferedInputsAreWritten
<1>1. s \in Controller /\ Concludes(s)
  BY ProbeMakes
<1>2. v \in Nat
  BY <1>1, ControllerFields DEF Capabilities
<1>3. ~known_unsupported(s, "InputSource") /\ Permitted(s, v)
  BY <1>1 DEF known_unsupported, Concludes, Permitted
<1> QED
  BY <1>1, <1>2, <1>3, InputWrites

-----------------------------------------------------------------------------
(* The worker's driver.                                                    *)

\* Once the maximum in force is the panel's, the controller does to the panel
\* what module Worker assumes of a driver: a brightness write, however it ends,
\* leaves it alone or at the clamped level, and the maximum stays in force.
DrivesPanel(c, d, raw) ==
  MaxKnown(c, "Brightness") /\ Maximum(c, "Brightness") = PanelMax[d] =>
    \A s \in set(c, "Brightness", raw) :
      /\ MaxKnown(s, "Brightness") /\ Maximum(s, "Brightness") = PanelMax[d]
      /\ s.monitor.value["Brightness"] \in {c.monitor.value["Brightness"], Clamped(d, raw)}

\* A DDC controller is a driver in the sense of module Worker, for every display.
THEOREM ControllersAreDrivers ==
  ASSUME NEW c \in Controller, NEW d \in Displays, NEW raw \in Nat
  PROVE  DrivesPanel(c, d, raw)
<1> DEFINE f == "Brightness"
<1> SUFFICES ASSUME MaxKnown(c, f), Maximum(c, f) = PanelMax[d], NEW s \in set(c, f, raw)
             PROVE  /\ MaxKnown(s, f) /\ Maximum(s, f) = PanelMax[d]
                    /\ s.monitor.value[f] \in {c.monitor.value[f], Clamped(d, raw)}
  BY DEF DrivesPanel
<1>1. f \in Continuous /\ f \in FeatureALL
  BY DEF Continuous, FeatureALL
<1> HIDE DEF f
<1>2. WriteComes(s, c, f, raw)
  BY <1>1, SetComes
<1>3. Maximum(s, f) = PanelMax[d] /\ Same(s, c) /\ s \in Controller
  BY <1>2 DEF WriteComes
<1>4. MaxKnown(s, f)
  BY <1>1, <1>3 DEF MaxKnown, Maximum, Overridden, Same
<1>5. AtMost(raw, PanelMax[d]) = Clamped(d, raw) /\ Clamped(d, raw) \in Nat
  BY WorkerAssumption DEF AtMost, Clamped
<1>6. c.monitor \in Monitor
  BY ControllerFields
<1>7. Put(c.monitor, f, Clamped(d, raw)).value[f] = Clamped(d, raw)
  BY <1>1, <1>5, <1>6, PutType
<1>8. s.monitor.value[f] \in {c.monitor.value[f], Clamped(d, raw)}
  BY <1>2, <1>3, <1>5, <1>7 DEF WriteComes, Puts
<1> QED
  BY <1>3, <1>4, <1>8

-----------------------------------------------------------------------------
(* The calls the workers really make.  They ask a driver for nothing but   *)
(* what was picked, set or there at the start (NoValueIsMadeUp), and the   *)
(* driver keeps its promises for each of those.                            *)

LEMMA DriversAreControllers ==
  ASSUME NEW raw \in Nat, NEW c \in Drivers(raw)
  PROVE  c \in Controller
<1>1. PICK quirks \in SomeQuirks, monitor \in SomeMonitors(raw) : c = NewController(quirks, monitor)
  BY DEF Drivers
<1>2. quirks \in ResolvedQuirks
  <2>1. {17} \in SUBSET Nat /\ 0 \in Nat \cup {NoQuirk} /\ {NoQuirk, 50} \subseteq Nat \cup {NoQuirk}
    OBVIOUS
  <2> QED
    BY <2>1 DEF SomeQuirks, ResolvedQuirks
<1>3. monitor \in Monitor
  <2>1. [f \in FeatureALL |-> raw] \in [FeatureALL -> Nat] /\ {0, 100} \in SUBSET Nat
    OBVIOUS
  <2>2. {"Contrast"} \in SUBSET FeatureALL /\ {15, 17} \in SUBSET Nat
    BY DEF FeatureALL, Continuous
  <2> QED
    BY <2>1, <2>2 DEF SomeMonitors, Monitor
<1> QED
  BY <1>1, <1>2, <1>3
     DEF NewController, Controller, Capabilities, VcpReading, NotCached, FeatureALL

LEMMA CallsAreKnown ==
  ASSUME OriginsInRange, OriginInv
  PROVE  /\ CallsUnderWay \subseteq Calls /\ Raws \subseteq Nat
         /\ \A w \in Workers : panel[w[1]] \in Raws
<1>1. Raws = Origins
  BY DEF Raws, Origins
<1>2. \A w \in Workers : panel[w[1]] \in Raws
  BY <1>1 DEF OriginInv, Workers
<1>3. ASSUME NEW w \in Workers, At(w, "writing"), local[w].feature = "Brightness"
      PROVE  Call(w) \in Calls
  <2>1. local[w].write.raw \in Raws
    BY <1>1, <1>3 DEF OriginInv, AsksOrigins, IsWriting, At
  <2> QED
    BY <1>2, <2>1 DEF Call, Calls
<1> QED
  BY <1>1, <1>2, <1>3 DEF CallsUnderWay, OriginsInRange

\* Whenever a worker writes a brightness, a driver that verifies its writes
\* and reports success leaves the panel where it was asked to be.
THEOREM WritesUnderWayVerify == OriginsInRange => (Spec => []DriversVerify)
<1> SUFFICES ASSUME OriginsInRange PROVE Spec => []DriversVerify
  OBVIOUS
<1>1. OriginInv => DriversVerify
  <2> SUFFICES ASSUME OriginInv, NEW call \in CallsUnderWay PROVE call \in VerifiedCalls
    BY DEF DriversVerify
  <2>1. call \in Calls /\ call[1] \in Nat /\ call[2] \in Nat
    BY CallsAreKnown DEF Calls
  <2>2. ASSUME NEW c \in Writers(call[1])
        PROVE  VerifiedWriteSticks(c, "Brightness", call[2])
    <3>1. c \in Controller
      BY <2>1, DriversAreControllers DEF Writers
    <3> QED
      BY <2>1, <3>1, VerifiedWritesStick DEF Continuous
  <2> QED
    BY <2>1, <2>2 DEF VerifiedCalls
<1>2. Spec => []OriginInv
  BY NoValueIsMadeUp
<1> QED
  BY <1>1, <1>2, PTL

\* Whenever a worker writes a brightness, its driver would clamp the write to
\* the very maximum its last reading reported.
THEOREM WritesUnderWayKeepScale == OriginsInRange => (Spec => []DriversKeepScale)
<1> SUFFICES ASSUME OriginsInRange PROVE Spec => []DriversKeepScale
  OBVIOUS
<1>1. OriginInv => DriversKeepScale
  <2> SUFFICES ASSUME OriginInv, NEW call \in CallsUnderWay PROVE call \in ScaledCalls
    BY DEF DriversKeepScale
  <2>1. call \in Calls /\ call[1] \in Nat /\ call[2] \in Nat
    BY CallsAreKnown DEF Calls
  <2>2. ASSUME NEW c \in Writers(call[1])
        PROVE  ScaleIsKept(c, "Brightness", call[2])
    <3>1. c \in Controller
      BY <2>1, DriversAreControllers DEF Writers
    <3> QED
      BY <2>1, <3>1, ScalesAreKept DEF Continuous
  <2> QED
    BY <2>1, <2>2 DEF ScaledCalls
<1>2. Spec => []OriginInv
  BY NoValueIsMadeUp
<1> QED
  BY <1>1, <1>2, PTL

\* Whenever a worker opens its controller, wherever the panel is by then, a
\* verdict of "no brightness range" rests on evidence, never on silence.
THEOREM OpeningsNeedEvidence == OriginsInRange => (Spec => []ProbesNeedEvidence)
<1> SUFFICES ASSUME OriginsInRange PROVE Spec => []ProbesNeedEvidence
  OBVIOUS
<1>1. OriginInv => ProbesNeedEvidence
  <2> SUFFICES ASSUME OriginInv, NEW w \in Workers PROVE panel[w[1]] \in ProbedRaws
    BY DEF ProbesNeedEvidence
  <2>1. panel[w[1]] \in Raws /\ panel[w[1]] \in Nat
    BY CallsAreKnown
  <2>2. ASSUME NEW c \in Drivers(panel[w[1]]) PROVE VerdictIsPositive(c)
    BY <2>1, DriversAreControllers, VerdictsArePositive
  <2> QED
    BY <2>1, <2>2 DEF ProbedRaws
<1>2. Spec => []OriginInv
  BY NoValueIsMadeUp
<1> QED
  BY <1>1, <1>2, PTL

=============================================================================
