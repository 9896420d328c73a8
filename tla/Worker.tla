------------------------------- MODULE Worker -------------------------------
(***************************************************************************)
(* A per-monitor worker thread (crates/duja-app/src/worker.rs): it opens   *)
(* its controller, then loops over waiting, draining the command channel,  *)
(* reading, and writing the newest value per feature no more often than    *)
(* the minimum gap allows.                                                 *)
(*                                                                         *)
(* A driver call takes effect and returns in one step, as late as it       *)
(* likes; a call that hangs may return much later or never.  A thread      *)
(* between loading the retired flag and entering the driver is already     *)
(* "in the call" here: nothing it does in between can be seen.             *)
(***************************************************************************)
EXTENDS Protocol, FiniteSets

CONSTANTS
  Faults,       \* what the drivers and the panels may do, see below
  PanelMax,     \* the probed brightness maximum of each panel
  PanelStart,   \* the raw brightness each panel starts at
  OutsideLevels \* raw values someone else may set a panel to

FaultKinds ==
  {"hang",            \* a driver call may never return
   "open fails",      \* the opener returns None
   "no range",        \* the probe reports no hardware brightness range
   "panic",           \* a driver call panics
   "read fails",      \* a read returns an error
   "write timeout",   \* a write returns Timeout or Disconnected
   "write refused",   \* a write returns Unsupported or Backend
   "write lost",      \* a write succeeds and the panel does not move
   "outside"}         \* the panel's own buttons, or another program

ASSUME WorkerAssumption ==
  /\ Faults \subseteq FaultKinds
  /\ PanelMax \in [Displays -> Nat] /\ PanelStart \in [Displays -> Nat]
  /\ OutsideLevels \subseteq Nat

BRIGHTNESS_VERIFY_TOLERANCE == 2
BRIGHTNESS_VERIFY_ATTEMPTS  == 3

VARIABLES
  local,      \* the locals of each worker's loop
  hung,       \* workers whose driver call may never return
  panel,      \* raw brightness of each panel
  late,       \* history: writes that landed after the worker was retired
  disturbed   \* history: the panel was changed, or kept from changing, by
              \* anything but the registered worker's successful writes, or
              \* its driver denied that it has a brightness range

workerVars == <<local, hung, panel, late, disturbed>>

NotRead   == -1
NoPending == [raw |-> 0, seq |-> NoSeq]
Pending   == [raw : Nat, seq : Nat]

Locals ==
  [pc : {"opening", "parked", "reading", "writing", "verifying"},
   latest : [Feature -> Pending],      \* newest queued write per feature
   hot : SUBSET Feature,               \* written less than min_gap ago
   gets : SUBSET Nat,                  \* reads to perform this round, by number
   ready : SUBSET Feature,             \* writes left in this round
   feature : Feature, write : Pending, \* the write under way
   known : Int, settled : BOOLEAN,     \* Verify
   before : Int, attempt : Nat, noop : BOOLEAN]   \* verify_first_write

NewLocals ==
  [pc |-> "opening", latest |-> [f \in Feature |-> NoPending], hot |-> {},
   gets |-> {}, ready |-> {}, feature |-> "Brightness", write |-> NoPending,
   known |-> NotRead, settled |-> FALSE, before |-> NotRead, attempt |-> 0,
   noop |-> FALSE]

WorkerTypeOK ==
  /\ local \in [Workers -> Locals]
  /\ hung \in SUBSET Workers
  /\ panel \in [Displays -> Nat]
  /\ late \in [Workers -> Nat]
  /\ disturbed \in SUBSET Displays

WorkerInit ==
  /\ local = [w \in Workers |-> NewLocals]
  /\ hung = {}
  /\ panel = PanelStart
  /\ late = [w \in Workers |-> 0]
  /\ disturbed = {}

-----------------------------------------------------------------------------

At(w, pc) == thread[w] = "running" /\ local[w].pc = pc

Become(w, l) == local' = [local EXCEPT ![w] = l]

\* The thread returns: its receiver goes with it, and its locals.
Exit(w) ==
  /\ thread' = [thread EXCEPT ![w] = "exited"]
  /\ inbox' = [inbox EXCEPT ![w] = <<>>]
  /\ Become(w, NewLocals)

Stay == UNCHANGED <<thread, inbox>>

Send(messages) == acks' = acks \o messages

WorkerFrame == UNCHANGED <<retired, panel, late, disturbed>>

Queued(l) == {f \in Feature : l.latest[f] # NoPending}

\* Seeded bug: the write is copied out of the queue instead of removed.
NextWriteKeeping(l) ==
  IF l.ready = {}
    THEN [NewLocals EXCEPT !.pc = "parked", !.latest = l.latest, !.hot = l.hot,
                           !.known = l.known, !.settled = l.settled]
    ELSE LET f == IF "Brightness" \in l.ready THEN "Brightness" ELSE "InputSource"
         IN [l EXCEPT !.pc = "writing", !.ready = @ \ {f}, !.feature = f,
                      !.write = l.latest[f]]

\* The next write of this round, in feature order, or back to waiting.
NextWrite(l) ==
  IF l.ready = {}
    THEN [NewLocals EXCEPT !.pc = "parked", !.latest = l.latest, !.hot = l.hot,
                           !.known = l.known, !.settled = l.settled]
    ELSE LET f == IF "Brightness" \in l.ready THEN "Brightness" ELSE "InputSource"
         IN [l EXCEPT !.pc = "writing", !.ready = @ \ {f}, !.feature = f,
                      !.write = l.latest[f], !.latest[f] = NoPending]

\* The write under way is done with: its gap starts, the round goes on.
WriteDone(l) ==
  NextWrite([l EXCEPT !.hot = @ \cup {l.feature}, !.before = NotRead,
                      !.attempt = 0, !.noop = FALSE])

Distant(a, b) == a - b > BRIGHTNESS_VERIFY_TOLERANCE \/ b - a > BRIGHTNESS_VERIFY_TOLERANCE

\* The panel neither reached the target nor moved from where it was.
is_silent_noop(before, target, after) ==
  Distant(after, target) /\ ~Distant(after, before)

-----------------------------------------------------------------------------
(* Opening, and waiting for something to do.                               *)

OpenFails(w) ==
  /\ At(w, "opening") /\ "open fails" \in Faults
  /\ Send(<<OpenFailed(w)>>)
  /\ Exit(w)
  /\ WorkerFrame

\* The probe settles the question when it finds no brightness range.
Open(w) ==
  /\ At(w, "opening")
  /\ \E has_range \in IF "no range" \in Faults THEN BOOLEAN ELSE {TRUE} :
       /\ Become(w, [NewLocals EXCEPT !.pc = "parked", !.settled = ~has_range])
       /\ Send(IF has_range THEN <<>> ELSE <<SoftwareFallback(w)>>)
       /\ disturbed' = IF has_range THEN disturbed ELSE disturbed \cup {w[1]}
  /\ Stay /\ UNCHANGED <<retired, panel, late>>

\* Seeded bug: the first value queued wins.
Oldest(f, queue, old) ==
  LET sets  == {i \in DOMAIN queue : queue[i].op = f}
      first == CHOOSE i \in sets : \A j \in sets : i <= j
  IN
  IF old # NoPending \/ sets = {} THEN old
  ELSE [raw |-> queue[first].raw, seq |-> queue[first].seq]

\* The last Set(f) of the channel, or what was queued.
Newest(f, queue, old) ==
  LET sets == {i \in DOMAIN queue : queue[i].op = f}
      last == CHOOSE i \in sets : \A j \in sets : j <= i
  IN
  IF sets = {} THEN old ELSE [raw |-> queue[last].raw, seq |-> queue[last].seq]

\* Receive a command and drain the rest.  A Shutdown anywhere drops the lot.
Absorb(w) ==
  /\ At(w, "parked") /\ inbox[w] # <<>>
  /\ IF \E i \in 1 .. Len(inbox[w]) : inbox[w][i] = ShutdownCommand
       THEN Exit(w)
       ELSE LET gets == {i \in DOMAIN inbox[w] : inbox[w][i].op = "Get"} IN
            /\ Become(w, [local[w] EXCEPT
                 !.pc = "reading",
                 !.latest = [f \in Feature |-> Newest(f, inbox[w], @[f])],
                 !.gets = {inbox[w][i].seq : i \in gets}])
            /\ inbox' = [inbox EXCEPT ![w] = <<>>]
            /\ UNCHANGED thread
  /\ UNCHANGED acks /\ WorkerFrame

\* recv_timeout expires: the gap of a queued write is over.
GapElapses(w) ==
  /\ At(w, "parked") /\ inbox[w] = <<>>
  /\ \E f \in Queued(local[w]) :
       Become(w, [local[w] EXCEPT !.pc = "reading", !.hot = @ \ {f}])
  /\ Stay /\ UNCHANGED acks /\ WorkerFrame

\* Seeded bug: the worker holds a sender of its own, so it never sees the end.
NeverDisconnected(w) == FALSE

\* The handle was dropped: the channel is disconnected, queued writes are lost.
Disconnected(w) ==
  /\ At(w, "parked") /\ inbox[w] = <<>> /\ retired[w]
  /\ Exit(w)
  /\ UNCHANGED acks /\ WorkerFrame

-----------------------------------------------------------------------------
(* Reads.                                                                  *)

\* After each read the worker leaves at once if it was retired meanwhile.
ReadReturns(w, message, l) ==
  /\ Send(<<message>>)
  /\ IF retired[w] THEN Exit(w) ELSE Become(w, l) /\ Stay

\* The read numbered s.
PerformGet(w, s) ==
  LET l    == local[w]
      rest == [l EXCEPT !.gets = @ \ {s}]
  IN
  \/ ReadReturns(w, GetAck(w, s, panel[w[1]], PanelMax[w[1]]),
                 [rest EXCEPT !.known = IF l.settled THEN @ ELSE panel[w[1]]])
  \/ "read fails" \in Faults /\ ReadReturns(w, GetFailed(w, s), rest)
  \/ "panic" \in Faults /\ Send(<<Panicked(w, "Get", s)>>) /\ Exit(w)

\* They came, and are performed, in the order of their numbers.
PerformRead(w) ==
  /\ At(w, "reading")
  /\ \E s \in local[w].gets : (\A t \in local[w].gets : s <= t) /\ PerformGet(w, s)
  /\ WorkerFrame

-----------------------------------------------------------------------------
(* Writes.                                                                 *)

\* No write starts once the worker is retired; the gaps of some features may
\* have run out since they were last looked at.
BeginWrites(w) ==
  /\ At(w, "reading") /\ local[w].gets = {}
  /\ IF retired[w]
       THEN Exit(w)
       ELSE \E still_hot \in SUBSET local[w].hot :
              /\ Become(w, NextWrite([local[w] EXCEPT
                   !.hot = still_hot, !.ready = Queued(local[w]) \ still_hot]))
              /\ Stay
  /\ UNCHANGED acks /\ WorkerFrame

WriteResult ==
  {"ok"} \cup (Faults \cap {"write timeout", "write refused", "write lost", "panic"})

\* Every controller clamps what it is asked to the panel's maximum.
Clamped(d, raw) == IF raw <= PanelMax[d] THEN raw ELSE PanelMax[d]

\* What the call did to the panel: a write that failed may have landed, on one
\* of the driver's attempts or unacknowledged.
Lands(w, result) ==
  /\ \/ /\ result \in {"ok", "write timeout", "write refused"}
        /\ local[w].feature = "Brightness"
        /\ panel' = [panel EXCEPT ![w[1]] = Clamped(w[1], local[w].write.raw)]
     \/ /\ result # "ok" \/ local[w].feature # "Brightness"
        /\ panel' = panel
  /\ late' = [late EXCEPT ![w] = @ + (IF retired[w] THEN 1 ELSE 0)]
  /\ disturbed' = IF local[w].feature = "Brightness" /\ (result # "ok" \/ retired[w])
                    THEN disturbed \cup {w[1]} ELSE disturbed
  /\ UNCHANGED retired

\* check_first_write: what a successful write means to a worker that has not
\* settled whether the panel has working brightness control.
Diagnostic(l) ==
  /\ ~l.settled /\ l.feature = "Brightness"
  /\ l.known # NotRead /\ Distant(l.known, l.write.raw)

\* Seeded bugs: no look at the flag after the call, and no ack for a write the
\* backend rejected.
FinishWriteUnchecked(w) ==
  /\ At(w, "writing")
  /\ Lands(w, "ok")
  /\ Send(<<SetAck(w, local[w].feature, local[w].write.seq)>>)
  /\ Become(w, WriteDone(local[w]))
  /\ Stay
FinishWriteAckingSuccess(w) ==
  /\ At(w, "writing")
  /\ \E result \in {"ok", "write refused"} :
       /\ Lands(w, result)
       /\ Send(IF result = "ok"
                 THEN <<SetAck(w, local[w].feature, local[w].write.seq)>> ELSE <<>>)
       /\ IF retired[w] THEN Exit(w) ELSE Become(w, WriteDone(local[w])) /\ Stay

\* The Set is acked whatever came of it.
FinishWrite(w) ==
  LET l    == local[w]
      done == SetAck(w, l.feature, l.write.seq)
  IN
  /\ At(w, "writing")
  /\ \E result \in WriteResult :
       /\ Lands(w, result)
       /\ CASE result = "panic" ->
                 Send(<<Panicked(w, l.feature, l.write.seq)>>) /\ Exit(w)
            [] result # "panic" /\ retired[w] ->
                 Send(<<done>>) /\ Exit(w)
            [] result \in {"ok", "write lost"} /\ ~retired[w] ->
                 /\ Send(<<done>>)
                 /\ Become(w, IF Diagnostic(l)
                                THEN [l EXCEPT !.pc = "verifying", !.before = l.known]
                                ELSE WriteDone(l))
                 /\ Stay
            [] result = "write refused" /\ ~retired[w] ->
                 LET proof == ~l.settled /\ l.feature = "Brightness" IN
                 /\ Send(IF proof THEN <<done, SoftwareFallback(w)>> ELSE <<done>>)
                 /\ Become(w, WriteDone([l EXCEPT !.settled = @ \/ proof]))
                 /\ Stay
            [] result = "write timeout" /\ ~retired[w] ->
                 Send(<<done>>) /\ Become(w, WriteDone(l)) /\ Stay

-----------------------------------------------------------------------------
(* verify_first_write: read the panel back after its first effective write. *)

\* The verification of a retired worker is moot: it returns without a verdict,
\* and the round goes on to the next write.
VerifyMoot(w) ==
  /\ At(w, "verifying") /\ retired[w]
  /\ Become(w, WriteDone(local[w]))
  /\ Stay /\ UNCHANGED acks /\ WorkerFrame

\* Seeded bug: a single failed read-back counts as a panel that did not move.
VerifyReadOnce(w) ==
  /\ At(w, "verifying") /\ ~retired[w]
  /\ "read fails" \in Faults
  /\ Send(<<SoftwareFallback(w)>>)
  /\ Become(w, WriteDone([local[w] EXCEPT !.settled = TRUE]))
  /\ Stay /\ WorkerFrame

\* One attempt; a failed or panicking read decides nothing.
VerifyRead(w) ==
  LET l     == local[w]
      after == panel[w[1]]
      last  == l.attempt + 1 = BRIGHTNESS_VERIFY_ATTEMPTS
      Attempted(l2) ==
        IF ~last THEN Become(w, [l2 EXCEPT !.attempt = @ + 1]) /\ Send(<<>>)
        ELSE /\ Send(IF l2.noop THEN <<SoftwareFallback(w)>> ELSE <<>>)
             /\ Become(w, WriteDone([l2 EXCEPT !.settled = l2.noop]))
  IN
  /\ At(w, "verifying") /\ ~retired[w]
  /\ \/ /\ is_silent_noop(l.before, l.write.raw, after)
        /\ Attempted([l EXCEPT !.known = after, !.noop = TRUE])
     \/ /\ ~is_silent_noop(l.before, l.write.raw, after)
        /\ Become(w, WriteDone([l EXCEPT !.known = after, !.settled = TRUE]))
        /\ Send(<<>>)
     \/ /\ Faults \cap {"read fails", "panic"} # {}
        /\ Attempted(l)
  /\ Stay /\ WorkerFrame

-----------------------------------------------------------------------------

\* Someone else changes the panel's brightness.  Once per panel is enough.
OutsideChange(d) ==
  /\ "outside" \in Faults /\ d \notin disturbed
  /\ \E raw \in OutsideLevels \ {panel[d]} : panel' = [panel EXCEPT ![d] = raw]
  /\ disturbed' = disturbed \cup {d}
  /\ UNCHANGED <<channels, local, hung, late>>

\* A call of the driver is under way: the open, a read, a write, a read-back.
InDriver(w) ==
  \/ At(w, "opening") \/ At(w, "writing") \/ At(w, "verifying")
  \/ At(w, "reading") /\ local[w].gets # {}

Hang(w) ==
  /\ "hang" \in Faults /\ w \notin hung /\ InDriver(w)
  /\ hung' = hung \cup {w}
  /\ UNCHANGED <<channels, local, panel, late, disturbed>>

Starts(w)   == Open(w) \/ OpenFails(w)
Waits(w)    == Absorb(w) \/ GapElapses(w) \/ Disconnected(w)
Performs(w) == PerformRead(w) \/ BeginWrites(w) \/ FinishWrite(w)
Verifies(w) == VerifyMoot(w) \/ VerifyRead(w)

WorkerStep(w) ==
  /\ Starts(w) \/ Waits(w) \/ Performs(w) \/ Verifies(w)
  /\ hung' = hung \ {w}

WorkerNext ==
  \/ \E w \in Workers : WorkerStep(w) \/ Hang(w)
  \/ \E d \in Displays : OutsideChange(d)

=============================================================================
