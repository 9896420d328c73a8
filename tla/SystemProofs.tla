---------------------------- MODULE SystemProofs ----------------------------
(***************************************************************************)
(* The engine and its real workers together, proved for every set of       *)
(* displays, every bound and every combination of driver faults.           *)
(***************************************************************************)
EXTENDS EngineSystem, EngineProofs, NaturalsInduction, WellFoundedInduction

-----------------------------------------------------------------------------
(* Types.                                                                  *)

LEMMA AckTypes ==
  ASSUME NEW w \in Workers, NEW s \in Nat, NEW key \in InflightKey,
         NEW current \in Nat, NEW max \in Nat
  PROVE  /\ SetAck(w, key, s) \in WorkerAck /\ Panicked(w, key, s) \in WorkerAck
         /\ OpenFailed(w) \in WorkerAck /\ SoftwareFallback(w) \in WorkerAck
         /\ GetFailed(w, s) \in WorkerAck /\ GetAck(w, s, current, max) \in WorkerAck
BY DEF SetAck, Panicked, OpenFailed, SoftwareFallback, GetFailed, GetAck, Ack, WorkerAck,
       Workers, InflightKey, Feature, NoSeq

LEMMA NewLocalsType == NewLocals \in Locals
BY DEF NewLocals, Locals, Feature, NoPending, Pending, NoSeq, NotRead

LEMMA LocalsFields ==
  ASSUME NEW l \in Locals
  PROVE  /\ l.pc \in {"opening", "parked", "reading", "writing", "verifying"}
         /\ l.latest \in [Feature -> Pending] /\ l.hot \in SUBSET Feature
         /\ l.gets \in SUBSET Nat /\ l.ready \in SUBSET Feature
         /\ l.feature \in Feature /\ l.write \in Pending
         /\ l.known \in Int /\ l.settled \in BOOLEAN
         /\ l.before \in Int /\ l.attempt \in Nat /\ l.noop \in BOOLEAN
BY DEF Locals

LEMMA PendingType ==
  /\ NoPending \in Pending
  /\ \A p \in Pending : p.raw \in Nat /\ p.seq \in Nat
BY DEF NoPending, Pending, NoSeq

LEMMA NextWriteType ==
  ASSUME NEW l \in Locals
  PROVE  NextWrite(l) \in Locals
<1>1. CASE l.ready = {}
  <2>1. /\ l.latest \in [Feature -> Pending] /\ l.hot \in SUBSET Feature
        /\ l.known \in Int /\ l.settled \in BOOLEAN
    BY LocalsFields
  <2>2. NextWrite(l) = [NewLocals EXCEPT !.pc = "parked", !.latest = l.latest, !.hot = l.hot,
                                         !.known = l.known, !.settled = l.settled]
    BY <1>1 DEF NextWrite
  <2> QED
    BY <2>1, <2>2, NewLocalsType DEF Locals
<1>2. CASE l.ready # {}
  <2>1. PICK f \in Feature :
          NextWrite(l) = [l EXCEPT !.pc = "writing", !.ready = @ \ {f}, !.feature = f,
                                   !.write = l.latest[f], !.latest[f] = NoPending]
    BY <1>2 DEF NextWrite, Feature
  <2> DEFINE latest == [l.latest EXCEPT ![f] = NoPending]
             ready  == l.ready \ {f}
             write  == l.latest[f]
  <2>2. latest \in [Feature -> Pending] /\ ready \in SUBSET Feature /\ write \in Pending
    BY LocalsFields, PendingType
  <2>3. NextWrite(l) = [l EXCEPT !.pc = "writing", !.ready = ready, !.feature = f,
                                 !.write = write, !.latest = latest]
    BY <2>1, Zenon DEF Locals
  <2> HIDE DEF latest, ready, write
  <2> QED
    BY <2>2, <2>3 DEF Locals
<1> QED
  BY <1>1, <1>2

LEMMA WriteDoneType ==
  ASSUME NEW l \in Locals
  PROVE  WriteDone(l) \in Locals
<1> DEFINE hot == l.hot \cup {l.feature}
           m   == [l EXCEPT !.hot = hot, !.before = NotRead, !.attempt = 0, !.noop = FALSE]
<1>1. hot \in SUBSET Feature
  BY LocalsFields
<1>2. m \in Locals
  <2> DEFINE n == [l EXCEPT !.hot = hot, !.noop = FALSE]
  <2>1. n \in Locals
    <3> HIDE DEF hot
    <3> QED
      BY <1>1 DEF Locals
  <2>2. m = [n EXCEPT !.before = NotRead, !.attempt = 0]
    BY DEF Locals
  <2>3. NotRead \in Int
    BY DEF NotRead
  <2> HIDE DEF n, m
  <2> QED
    BY <2>1, <2>2, <2>3 DEF Locals
<1> QED
  BY <1>2, NextWriteType, Zenon DEF WriteDone

\* The last Set of a feature in a channel, or the write queued before it.
LEMMA NewestIsLast ==
  ASSUME NEW q \in Seq(WorkerCommand), NEW f \in Feature, NEW old,
         NEW i \in DOMAIN q, q[i].op = f, \A j \in DOMAIN q : q[j].op = f => j <= i
  PROVE  Newest(f, q, old) = [raw |-> q[i].raw, seq |-> q[i].seq]
<1> DEFINE sets == {j \in DOMAIN q : q[j].op = f}
           last == CHOOSE k \in sets : \A j \in sets : j <= k
<1>1. i \in sets /\ \A j \in sets : j <= i
  OBVIOUS
<1>2. last \in sets /\ \A j \in sets : j <= last
  <2> HIDE DEF sets
  <2> QED
    BY <1>1
<1>3. last = i
  <2>1. last <= i /\ i <= last /\ i \in Int /\ last \in Int
    BY <1>1, <1>2
  <2> HIDE DEF last
  <2> QED
    BY <2>1
<1>4. sets # {}
  BY <1>1
<1> QED
  BY <1>3, <1>4 DEF Newest

LEMMA LeastNatural ==
  ASSUME NEW S, S \subseteq Nat, S # {}
  PROVE  \E m \in S : \A n \in S : m <= n
<1> DEFINE R == {p \in Nat \X Nat : p[1] < p[2]}
<1>1. IsWellFoundedOn(R, Nat)
  BY Zenon, NatLessThanWellFounded DEF OpToRel
<1>2. PICK m \in S : \A n \in S : ~ (<<n, m>> \in R)
  <2> HIDE DEF R
  <2> QED
    BY <1>1, WFMin
<1>3. ASSUME NEW n \in S PROVE m <= n
  <2>1. ~ (n < m)
    BY <1>2
  <2> QED
    BY <2>1
<1> QED
  BY <1>3

LEMMA NewestType ==
  ASSUME NEW q \in Seq(WorkerCommand), NEW f \in Feature, NEW old \in Pending
  PROVE  Newest(f, q, old) \in Pending
<1> DEFINE sets == {j \in DOMAIN q : q[j].op = f}
<1>1. CASE sets = {}
  BY <1>1 DEF Newest
<1>2. CASE sets # {}
  <2> DEFINE S == {Len(q) - j : j \in sets}
  <2>1. S \subseteq Nat /\ S # {}
    BY <1>2
  <2>2. PICK m \in S : \A n \in S : m <= n
    <3> HIDE DEF S
    <3> QED
      BY <2>1, LeastNatural
  <2>3. PICK i \in sets : m = Len(q) - i
    OBVIOUS
  <2>4. ASSUME NEW j \in sets PROVE j <= i
    <3>1. m <= Len(q) - j
      BY <2>2
    <3>2. i \in Int /\ j \in Int /\ Len(q) \in Int
      OBVIOUS
    <3> QED
      BY <2>3, <3>1, <3>2
  <2>5. Newest(f, q, old) = [raw |-> q[i].raw, seq |-> q[i].seq]
    BY <2>3, <2>4, NewestIsLast
  <2>6. q[i] \in WorkerCommand
    BY <2>3
  <2> QED
    BY <2>5, <2>6 DEF WorkerCommand, Pending
<1> QED
  BY <1>1, <1>2

\* What every step of a worker does to the wire and to its locals.
Typed(w) ==
  /\ thread[w] = "running"
  /\ UNCHANGED retired
  /\ \E messages \in Seq(WorkerAck) : Send(messages)
  /\ \/ Exit(w)
     \/ /\ \E l \in Locals : Become(w, l)
        /\ UNCHANGED thread
        /\ \/ UNCHANGED inbox
           \/ inbox' = [inbox EXCEPT ![w] = <<>>]
  /\ panel' \in [Displays -> Nat]
  /\ late' \in [Workers -> Nat]
  /\ disturbed' \in SUBSET Displays

LEMMA NoMessage ==
  ASSUME TypeOK, UNCHANGED acks
  PROVE  \E messages \in Seq(WorkerAck) : Send(messages)
<1>1. acks \in Seq(WorkerAck)
  BY DEF TypeOK, EngineTypeOK, ProtocolTypeOK
<1>2. <<>> \in Seq(WorkerAck) /\ acks \o <<>> = acks
  BY <1>1
<1> QED
  BY <1>2 DEF Send

LEMMA OneMessage ==
  ASSUME NEW m \in WorkerAck, Send(<<m>>)
  PROVE  \E messages \in Seq(WorkerAck) : Send(messages)
<1>1. <<m>> \in Seq(WorkerAck)
  OBVIOUS
<1> QED
  BY <1>1

LEMMA StartsType ==
  ASSUME TypeOK, NEW w \in Workers, Starts(w)
  PROVE  Typed(w)
<1>1. thread[w] = "running" /\ UNCHANGED <<retired, panel, late>>
  BY DEF Starts, Open, OpenFails, At, WorkerFrame
<1>2. panel' \in [Displays -> Nat] /\ late' \in [Workers -> Nat] /\ disturbed' \in SUBSET Displays
  <2>1. disturbed' = disturbed \/ disturbed' = disturbed \cup {w[1]}
    BY DEF Starts, Open, OpenFails, WorkerFrame
  <2> QED
    BY <1>1, <2>1 DEF TypeOK, WorkerTypeOK, Workers
<1>3. OpenFailed(w) \in WorkerAck /\ SoftwareFallback(w) \in WorkerAck
  BY AckTypes DEF InflightKey
<1>4. CASE OpenFails(w)
  <2>1. Send(<<OpenFailed(w)>>) /\ Exit(w)
    BY <1>4 DEF OpenFails
  <2>2. \E messages \in Seq(WorkerAck) : Send(messages)
    BY <2>1, <1>3, OneMessage
  <2> QED
    BY <1>1, <1>2, <2>1, <2>2 DEF Typed
<1>5. CASE Open(w)
  <2>1. PICK has_range \in BOOLEAN :
          /\ Become(w, [NewLocals EXCEPT !.pc = "parked", !.settled = ~has_range])
          /\ Send(IF has_range THEN <<>> ELSE <<SoftwareFallback(w)>>)
    BY <1>5 DEF Open
  <2>2. [NewLocals EXCEPT !.pc = "parked", !.settled = ~has_range] \in Locals
    BY NewLocalsType DEF Locals
  <2>3. (IF has_range THEN <<>> ELSE <<SoftwareFallback(w)>>) \in Seq(WorkerAck)
    BY <1>3
  <2>4. UNCHANGED <<thread, inbox>>
    BY <1>5 DEF Open, Stay
  <2>5. \E messages \in Seq(WorkerAck) : Send(messages)
    BY <2>1, <2>3
  <2>6. \E l \in Locals : Become(w, l)
    BY <2>1, <2>2
  <2> QED
    BY <1>1, <1>2, <2>4, <2>5, <2>6 DEF Typed
<1> QED
  BY <1>4, <1>5 DEF Starts

LEMMA WaitsType ==
  ASSUME TypeOK, NEW w \in Workers, Waits(w)
  PROVE  Typed(w)
<1>1. thread[w] = "running" /\ WorkerFrame /\ UNCHANGED acks
  BY DEF Waits, Absorb, GapElapses, Disconnected, At
<1>2. panel' \in [Displays -> Nat] /\ late' \in [Workers -> Nat] /\ disturbed' \in SUBSET Displays
  BY <1>1 DEF WorkerFrame, TypeOK, WorkerTypeOK
<1>3. \E messages \in Seq(WorkerAck) : Send(messages)
  BY <1>1, NoMessage
<1>4. local[w] \in Locals /\ inbox[w] \in Seq(WorkerCommand)
  BY DEF TypeOK, WorkerTypeOK, EngineTypeOK, ProtocolTypeOK
<1>5. CASE Exit(w)
  BY <1>1, <1>2, <1>3, <1>5 DEF Typed, WorkerFrame
<1>6. CASE Absorb(w) /\ ~Exit(w)
  <2> DEFINE latest == [f \in Feature |-> Newest(f, inbox[w], local[w].latest[f])]
             gets   == {inbox[w][i].seq : i \in {i \in DOMAIN inbox[w] : inbox[w][i].op = "Get"}}
  <2>1. /\ Become(w, [local[w] EXCEPT !.pc = "reading", !.latest = latest, !.gets = gets])
        /\ inbox' = [inbox EXCEPT ![w] = <<>>] /\ UNCHANGED thread
    BY <1>6 DEF Absorb
  <2>2. latest \in [Feature -> Pending]
    BY <1>4, LocalsFields, NewestType
  <2>3. gets \in SUBSET Nat
    <3>1. ASSUME NEW i \in DOMAIN inbox[w] PROVE inbox[w][i].seq \in Nat
      <4>1. inbox[w][i] \in WorkerCommand
        BY <1>4
      <4> QED
        BY <4>1 DEF WorkerCommand
    <3> QED
      BY <3>1
  <2>4. [local[w] EXCEPT !.pc = "reading", !.latest = latest, !.gets = gets] \in Locals
    <3> HIDE DEF latest, gets
    <3> QED
      BY <1>4, <2>2, <2>3 DEF Locals
  <2>5. \E l \in Locals : Become(w, l)
    BY <2>1, <2>4
  <2> QED
    BY <1>1, <1>2, <1>3, <2>1, <2>5 DEF Typed, WorkerFrame
<1>7. CASE GapElapses(w)
  <2>1. PICK f : Become(w, [local[w] EXCEPT !.pc = "reading", !.hot = @ \ {f}])
    BY <1>7 DEF GapElapses
  <2>2. [local[w] EXCEPT !.pc = "reading", !.hot = @ \ {f}] \in Locals
    BY <1>4 DEF Locals
  <2>3. \E l \in Locals : Become(w, l)
    BY <2>1, <2>2
  <2> QED
    BY <1>1, <1>2, <1>3, <1>7, <2>3 DEF Typed, WorkerFrame, GapElapses, Stay
<1> QED
  BY <1>5, <1>6, <1>7 DEF Waits, Disconnected

LEMMA ReturnsType ==
  ASSUME TypeOK, NEW w \in Workers, NEW m \in WorkerAck, NEW l \in Locals,
         At(w, "reading"), ReadReturns(w, m, l), WorkerFrame
  PROVE  Typed(w)
<1>1. thread[w] = "running"
  BY DEF At
<1>2. panel' \in [Displays -> Nat] /\ late' \in [Workers -> Nat] /\ disturbed' \in SUBSET Displays
  BY DEF WorkerFrame, TypeOK, WorkerTypeOK
<1>3. Send(<<m>>) /\ (Exit(w) \/ (Become(w, l) /\ UNCHANGED <<thread, inbox>>))
  BY DEF ReadReturns, Stay
<1>4. \E messages \in Seq(WorkerAck) : Send(messages)
  BY <1>3, OneMessage
<1> QED
  BY <1>1, <1>2, <1>3, <1>4 DEF Typed, WorkerFrame

LEMMA PerformReadType ==
  ASSUME TypeOK, NEW w \in Workers, PerformRead(w)
  PROVE  Typed(w)
<1>1. At(w, "reading") /\ WorkerFrame
  BY DEF PerformRead
<1>2. PICK s \in local[w].gets : PerformGet(w, s)
  BY DEF PerformRead
<1>3. local[w] \in Locals
  BY DEF TypeOK, WorkerTypeOK
<1>4. s \in Nat
  BY <1>2, <1>3, LocalsFields
<1>5. panel[w[1]] \in Nat /\ PanelMax[w[1]] \in Nat
  BY WorkerAssumption DEF TypeOK, WorkerTypeOK, Workers
<1> DEFINE rest == [local[w] EXCEPT !.gets = @ \ {s}]
           seen == [rest EXCEPT !.known = IF local[w].settled THEN @ ELSE panel[w[1]]]
<1>6. rest \in Locals
  BY <1>3 DEF Locals
<1>7. seen \in Locals
  <2> DEFINE known == IF local[w].settled THEN rest.known ELSE panel[w[1]]
  <2>1. known \in Int
    <3>1. rest.known \in Int
      <4> HIDE DEF rest
      <4> QED
        BY <1>6, LocalsFields
    <3> HIDE DEF rest
    <3> QED
      BY <1>5, <3>1
  <2>2. seen = [rest EXCEPT !.known = known]
    OBVIOUS
  <2> HIDE DEF rest, known
  <2> QED
    BY <1>6, <2>1, <2>2 DEF Locals
<1>8. CASE ReadReturns(w, GetAck(w, s, panel[w[1]], PanelMax[w[1]]), seen)
  BY <1>1, <1>4, <1>5, <1>7, <1>8, AckTypes, ReturnsType DEF InflightKey
<1>9. CASE ReadReturns(w, GetFailed(w, s), rest)
  <2>1. GetFailed(w, s) \in WorkerAck
    BY <1>4, AckTypes DEF InflightKey
  <2> QED
    BY <1>1, <1>6, <1>9, <2>1, ReturnsType
<1>10. CASE Send(<<Panicked(w, "Get", s)>>) /\ Exit(w)
  <2>1. Panicked(w, "Get", s) \in WorkerAck
    BY <1>4, AckTypes DEF InflightKey
  <2>2. \E messages \in Seq(WorkerAck) : Send(messages)
    BY <1>10, <2>1, OneMessage
  <2>3. panel' \in [Displays -> Nat] /\ late' \in [Workers -> Nat] /\ disturbed' \in SUBSET Displays
    BY <1>1 DEF WorkerFrame, TypeOK, WorkerTypeOK
  <2> QED
    BY <1>1, <1>10, <2>2, <2>3 DEF Typed, WorkerFrame, At
<1> QED
  BY <1>2, <1>8, <1>9, <1>10, Zenon DEF PerformGet

LEMMA BeginWritesType ==
  ASSUME TypeOK, NEW w \in Workers, BeginWrites(w)
  PROVE  Typed(w)
<1>1. thread[w] = "running" /\ WorkerFrame /\ UNCHANGED acks
  BY DEF BeginWrites, At
<1>2. panel' \in [Displays -> Nat] /\ late' \in [Workers -> Nat] /\ disturbed' \in SUBSET Displays
  BY <1>1 DEF WorkerFrame, TypeOK, WorkerTypeOK
<1>3. \E messages \in Seq(WorkerAck) : Send(messages)
  BY <1>1, NoMessage
<1>4. local[w] \in Locals
  BY DEF TypeOK, WorkerTypeOK
<1>5. CASE Exit(w)
  BY <1>1, <1>2, <1>3, <1>5 DEF Typed, WorkerFrame
<1>6. CASE ~Exit(w)
  <2>1. PICK still_hot \in SUBSET local[w].hot :
          /\ Become(w, NextWrite([local[w] EXCEPT
               !.hot = still_hot, !.ready = Queued(local[w]) \ still_hot]))
          /\ UNCHANGED <<thread, inbox>>
    BY <1>6 DEF BeginWrites, Stay
  <2> DEFINE ready == Queued(local[w]) \ still_hot
             m     == [local[w] EXCEPT !.hot = still_hot, !.ready = ready]
  <2>2. ready \in SUBSET Feature /\ still_hot \in SUBSET Feature
    BY <1>4, LocalsFields DEF Queued
  <2>3. m \in Locals
    <3> HIDE DEF ready
    <3> QED
      BY <1>4, <2>2 DEF Locals
  <2>4. NextWrite(m) \in Locals
    <3> HIDE DEF m
    <3> QED
      BY <2>3, NextWriteType
  <2>5. \E l \in Locals : Become(w, l)
    <3> HIDE DEF m
    <3>1. Become(w, NextWrite(m))
      BY <2>1 DEF m
    <3> QED
      BY <2>4, <3>1
  <2> QED
    BY <1>1, <1>2, <1>3, <2>1, <2>5 DEF Typed, WorkerFrame
<1> QED
  BY <1>5, <1>6

\* How a write ends: by the worker's end, or with one more round of its loop.
WriteEnds(w, result) ==
  LET l    == local[w]
      done == SetAck(w, l.feature, l.write.seq)
  IN
  \/ result = "panic" /\ Send(<<Panicked(w, l.feature, l.write.seq)>>) /\ Exit(w)
  \/ Send(<<done>>) /\ Exit(w) /\ retired[w]
  \/ /\ Send(<<done>>) /\ ~retired[w]
     /\ \/ /\ result \in {"ok", "write lost"} /\ l.feature = "Brightness"
           /\ Become(w, [l EXCEPT !.pc = "verifying", !.before = l.known])
        \/ Become(w, WriteDone(l))
     /\ UNCHANGED <<thread, inbox>>
  \/ /\ \/ /\ Send(<<done, SoftwareFallback(w)>>)
           /\ result # "ok" /\ l.feature = "Brightness"
        \/ Send(<<done>>)
     /\ ~retired[w]
     /\ \E proof \in BOOLEAN : Become(w, WriteDone([l EXCEPT !.settled = @ \/ proof]))
     /\ UNCHANGED <<thread, inbox>>

LEMMA WriteOutcomes ==
  ASSUME TypeOK, NEW w \in Workers, FinishWrite(w)
  PROVE  \E result \in WriteResult : Lands(w, result) /\ WriteEnds(w, result)
<1> DEFINE l    == local[w]
           done == SetAck(w, l.feature, l.write.seq)
<1>1. retired[w] \in BOOLEAN
  BY DEF TypeOK, EngineTypeOK, ProtocolTypeOK
<1>2. PICK result \in WriteResult :
      /\ Lands(w, result)
      /\ CASE result = "panic" ->
                Send(<<Panicked(w, l.feature, l.write.seq)>>) /\ Exit(w)
           [] result # "panic" /\ retired[w] ->
                Send(<<done>>) /\ Exit(w)
           [] result \in {"ok", "write lost"} /\ ~retired[w] ->
                /\ Send(<<done>>)
                /\ Become(w, IF Diagnostic(l)
                               THEN [l EXCEPT !.pc = "verifying", !.before = l.known]
                               ELSE WriteDone(l))
                /\ Stay
           [] result = "write refused" /\ ~retired[w] ->
                LET proof == ~l.settled /\ l.feature = "Brightness" IN
                /\ Send(IF proof THEN <<done, SoftwareFallback(w)>> ELSE <<done>>)
                /\ Become(w, WriteDone([l EXCEPT !.settled = @ \/ proof]))
                /\ Stay
           [] result = "write timeout" /\ ~retired[w] ->
                Send(<<done>>) /\ Become(w, WriteDone(l)) /\ Stay
  BY Zenon DEF FinishWrite
<1>3. result \in {"ok", "write timeout", "write refused", "write lost", "panic"}
  BY DEF WriteResult
<1>4. CASE result = "panic"
  BY <1>2, <1>4 DEF WriteEnds
<1>5. CASE result # "panic" /\ retired[w]
  BY <1>2, <1>5 DEF WriteEnds
<1>6. CASE result \in {"ok", "write lost"} /\ ~retired[w]
  <2>1. /\ Send(<<done>>)
        /\ Become(w, IF Diagnostic(l)
                       THEN [l EXCEPT !.pc = "verifying", !.before = l.known]
                       ELSE WriteDone(l))
        /\ UNCHANGED <<thread, inbox>>
    BY <1>2, <1>6 DEF Stay
  <2>2. \/ /\ l.feature = "Brightness"
           /\ Become(w, [l EXCEPT !.pc = "verifying", !.before = l.known])
        \/ Become(w, WriteDone(l))
    BY <2>1, Zenon DEF Diagnostic
  <2> QED
    BY <1>2, <1>6, <2>1, <2>2, Zenon DEF WriteEnds
<1>7. CASE result = "write refused" /\ ~retired[w]
  <2> DEFINE proof == ~l.settled /\ l.feature = "Brightness"
  <2>1. /\ Send(IF proof THEN <<done, SoftwareFallback(w)>> ELSE <<done>>)
        /\ Become(w, WriteDone([l EXCEPT !.settled = @ \/ proof]))
        /\ UNCHANGED <<thread, inbox>>
    BY <1>2, <1>7 DEF Stay
  <2>2. proof \in BOOLEAN /\ result # "ok" /\ (proof => l.feature = "Brightness")
    BY <1>7
  <2> HIDE DEF proof
  <2>3. \/ Send(<<done, SoftwareFallback(w)>>) /\ result # "ok" /\ l.feature = "Brightness"
        \/ Send(<<done>>)
    BY <2>1, <2>2, Zenon
  <2> QED
    BY <1>2, <1>7, <2>1, <2>2, <2>3, Zenon DEF WriteEnds
<1>8. CASE result = "write timeout" /\ ~retired[w]
  <2>1. Send(<<done>>) /\ Become(w, WriteDone(l)) /\ UNCHANGED <<thread, inbox>>
    BY <1>2, <1>8 DEF Stay
  <2> QED
    BY <1>2, <1>8, <2>1, Zenon DEF WriteEnds
<1> QED
  BY <1>1, <1>3, <1>4, <1>5, <1>6, <1>7, <1>8

LEMMA FinishWriteType ==
  ASSUME TypeOK, NEW w \in Workers, FinishWrite(w)
  PROVE  Typed(w)
<1> DEFINE l    == local[w]
           done == SetAck(w, l.feature, l.write.seq)
<1>1. thread[w] = "running"
  BY DEF FinishWrite, At
<1>2. l \in Locals
  BY DEF TypeOK, WorkerTypeOK
<1>3. PICK result \in WriteResult : Lands(w, result) /\ WriteEnds(w, result)
  BY WriteOutcomes
<1>4. /\ l.feature \in InflightKey /\ l.write.seq \in Nat /\ l.write.raw \in Nat
      /\ w[1] \in Displays /\ retired[w] \in BOOLEAN
  BY <1>2, LocalsFields, PendingType
     DEF InflightKey, Workers, TypeOK, EngineTypeOK, ProtocolTypeOK
<1>5. \E messages \in Seq(WorkerAck) : Send(messages)
  <2>1. /\ done \in WorkerAck /\ SoftwareFallback(w) \in WorkerAck
        /\ Panicked(w, l.feature, l.write.seq) \in WorkerAck
    <3> HIDE DEF l
    <3> QED
      BY <1>4, AckTypes
  <2>2. <<done, SoftwareFallback(w)>> \in Seq(WorkerAck)
    BY <2>1
  <2>3. CASE Send(<<done, SoftwareFallback(w)>>)
    BY <2>2, <2>3
  <2>4. CASE Send(<<done>>)
    BY <2>1, <2>4, OneMessage
  <2>5. CASE Send(<<Panicked(w, l.feature, l.write.seq)>>)
    BY <2>1, <2>5, OneMessage
  <2> QED
    BY <1>3, <2>3, <2>4, <2>5, Zenon DEF WriteEnds
<1>6. Exit(w) \/ ((\E m \in Locals : Become(w, m)) /\ UNCHANGED <<thread, inbox>>)
  <2>1. [l EXCEPT !.pc = "verifying", !.before = l.known] \in Locals
    <3> DEFINE known == l.known
    <3>1. known \in Int
      BY <1>2, LocalsFields
    <3>2. [l EXCEPT !.pc = "verifying", !.before = known] \in Locals
      <4> HIDE DEF l, known
      <4> QED
        BY <1>2, <3>1 DEF Locals
    <3> QED
      BY <3>2
  <2>2. WriteDone(l) \in Locals
    BY <1>2, WriteDoneType
  <2>3. ASSUME NEW proof \in BOOLEAN
        PROVE  WriteDone([l EXCEPT !.settled = @ \/ proof]) \in Locals
    <3> DEFINE settled == l.settled \/ proof
    <3>1. settled \in BOOLEAN
      BY <1>2, <2>3, LocalsFields
    <3>2. [l EXCEPT !.settled = settled] \in Locals
      <4> HIDE DEF l, settled
      <4> QED
        BY <1>2, <3>1 DEF Locals
    <3> QED
      BY <3>2, WriteDoneType
  <2> QED
    BY <1>3, <2>1, <2>2, <2>3, Zenon DEF WriteEnds
<1>7. /\ UNCHANGED retired
      /\ panel' \in [Displays -> Nat] /\ late' \in [Workers -> Nat] /\ disturbed' \in SUBSET Displays
  <2>1. panel \in [Displays -> Nat] /\ late \in [Workers -> Nat] /\ disturbed \in SUBSET Displays
    BY DEF TypeOK, WorkerTypeOK
  <2>2. /\ panel' = [panel EXCEPT ![w[1]] = Clamped(w[1], l.write.raw)] \/ panel' = panel
        /\ late' = [late EXCEPT ![w] = @ + (IF retired[w] THEN 1 ELSE 0)]
        /\ disturbed' = disturbed \cup {w[1]} \/ disturbed' = disturbed
        /\ UNCHANGED retired
    BY <1>3 DEF Lands
  <2>3. Clamped(w[1], l.write.raw) \in Nat
    BY <1>4, WorkerAssumption DEF Clamped
  <2> HIDE DEF l
  <2> QED
    BY <1>4, <2>1, <2>2, <2>3
<1> HIDE DEF l, done
<1> QED
  BY <1>1, <1>5, <1>6, <1>7 DEF Typed

LEMMA VerifiesType ==
  ASSUME TypeOK, NEW w \in Workers, Verifies(w)
  PROVE  Typed(w)
<1> DEFINE l     == local[w]
           after == panel[w[1]]
<1>1. thread[w] = "running" /\ WorkerFrame /\ UNCHANGED <<thread, inbox>>
  BY DEF Verifies, VerifyMoot, VerifyRead, At, Stay
<1>2. panel' \in [Displays -> Nat] /\ late' \in [Workers -> Nat] /\ disturbed' \in SUBSET Displays
  BY <1>1 DEF WorkerFrame, TypeOK, WorkerTypeOK
<1>3. l \in Locals /\ after \in Int
  BY DEF TypeOK, WorkerTypeOK, Workers
<1>4. SoftwareFallback(w) \in WorkerAck
  BY AckTypes DEF InflightKey
<1>5. CASE VerifyMoot(w)
  <2>1. \E m \in Locals : Become(w, m)
    BY <1>3, <1>5, WriteDoneType DEF VerifyMoot
  <2>2. \E messages \in Seq(WorkerAck) : Send(messages)
    BY <1>5, NoMessage DEF VerifyMoot
  <2> QED
    BY <1>1, <1>2, <2>1, <2>2 DEF Typed, WorkerFrame
<1>6. CASE VerifyRead(w)
  <2> DEFINE noop   == [l EXCEPT !.known = after, !.noop = TRUE]
             reached == [l EXCEPT !.known = after, !.settled = TRUE]
  <2>1. noop \in Locals /\ reached \in Locals
    <3> HIDE DEF l, after
    <3> QED
      BY <1>3 DEF Locals
  <2>2. PICK m \in {l, noop} :
          \/ Become(w, [m EXCEPT !.attempt = @ + 1]) /\ Send(<<>>)
          \/ /\ Send(IF m.noop THEN <<SoftwareFallback(w)>> ELSE <<>>)
             /\ Become(w, WriteDone([m EXCEPT !.settled = m.noop]))
          \/ Become(w, WriteDone(reached)) /\ Send(<<>>)
    BY <1>6 DEF VerifyRead
  <2> HIDE DEF noop, reached, l
  <2>3. m \in Locals
    BY <1>3, <2>1
  <2>4. [m EXCEPT !.attempt = @ + 1] \in Locals
    BY <2>3 DEF Locals
  <2>5. [m EXCEPT !.settled = m.noop] \in Locals
    BY <2>3 DEF Locals
  <2>6. WriteDone([m EXCEPT !.settled = m.noop]) \in Locals /\ WriteDone(reached) \in Locals
    BY <2>1, <2>5, WriteDoneType
  <2>7. \E k \in Locals : Become(w, k)
    BY <2>2, <2>4, <2>6, Zenon
  <2>8. \E messages \in Seq(WorkerAck) : Send(messages)
    <3>1. <<>> \in Seq(WorkerAck) /\ <<SoftwareFallback(w)>> \in Seq(WorkerAck)
      BY <1>4
    <3>2. (IF m.noop THEN <<SoftwareFallback(w)>> ELSE <<>>) \in Seq(WorkerAck)
      BY <3>1
    <3> QED
      BY <2>2, <3>1, <3>2, Zenon
  <2> QED
    BY <1>1, <1>2, <2>7, <2>8 DEF Typed, WorkerFrame
<1> QED
  BY <1>5, <1>6 DEF Verifies

LEMMA WorkerStepType ==
  ASSUME TypeOK, NEW w \in Workers, WorkerStep(w)
  PROVE  Typed(w) /\ hung' \in SUBSET Workers
<1>1. hung' \in SUBSET Workers
  BY DEF WorkerStep, TypeOK, WorkerTypeOK
<1> QED
  BY <1>1, StartsType, WaitsType, PerformReadType, BeginWritesType, FinishWriteType,
     VerifiesType DEF WorkerStep, Performs

\* A step of a worker is one the engine's open specification allows its workers.
LEMMA TypedStep ==
  ASSUME TypeOK, NEW w \in Workers, Typed(w), hung' \in SUBSET Workers, UNCHANGED engineVars
  PROVE  WorkerSide /\ TypeOK'
<1>1. /\ inbox \in [Workers -> Seq(WorkerCommand)] /\ acks \in Seq(WorkerAck)
      /\ thread \in [Workers -> {"none", "running", "exited"}]
      /\ local \in [Workers -> Locals]
  BY DEF TypeOK, EngineTypeOK, ProtocolTypeOK, WorkerTypeOK
<1>2. acks' \in Seq(WorkerAck)
  BY <1>1 DEF Typed, Send
<1>3. inbox' \in [Workers -> Seq(WorkerCommand)]
  <2>1. inbox' = inbox \/ inbox' = [inbox EXCEPT ![w] = <<>>]
    BY DEF Typed, Exit
  <2>2. <<>> \in Seq(WorkerCommand)
    OBVIOUS
  <2> QED
    BY <1>1, <2>1, <2>2
<1>4. thread' = thread \/ thread' = [thread EXCEPT ![w] = "exited"]
  BY DEF Typed, Exit
<1>5. thread' \in [Workers -> {"none", "running", "exited"}]
  BY <1>1, <1>4
<1>6. \A v \in Workers :
        \/ thread'[v] = thread[v]
        \/ thread[v] = "running" /\ thread'[v] = "exited"
  BY <1>1, <1>4 DEF Typed
<1>7. local' \in [Workers -> Locals]
  <2>1. PICK l \in Locals : local' = [local EXCEPT ![w] = l]
    BY NewLocalsType DEF Typed, Exit, Become
  <2> QED
    BY <1>1, <2>1
<1>8. WorkerSide
  BY <1>2, <1>3, <1>5, <1>6 DEF WorkerSide, Typed
<1>9. EngineTypeOK'
  BY <1>8, TypeStep DEF TypeOK
<1>10. WorkerTypeOK'
  BY <1>7 DEF WorkerTypeOK, Typed
<1> QED
  BY <1>8, <1>9, <1>10 DEF TypeOK

\* Nothing but the panel and the books about it changes.
LEMMA BystanderType ==
  ASSUME TypeOK, UNCHANGED <<engineVars, channels, local>>, WorkerTypeOK'
  PROVE  WorkerSide /\ TypeOK'
<1>1. EngineTypeOK'
  BY DEF TypeOK, EngineTypeOK, ProtocolTypeOK, engineVars, channels, loopVars, opVars,
         healthVars, scaleVars
<1>2. WorkerSide
  BY DEF TypeOK, EngineTypeOK, ProtocolTypeOK, WorkerSide, channels
<1> QED
  BY <1>1, <1>2 DEF TypeOK

\* Each step of the system, as the engine's open specification sees it.
LEMMA SystemStep ==
  ASSUME TypeOK, [Next]_systemVars
  PROVE  TypeOK' /\ [WorkerSide \/ EngineNext]_vars
<1>1. CASE EngineNext /\ UNCHANGED workerVars
  <2>1. EngineTypeOK'
    BY <1>1, TypeStep DEF TypeOK
  <2>2. WorkerTypeOK'
    BY <1>1 DEF TypeOK, WorkerTypeOK, workerVars
  <2> QED
    BY <1>1, <2>1, <2>2 DEF TypeOK
<1>2. CASE UNCHANGED systemVars
  BY <1>2 DEF systemVars, vars, engineVars, channels, workerVars, loopVars, opVars,
     healthVars, scaleVars, TypeOK, EngineTypeOK, ProtocolTypeOK, WorkerTypeOK
<1>3. ASSUME NEW w \in Workers, WorkerStep(w), UNCHANGED engineVars
      PROVE  TypeOK' /\ WorkerSide
  BY <1>3, WorkerStepType, TypedStep
<1>4. ASSUME NEW w \in Workers, Hang(w), UNCHANGED engineVars
      PROVE  TypeOK' /\ WorkerSide
  <2>1. WorkerTypeOK' /\ UNCHANGED <<channels, local>>
    BY <1>4 DEF Hang, TypeOK, WorkerTypeOK
  <2> QED
    BY <1>4, <2>1, BystanderType
<1>5. ASSUME NEW d \in Displays, OutsideChange(d), UNCHANGED engineVars
      PROVE  TypeOK' /\ WorkerSide
  <2>1. WorkerTypeOK' /\ UNCHANGED <<channels, local>>
    BY <1>5, WorkerAssumption DEF OutsideChange, TypeOK, WorkerTypeOK
  <2> QED
    BY <1>5, <2>1, BystanderType
<1> QED
  BY <1>1, <1>2, <1>3, <1>4, <1>5 DEF Next, WorkerNext, Terminated

LEMMA SystemInit == Init => TypeOK
<1> SUFFICES ASSUME Init PROVE TypeOK
  OBVIOUS
<1>1. EngineTypeOK
  BY TypeInit DEF Init
<1>2. WorkerTypeOK
  BY NewLocalsType, WorkerAssumption DEF Init, WorkerInit, WorkerTypeOK
<1> QED
  BY <1>1, <1>2 DEF TypeOK

\* Every variable of the engine and of its workers has its type.
THEOREM SystemTypeCorrect == Spec => []TypeOK
<1>1. TypeOK /\ [Next]_systemVars => TypeOK'
  BY SystemStep
<1> QED
  BY <1>1, SystemInit, PTL DEF Spec

\* The real workers do only what the engine's open specification allows, so
\* every theorem about OpenSpec holds of the running system.
THEOREM WorkersImplementTheirSide == Spec => WorkersKeepToTheirSide
<1>1. Init => EngineInit
  BY DEF Init
<1>2. TypeOK /\ [Next]_systemVars => [WorkerSide \/ EngineNext]_vars
  BY SystemStep
<1> QED
  BY <1>1, <1>2, SystemTypeCorrect, PTL DEF Spec, OpenSpec, WorkersKeepToTheirSide

-----------------------------------------------------------------------------
(* What the engine's own invariants say of the running system.             *)

Base == TypeOK /\ HealthInv /\ ThreadInv

LEMMA BaseStep ==
  ASSUME Base, [Next]_systemVars
  PROVE  Base'
BY SystemStep, HealthStep, ThreadStep DEF Base, TypeOK

LEMMA BaseCorrect == Spec => []Base
<1>1. Init => Base
  BY SystemInit, HealthInit, ThreadInit DEF Init, Base
<1> QED
  BY <1>1, BaseStep, PTL DEF Spec

\* A registered worker is not retired, and no worker is before its time.
RetireInv ==
  /\ \A d \in Displays : HasWorker(d) => ~retired[Registered(d)]
  /\ \A w \in Workers : retired[w] => w[2] <= next_gen[w[1]]

\* Retiring the workers of ids, then forgetting them.
LEMMA RetireFlagged ==
  ASSUME EngineTypeOK, ThreadInv, RetireInv, NEW ids \in SUBSET Displays, RetireFlags(ids),
         \A d \in Displays :
           \/ next_gen'[d] = next_gen[d] /\ d \notin ids /\ workers'[d] = workers[d]
           \/ next_gen'[d] = next_gen[d] /\ workers'[d] = NoWorker
           \/ next_gen'[d] = next_gen[d] + 1 /\ workers'[d] = next_gen[d] + 1
               /\ next_gen[d] + 1 <= MaxGen
  PROVE  RetireInv'
<1>1. \A w \in Workers : retired'[w] = (retired[w] \/ (w[1] \in ids /\ w[2] = workers[w[1]]))
  BY DEF RetireFlags
<1>2. \A d \in Displays : /\ workers[d] <= next_gen[d]
                          /\ next_gen[d] \in 0 .. MaxGen /\ workers[d] \in 0 .. MaxGen
  BY DEF ThreadInv, EngineTypeOK
<1>3. ASSUME NEW w \in Workers, retired'[w] PROVE w[2] <= next_gen'[w[1]]
  <2>1. w[1] \in Displays /\ w[2] \in 1 .. MaxGen
    BY DEF Workers
  <2>2. w[2] <= next_gen[w[1]]
    BY <1>1, <1>2, <1>3, <2>1 DEF RetireInv
  <2> QED
    BY <1>2, <2>1, <2>2, MaxGenAssumption
<1>4. ASSUME NEW d \in Displays, HasWorker(d)' PROVE ~retired'[Registered(d)']
  <2>1. workers'[d] # NoWorker
    BY <1>4 DEF HasWorker
  <2>2. CASE d \notin ids /\ workers'[d] = workers[d]
    <3>1. Registered(d) \in Workers /\ ~retired[Registered(d)]
      BY <1>2, <2>1, <2>2 DEF RetireInv, HasWorker, Registered, Workers, NoWorker
    <3> QED
      BY <1>1, <2>2, <3>1 DEF Registered
  <2>3. CASE workers'[d] = next_gen[d] + 1 /\ next_gen[d] + 1 <= MaxGen
    <3> DEFINE w == <<d, next_gen[d] + 1>>
    <3>1. w \in Workers /\ w[1] = d /\ w[2] = next_gen[d] + 1
      BY <1>2, <2>3, MaxGenAssumption DEF Workers
    <3>2. ~(w[2] <= next_gen[d]) /\ w[2] # workers[d]
      BY <1>2, <3>1, MaxGenAssumption
    <3>3. ~retired'[w]
      BY <1>1, <3>1, <3>2 DEF RetireInv
    <3> QED
      BY <2>3, <3>3 DEF Registered
  <2> QED
    BY <2>1, <2>2, <2>3
<1> QED
  BY <1>3, <1>4 DEF RetireInv

LEMMA RetireSurfaced ==
  ASSUME EngineTypeOK, ThreadInv, RetireInv, NEW ids \in SUBSET Displays,
         surface_unresponsive(ids), UNCHANGED next_gen
  PROVE  RetireInv'
BY RetireFlagged DEF surface_unresponsive

LEMMA RetireKept ==
  ASSUME RetireInv, UNCHANGED <<workers, next_gen, retired>>
  PROVE  RetireInv'
BY DEF RetireInv, HasWorker, Registered

LEMMA RetireRefreshed ==
  ASSUME EngineTypeOK, ThreadInv, RetireInv, NEW seen \in SUBSET Displays, refresh(seen),
         Room(1)
  PROVE  RetireInv'
<1> DEFINE dropped == Gone(seen) \cup Replugged(seen) \cup Recovered(seen)
<1>1. dropped \in SUBSET Displays /\ RetireFlags(dropped)
  BY DEF refresh, Gone, Replugged, Recovered
<1>2. \A d \in Displays :
           \/ next_gen'[d] = next_gen[d] /\ d \notin dropped /\ workers'[d] = workers[d]
           \/ next_gen'[d] = next_gen[d] /\ workers'[d] = NoWorker
           \/ next_gen'[d] = next_gen[d] + 1 /\ workers'[d] = next_gen[d] + 1
               /\ next_gen[d] + 1 <= MaxGen
  BY DEF refresh, Room
<1> HIDE DEF dropped
<1> QED
  BY <1>1, <1>2, RetireFlagged

LEMMA RoomForOne ==
  ASSUME EngineTypeOK, NEW seen, Startup(seen) \/ DebounceFires(seen) \/ RefreshNow(seen)
  PROVE  Room(1)
<1>1. CASE Startup(seen) \/ DebounceFires(seen) \/ ~debouncer
  BY <1>1 DEF Startup, DebounceFires, RefreshNow
<1>2. CASE RefreshNow(seen) /\ debouncer
  <2>1. Room(2)
    BY <1>2 DEF RefreshNow
  <2>2. ASSUME NEW d \in Displays PROVE next_gen[d] + 1 <= MaxGen
    <3>1. next_gen[d] \in 0 .. MaxGen /\ next_gen[d] + 2 <= MaxGen
      BY <2>1 DEF Room, EngineTypeOK
    <3> QED
      BY <3>1, MaxGenAssumption
  <2> QED
    BY <2>2 DEF Room
<1> QED
  BY <1>1, <1>2 DEF RefreshNow

LEMMA RetireStep ==
  ASSUME EngineTypeOK, HealthInv, ThreadInv, RetireInv, [WorkerSide \/ EngineNext]_vars
  PROVE  RetireInv'
<1> USE DEF loopVars, opVars, healthVars, scaleVars, engineVars, channels
<1>1. CASE UNCHANGED vars \/ WorkerSide
  BY <1>1, RetireKept DEF vars, WorkerSide
<1>2. ASSUME NEW seen \in SUBSET Displays, Startup(seen) \/ DebounceFires(seen) \/ RefreshNow(seen)
      PROVE  RetireInv'
  BY <1>2, RetireRefreshed, RoomForOne DEF Startup, DebounceFires, RefreshNow
<1>3. CASE \/ PlatformEvent \/ PollLevels
           \/ \E d \in Displays, pct \in Levels : SetUserLevel(d, pct)
           \/ \E d \in Displays, value \in Inputs : SetInput(d, value)
           \/ \E on \in BOOLEAN : SetLevelPolling(on)
  BY <1>3, RetireKept
     DEF PlatformEvent, PollLevels, SetUserLevel, SetInput, SetLevelPolling
<1>4. CASE ShutDown
  <2>1. \A d \in Displays : workers'[d] = NoWorker /\ next_gen'[d] = next_gen[d]
    BY <1>4 DEF ShutDown
  <2> QED
    BY <1>4, <2>1, RetireFlagged DEF ShutDown
<1>5. ASSUME NEW aged \in SUBSET Displays, WatchdogFires(aged)
      PROVE  RetireInv'
  BY <1>5, RetireSurfaced DEF WatchdogFires, mark_stuck
<1>6. CASE AckPanicked \/ AckOpenFailed
  <2>1. ack.id \in Displays
    BY <1>6, AckType DEF AckPanicked, AckOpenFailed, Receive
  <2>2. CASE surface_unresponsive({ack.id}) \/ mark_stuck({ack.id})
    BY <1>6, <2>1, <2>2, RetireSurfaced DEF AckPanicked, AckOpenFailed, mark_stuck
  <2>3. CASE UNCHANGED <<workers, retired>>
    BY <1>6, <2>3, RetireKept DEF AckPanicked, AckOpenFailed
  <2> QED
    BY <1>6, <2>2, <2>3 DEF AckPanicked, AckOpenFailed
<1>7. CASE \/ AckSet \/ AckGetUnusable \/ AckGetLearned \/ AckPollHeals
           \/ AckPollReflects \/ AckGetNoted \/ AckSoftwareFallback
  BY <1>7, RetireKept
     DEF AckSet, AckGetUnusable, AckGetLearned, AckPollHeals, AckPollReflects,
         AckGetNoted, AckSoftwareFallback, TakeReading
<1> QED
  BY <1>1, <1>2, <1>3, <1>4, <1>5, <1>6, <1>7
     DEF EngineNext, Enumerates, AppCommand, Timer, HandleAck

-----------------------------------------------------------------------------
(* The ack channel as the set of the messages the engine has yet to read.  *)

Unread == {acks[i] : i \in DOMAIN acks}

LEMMA UnreadTyped ==
  ASSUME TypeOK
  PROVE  acks \in Seq(WorkerAck) /\ Unread \subseteq WorkerAck
BY DEF TypeOK, EngineTypeOK, ProtocolTypeOK, Unread

LEMMA UnreadSame ==
  ASSUME UNCHANGED acks
  PROVE  Unread' = Unread
BY DEF Unread

LEMMA UnreadReceived ==
  ASSUME acks \in Seq(WorkerAck), acks # <<>>, acks' = Tail(acks)
  PROVE  Unread' \subseteq Unread /\ Unread \subseteq Unread' \cup {ack} /\ ack \in Unread
<1>1. Len(acks) >= 1 /\ DOMAIN acks = 1 .. Len(acks) /\ Len(acks) \in Nat
  OBVIOUS
<1>2. DOMAIN acks' = 1 .. Len(acks) - 1 /\ \A i \in DOMAIN acks' : acks'[i] = acks[i + 1]
  BY <1>1
<1>3. ack = acks[1]
  BY <1>1 DEF ack
<1>4. \A i \in DOMAIN acks : i = 1 \/ (i - 1 \in DOMAIN acks' /\ acks'[i - 1] = acks[i])
  BY <1>1, <1>2
<1>5. \A i \in DOMAIN acks' : i + 1 \in DOMAIN acks
  BY <1>1, <1>2
<1>6. Unread' \subseteq Unread
  BY <1>2, <1>5, Zenon DEF Unread
<1>7. ack \in Unread
  BY <1>1, <1>3 DEF Unread
<1>8. ASSUME NEW m \in Unread PROVE m \in Unread' \cup {ack}
  <2>1. PICK i \in DOMAIN acks : m = acks[i]
    BY DEF Unread
  <2>2. CASE i = 1
    BY <1>3, <2>1, <2>2
  <2>3. CASE i - 1 \in DOMAIN acks' /\ acks'[i - 1] = acks[i]
    BY <2>1, <2>3, Zenon DEF Unread
  <2> QED
    BY <1>4, <2>2, <2>3
<1> QED
  BY <1>6, <1>7, <1>8

LEMMA UnreadSent ==
  ASSUME acks \in Seq(WorkerAck), NEW messages \in Seq(WorkerAck), Send(messages)
  PROVE  Unread' = Unread \cup {messages[i] : i \in DOMAIN messages}
<1>1. acks' = acks \o messages
  BY DEF Send
<1>2. /\ Len(acks) \in Nat /\ Len(messages) \in Nat
      /\ DOMAIN acks = 1 .. Len(acks) /\ DOMAIN messages = 1 .. Len(messages)
      /\ DOMAIN acks' = 1 .. Len(acks) + Len(messages)
  BY <1>1
<1>3. \A i \in DOMAIN acks : i \in DOMAIN acks' /\ acks'[i] = acks[i]
  BY <1>1, <1>2
<1>4. \A i \in DOMAIN messages :
        i + Len(acks) \in DOMAIN acks' /\ acks'[i + Len(acks)] = messages[i]
  BY <1>1, <1>2
<1>5. \A i \in DOMAIN acks' :
        i \in DOMAIN acks \/ (i - Len(acks) \in DOMAIN messages /\ acks'[i] = messages[i - Len(acks)])
  BY <1>1, <1>2
<1> QED
  BY <1>3, <1>4, <1>5 DEF Unread

LEMMA UnreadSentOne ==
  ASSUME TypeOK, NEW m \in WorkerAck, Send(<<m>>)
  PROVE  Unread' = Unread \cup {m}
<1>1. <<m>> \in Seq(WorkerAck) /\ {<<m>>[i] : i \in DOMAIN <<m>>} = {m}
  OBVIOUS
<1> QED
  BY <1>1, UnreadTyped, UnreadSent

LEMMA UnreadSentNone ==
  ASSUME TypeOK, Send(<<>>)
  PROVE  Unread' = Unread
<1>1. acks \in Seq(WorkerAck) /\ acks' = acks \o <<>>
  BY UnreadTyped DEF Send
<1>2. acks' = acks
  BY <1>1
<1> QED
  BY <1>2 DEF Unread

LEMMA UnreadSentTwo ==
  ASSUME TypeOK, NEW m \in WorkerAck, NEW n \in WorkerAck, Send(<<m, n>>)
  PROVE  Unread' = Unread \cup {m, n}
<1>1. <<m, n>> \in Seq(WorkerAck) /\ {<<m, n>>[i] : i \in DOMAIN <<m, n>>} = {m, n}
  OBVIOUS
<1> QED
  BY <1>1, UnreadTyped, UnreadSent

\* The fields of each kind of message.
LEMMA AckFields ==
  ASSUME NEW w \in Workers, NEW s \in Nat, NEW key \in InflightKey,
         NEW current \in Nat, NEW max \in Nat
  PROVE  /\ \A m \in {SetAck(w, key, s), Panicked(w, key, s), OpenFailed(w),
                       SoftwareFallback(w), GetFailed(w, s), GetAck(w, s, current, max)} :
              m.id = w[1] /\ m.generation = w[2]
         /\ SetAck(w, key, s).outcome = "Set"
         /\ SetAck(w, key, s).key = key /\ SetAck(w, key, s).seq = s
         /\ Panicked(w, key, s).outcome = "Panicked"
         /\ OpenFailed(w).outcome = "OpenFailed"
         /\ SoftwareFallback(w).outcome = "SoftwareFallback"
         /\ \A m \in {GetFailed(w, s), GetAck(w, s, current, max)} :
              m.outcome = "Get" /\ m.key = "Get" /\ m.seq = s
BY DEF SetAck, Panicked, OpenFailed, SoftwareFallback, GetFailed, GetAck, Ack

-----------------------------------------------------------------------------
(* Where an operation is between its dispatch and its answer.              *)

NoneSent(w, key) == \A i \in DOMAIN inbox[w] : inbox[w][i].op # key

LastSent(w, key, s) ==
  \E i \in DOMAIN inbox[w] :
    /\ inbox[w][i].op = key /\ inbox[w][i].seq = s
    /\ \A j \in DOMAIN inbox[w] : inbox[w][j].op = key => j <= i

Held(w, key, s) ==
  /\ Receiving(w) /\ local[w].pc # "opening"
  /\ \/ key \in Feature /\ local[w].latest[key].seq = s
     \/ /\ key \in Feature /\ local[w].pc = "writing"
        /\ local[w].feature = key /\ local[w].write.seq = s
     \/ key = "Get" /\ local[w].pc = "reading" /\ s \in local[w].gets

\* The worker has it: last of its kind in the channel, or taken from there.
WithWorker(w, key, s) == LastSent(w, key, s) \/ (NoneSent(w, key) /\ Held(w, key, s))

IsAnswer(m, w, key, s) ==
  /\ m.id = w[1]
  /\ \/ m.outcome \in {"Set", "Get"} /\ m.key = key /\ m.seq = s
     \/ m.outcome \in {"Panicked", "OpenFailed"} /\ m.generation = w[2]

Answered(w, key, s) == \E m \in Unread : IsAnswer(m, w, key, s)

\* What a step of a worker adds to the ack channel.
Speaks(w) ==
  /\ Unread \subseteq Unread'
  /\ \A m \in Unread' \ Unread :
       /\ m.id = w[1] /\ m.generation = w[2]
       /\ m.outcome = "Get" => m.key = "Get"
       /\ m.outcome \in {"Panicked", "OpenFailed"} => thread'[w] = "exited"

\* A worker that is not told to go loses no operation.
Delivers(w) ==
  ~retired[w] /\ NoneSent(w, "Shutdown") =>
    \A key \in InflightKey, s \in SeqNo :
      WithWorker(w, key, s) => WithWorker(w, key, s)' \/ Answered(w, key, s)'

\* Taking the next write of the round moves it from the queue to the call.
LEMMA NextWriteKeeps ==
  ASSUME NEW l \in Locals, NEW key \in Feature, NEW s \in SeqNo, l.latest[key].seq = s
  PROVE  LET n == NextWrite(l) IN
         /\ n.pc # "opening"
         /\ \/ n.latest[key].seq = s
            \/ n.pc = "writing" /\ n.feature = key /\ n.write.seq = s
<1> DEFINE n == NextWrite(l)
<1>1. CASE l.ready = {}
  <2>1. n = [NewLocals EXCEPT !.pc = "parked", !.latest = l.latest, !.hot = l.hot,
                              !.known = l.known, !.settled = l.settled]
    BY <1>1 DEF NextWrite
  <2>2. n.pc = "parked" /\ n.latest = l.latest
    BY <2>1 DEF NewLocals
  <2> QED
    BY <2>2
<1>2. CASE l.ready # {}
  <2>1. PICK f \in Feature :
          n = [l EXCEPT !.pc = "writing", !.ready = @ \ {f}, !.feature = f,
                        !.write = l.latest[f], !.latest[f] = NoPending]
    BY <1>2 DEF NextWrite, Feature
  <2>2. l.latest \in [Feature -> Pending]
    BY LocalsFields
  <2>3. /\ n.pc = "writing" /\ n.feature = f /\ n.write = l.latest[f]
        /\ n.latest = [l.latest EXCEPT ![f] = NoPending]
    BY <2>1 DEF Locals
  <2>4. CASE f = key
    BY <2>3, <2>4
  <2>5. CASE f # key
    BY <2>2, <2>3, <2>5
  <2> QED
    BY <2>4, <2>5
<1> QED
  BY <1>1, <1>2

LEMMA WriteDoneKeeps ==
  ASSUME NEW l \in Locals, NEW key \in Feature, NEW s \in SeqNo, l.latest[key].seq = s
  PROVE  LET n == WriteDone(l) IN
         /\ n.pc # "opening"
         /\ \/ n.latest[key].seq = s
            \/ n.pc = "writing" /\ n.feature = key /\ n.write.seq = s
<1> DEFINE m == [l EXCEPT !.hot = @ \cup {l.feature}, !.before = NotRead,
                          !.attempt = 0, !.noop = FALSE]
<1>1. l.hot \cup {l.feature} \in SUBSET Feature /\ NotRead \in Int
  BY LocalsFields DEF NotRead
<1>2. m \in Locals /\ m.latest = l.latest
  <2> DEFINE hot == l.hot \cup {l.feature}
  <2>1. m = [l EXCEPT !.hot = hot, !.before = NotRead, !.attempt = 0, !.noop = FALSE]
    BY DEF Locals
  <2>2. NotRead \in Int /\ hot \in SUBSET Feature
    BY <1>1
  <2> HIDE DEF hot, m
  <2> QED
    BY <2>1, <2>2 DEF Locals
<1>3. WriteDone(l) = NextWrite(m)
  BY DEF WriteDone
<1> HIDE DEF m
<1> QED
  BY <1>2, <1>3, NextWriteKeeps

LEMMA WriteDonePc ==
  ASSUME NEW l \in Locals
  PROVE  WriteDone(l).pc # "opening"
<1> DEFINE hot == l.hot \cup {l.feature}
           m   == [l EXCEPT !.hot = hot, !.before = NotRead, !.attempt = 0, !.noop = FALSE]
<1>1. WriteDone(l) = NextWrite(m) /\ DOMAIN m = DOMAIN l
  BY DEF WriteDone, Locals
<1>2. "pc" \in DOMAIN m
  BY <1>1 DEF Locals
<1> HIDE DEF m
<1> QED
  BY <1>1, <1>2 DEF NextWrite, NewLocals

\* A worker that stays where it is, with its channel as it is.
LEMMA HeldOn ==
  ASSUME TypeOK, NEW w \in Workers, NEW l \in Locals, Become(w, l), UNCHANGED <<thread, inbox>>,
         l.pc # "opening",
         NEW key \in InflightKey, NEW s \in SeqNo, WithWorker(w, key, s),
         Held(w, key, s) => \/ key \in Feature /\ l.latest[key].seq = s
                            \/ /\ key \in Feature /\ l.pc = "writing"
                               /\ l.feature = key /\ l.write.seq = s
                            \/ key = "Get" /\ l.pc = "reading" /\ s \in l.gets
  PROVE  WithWorker(w, key, s)'
<1>1. local'[w] = l
  BY DEF Become, TypeOK, WorkerTypeOK
<1>2. LastSent(w, key, s) => LastSent(w, key, s)'
  BY DEF LastSent
<1>3. NoneSent(w, key) => NoneSent(w, key)'
  BY DEF NoneSent
<1>4. Held(w, key, s) => Held(w, key, s)'
  <2>1. Receiving(w) => Receiving(w)'
    BY DEF Receiving
  <2> QED
    BY <1>1, <2>1, Zenon DEF Held
<1> QED
  BY <1>2, <1>3, <1>4 DEF WithWorker

LEMMA SpeaksNot ==
  ASSUME NEW w \in Workers, UNCHANGED acks
  PROVE  Speaks(w)
BY UnreadSame DEF Speaks

LEMMA SpeaksOnce ==
  ASSUME TypeOK, NEW w \in Workers, NEW m \in WorkerAck, Send(<<m>>),
         m.id = w[1], m.generation = w[2],
         m.outcome = "Get" => m.key = "Get",
         m.outcome \in {"Panicked", "OpenFailed"} => thread'[w] = "exited"
  PROVE  Speaks(w) /\ m \in Unread'
<1>1. Unread' = Unread \cup {m}
  BY UnreadSentOne
<1> QED
  BY <1>1 DEF Speaks

LEMMA Exited ==
  ASSUME TypeOK, NEW w \in Workers, Exit(w)
  PROVE  thread'[w] = "exited"
BY DEF Exit, TypeOK, EngineTypeOK, ProtocolTypeOK

\* A panic and a failed open answer whatever the worker was asked.
LEMMA LastWords ==
  ASSUME TypeOK, NEW w \in Workers, NEW m \in WorkerAck, Send(<<m>>), Exit(w),
         m.id = w[1], m.generation = w[2], m.outcome \in {"Panicked", "OpenFailed"}
  PROVE  Speaks(w) /\ Delivers(w)
<1>1. Speaks(w) /\ m \in Unread'
  BY SpeaksOnce, Exited
<1>2. \A key \in InflightKey, s \in SeqNo : IsAnswer(m, w, key, s)
  BY DEF IsAnswer
<1> QED
  BY <1>1, <1>2, Zenon DEF Delivers, Answered

LEMMA StartsKeep ==
  ASSUME TypeOK, NEW w \in Workers, Starts(w)
  PROVE  Speaks(w) /\ Delivers(w)
<1>1. /\ OpenFailed(w) \in WorkerAck /\ SoftwareFallback(w) \in WorkerAck
      /\ OpenFailed(w).id = w[1] /\ OpenFailed(w).generation = w[2]
      /\ OpenFailed(w).outcome = "OpenFailed"
      /\ SoftwareFallback(w).id = w[1] /\ SoftwareFallback(w).generation = w[2]
      /\ SoftwareFallback(w).outcome = "SoftwareFallback"
  BY AckTypes, AckFields DEF InflightKey
<1>2. CASE OpenFails(w)
  BY <1>1, <1>2, LastWords DEF OpenFails
<1>3. CASE Open(w)
  <2>1. PICK has_range \in BOOLEAN :
          /\ Become(w, [NewLocals EXCEPT !.pc = "parked", !.settled = ~has_range])
          /\ Send(IF has_range THEN <<>> ELSE <<SoftwareFallback(w)>>)
    BY <1>3 DEF Open
  <2>2. UNCHANGED <<thread, inbox>> /\ local[w].pc = "opening"
    BY <1>3 DEF Open, Stay, At
  <2>3. Speaks(w)
    <3>1. CASE has_range
      BY <2>1, <3>1, UnreadSentNone DEF Speaks
    <3>2. CASE ~has_range
      BY <1>1, <2>1, <3>2, SpeaksOnce
    <3> QED
      BY <3>1, <3>2
  <2>4. Delivers(w)
    <3> SUFFICES ASSUME NEW key \in InflightKey, NEW s \in SeqNo, WithWorker(w, key, s)
                 PROVE  WithWorker(w, key, s)'
      BY DEF Delivers
    <3>1. LastSent(w, key, s)
      BY <2>2 DEF WithWorker, Held
    <3> QED
      BY <2>2, <3>1 DEF WithWorker, LastSent
  <2> QED
    BY <2>3, <2>4
<1> QED
  BY <1>2, <1>3 DEF Starts

\* Draining the channel takes the newest of each kind, and every read.
LEMMA AbsorbKeeps ==
  ASSUME TypeOK, NEW w \in Workers, Absorb(w)
  PROVE  Delivers(w)
<1> SUFFICES ASSUME NoneSent(w, "Shutdown"),
                    NEW key \in InflightKey, NEW s \in SeqNo, WithWorker(w, key, s)
             PROVE  WithWorker(w, key, s)'
  BY DEF Delivers
<1> DEFINE q      == inbox[w]
           latest == [f \in Feature |-> Newest(f, q, local[w].latest[f])]
           gets   == {q[i].seq : i \in {i \in DOMAIN q : q[i].op = "Get"}}
<1>1. q \in Seq(WorkerCommand) /\ local[w] \in Locals /\ local \in [Workers -> Locals]
      /\ inbox \in [Workers -> Seq(WorkerCommand)]
  BY DEF TypeOK, EngineTypeOK, ProtocolTypeOK, WorkerTypeOK
<1>2. ~\E i \in 1 .. Len(inbox[w]) : inbox[w][i] = ShutdownCommand
  BY <1>1 DEF NoneSent, ShutdownCommand
<1>3. /\ Become(w, [local[w] EXCEPT !.pc = "reading", !.latest = latest, !.gets = gets])
      /\ inbox' = [inbox EXCEPT ![w] = <<>>] /\ UNCHANGED thread
      /\ local[w].pc = "parked" /\ Receiving(w)
  BY <1>2 DEF Absorb, At, Receiving
<1>4. local'[w].pc = "reading" /\ local'[w].latest = latest /\ local'[w].gets = gets
  <2> HIDE DEF latest, gets
  <2> QED
    BY <1>1, <1>3 DEF Become, Locals
<1>5. NoneSent(w, key)' /\ Receiving(w)'
  BY <1>1, <1>3 DEF NoneSent, Receiving
<1>6. Held(w, key, s)'
  <2>1. CASE LastSent(w, key, s)
    <3>1. PICK i \in DOMAIN q : /\ q[i].op = key /\ q[i].seq = s
                              /\ \A j \in DOMAIN q : q[j].op = key => j <= i
      BY <2>1 DEF LastSent
    <3>2. CASE key \in Feature
      <4>1. latest[key] = [raw |-> q[i].raw, seq |-> q[i].seq]
        BY <1>1, <3>1, <3>2, NewestIsLast
      <4>2. latest[key].seq = s
        BY <3>1, <4>1
      <4> HIDE DEF latest
      <4> QED
        BY <1>4, <1>5, <3>2, <4>2 DEF Held
    <3>3. CASE key = "Get"
      <4>1. s \in gets
        BY <3>1, <3>3
      <4> HIDE DEF gets
      <4> QED
        BY <1>4, <1>5, <3>3, <4>1 DEF Held
    <3> QED
      BY <3>2, <3>3 DEF InflightKey
  <2>2. CASE NoneSent(w, key) /\ Held(w, key, s)
    <3>1. key \in Feature /\ local[w].latest[key].seq = s
      BY <1>3, <2>2 DEF Held
    <3>2. {i \in DOMAIN q : q[i].op = key} = {}
      BY <2>2 DEF NoneSent
    <3>3. latest[key] = local[w].latest[key]
      BY <3>1, <3>2 DEF Newest
    <3> HIDE DEF latest
    <3> QED
      BY <1>4, <1>5, <3>1, <3>3 DEF Held
  <2> QED
    BY <2>1, <2>2 DEF WithWorker
<1> QED
  BY <1>5, <1>6 DEF WithWorker

LEMMA WaitsKeep ==
  ASSUME TypeOK, NEW w \in Workers, Waits(w)
  PROVE  Speaks(w) /\ Delivers(w)
<1>1. Speaks(w)
  BY SpeaksNot DEF Waits, Absorb, GapElapses, Disconnected
<1>2. CASE GapElapses(w)
  <2> SUFFICES ASSUME NEW key \in InflightKey, NEW s \in SeqNo, WithWorker(w, key, s)
               PROVE  WithWorker(w, key, s)'
    BY <1>1 DEF Delivers
  <2>1. PICK f : Become(w, [local[w] EXCEPT !.pc = "reading", !.hot = @ \ {f}])
    BY <1>2 DEF GapElapses
  <2> DEFINE l == [local[w] EXCEPT !.pc = "reading", !.hot = @ \ {f}]
  <2>2. local[w] \in Locals /\ local[w].pc = "parked" /\ UNCHANGED <<thread, inbox>>
    BY <1>2 DEF TypeOK, WorkerTypeOK, GapElapses, At, Stay
  <2>3. l \in Locals /\ l.pc = "reading" /\ l.latest = local[w].latest
    BY <2>2 DEF Locals
  <2>4. Become(w, l)
    BY <2>1
  <2> HIDE DEF l
  <2>5. Held(w, key, s) => key \in Feature /\ l.latest[key].seq = s
    BY <2>2, <2>3 DEF Held
  <2> QED
    BY <2>2, <2>3, <2>4, <2>5, HeldOn
<1>3. CASE Disconnected(w)
  BY <1>1, <1>3 DEF Disconnected, Delivers
<1> QED
  BY <1>1, <1>2, <1>3, AbsorbKeeps DEF Waits

\* A read leaves the others of its round, and the queue, as they are.
LEMMA ReadKeeps ==
  ASSUME TypeOK, NEW w \in Workers, NEW n \in Nat, NEW m \in WorkerAck, NEW l \in Locals,
         At(w, "reading"), ReadReturns(w, m, l),
         m.id = w[1], m.generation = w[2],
         m.outcome = "Get", m.key = "Get", m.seq = n,
         l.pc = "reading", l.latest = local[w].latest, l.gets = local[w].gets \ {n}
  PROVE  Speaks(w) /\ Delivers(w)
<1>1. Send(<<m>>) /\ (~retired[w] => Become(w, l) /\ UNCHANGED <<thread, inbox>>)
  BY DEF ReadReturns, Stay
<1>2. Speaks(w) /\ m \in Unread'
  BY <1>1, SpeaksOnce
<1>3. ASSUME ~retired[w], NEW key \in InflightKey, NEW s \in SeqNo, WithWorker(w, key, s)
      PROVE  WithWorker(w, key, s)' \/ Answered(w, key, s)'
  <2>1. CASE key = "Get" /\ s = n
    <3>1. IsAnswer(m, w, key, s)
      BY <2>1 DEF IsAnswer
    <3> QED
      BY <1>2, <3>1, Zenon DEF Answered
  <2>2. CASE ~(key = "Get" /\ s = n)
    <3>1. Held(w, key, s) => \/ key \in Feature /\ l.latest[key].seq = s
                             \/ key = "Get" /\ l.pc = "reading" /\ s \in l.gets
      BY <2>2 DEF Held, At
    <3> QED
      BY <1>1, <1>3, <3>1, HeldOn
  <2> QED
    BY <2>1, <2>2
<1> QED
  BY <1>2, <1>3 DEF Delivers

LEMMA PerformReadKeeps ==
  ASSUME TypeOK, NEW w \in Workers, PerformRead(w)
  PROVE  Speaks(w) /\ Delivers(w)
<1>1. At(w, "reading")
  BY DEF PerformRead
<1>2. PICK s \in local[w].gets : PerformGet(w, s)
  BY DEF PerformRead
<1>3. local[w] \in Locals /\ local[w].pc = "reading"
  BY <1>1 DEF TypeOK, WorkerTypeOK, At
<1>4. s \in Nat
  BY <1>2, <1>3, LocalsFields
<1>5. panel[w[1]] \in Nat /\ PanelMax[w[1]] \in Nat
  BY WorkerAssumption DEF TypeOK, WorkerTypeOK, Workers
<1> DEFINE read   == GetAck(w, s, panel[w[1]], PanelMax[w[1]])
           failed == GetFailed(w, s)
           panics == Panicked(w, "Get", s)
           rest   == [local[w] EXCEPT !.gets = @ \ {s}]
           seen   == [rest EXCEPT !.known = IF local[w].settled THEN @ ELSE panel[w[1]]]
<1>6. read \in WorkerAck /\ failed \in WorkerAck /\ panics \in WorkerAck
  BY <1>4, <1>5, AckTypes DEF InflightKey
<1>7. /\ \A m \in {read, failed} : m.id = w[1] /\ m.generation = w[2] /\ m.outcome = "Get"
                                  /\ m.key = "Get" /\ m.seq = s
      /\ panics.id = w[1] /\ panics.generation = w[2] /\ panics.outcome = "Panicked"
  BY <1>4, <1>5, AckFields DEF InflightKey
<1>8. /\ rest \in Locals /\ rest.pc = "reading" /\ rest.latest = local[w].latest
      /\ rest.gets = local[w].gets \ {s}
  BY <1>3 DEF Locals
<1>9. /\ seen \in Locals /\ seen.pc = "reading" /\ seen.latest = local[w].latest
      /\ seen.gets = local[w].gets \ {s}
  <2> DEFINE known == IF local[w].settled THEN rest.known ELSE panel[w[1]]
  <2>1. known \in Int
    <3>1. rest.known \in Int
      <4> HIDE DEF rest
      <4> QED
        BY <1>8, LocalsFields
    <3> HIDE DEF rest
    <3> QED
      BY <1>5, <3>1
  <2>2. seen = [rest EXCEPT !.known = known]
    OBVIOUS
  <2> HIDE DEF rest, known
  <2> QED
    BY <1>8, <2>1, <2>2 DEF Locals
<1>10. \/ ReadReturns(w, read, seen) \/ ReadReturns(w, failed, rest)
       \/ Send(<<panics>>) /\ Exit(w)
  BY <1>2, Zenon DEF PerformGet
<1> HIDE DEF read, failed, panics, rest, seen
<1>11. CASE ReadReturns(w, read, seen)
  BY <1>1, <1>4, <1>6, <1>7, <1>9, <1>11, ReadKeeps
<1>12. CASE ReadReturns(w, failed, rest)
  BY <1>1, <1>4, <1>6, <1>7, <1>8, <1>12, ReadKeeps
<1>13. CASE Send(<<panics>>) /\ Exit(w)
  BY <1>6, <1>7, <1>13, LastWords
<1> QED
  BY <1>10, <1>11, <1>12, <1>13

LEMMA BeginWritesKeeps ==
  ASSUME TypeOK, NEW w \in Workers, BeginWrites(w)
  PROVE  Speaks(w) /\ Delivers(w)
<1>1. Speaks(w)
  BY SpeaksNot DEF BeginWrites
<1>2. ASSUME ~retired[w], NEW key \in InflightKey, NEW s \in SeqNo, WithWorker(w, key, s)
      PROVE  WithWorker(w, key, s)'
  <2>1. PICK still_hot \in SUBSET local[w].hot :
          /\ Become(w, NextWrite([local[w] EXCEPT
               !.hot = still_hot, !.ready = Queued(local[w]) \ still_hot]))
          /\ UNCHANGED <<thread, inbox>>
    BY <1>2 DEF BeginWrites, Stay
  <2>2. local[w] \in Locals /\ local[w].pc = "reading" /\ local[w].gets = {}
    BY DEF TypeOK, WorkerTypeOK, BeginWrites, At
  <2> DEFINE ready == Queued(local[w]) \ still_hot
             m     == [local[w] EXCEPT !.hot = still_hot, !.ready = ready]
             l     == NextWrite(m)
  <2>3. ready \in SUBSET Feature /\ still_hot \in SUBSET Feature
    BY <2>2, LocalsFields DEF Queued
  <2>4. m \in Locals /\ m.latest = local[w].latest
    <3> HIDE DEF ready
    <3> QED
      BY <2>2, <2>3 DEF Locals
  <2>5. Become(w, l)
    BY <2>1
  <2> HIDE DEF m
  <2>6. l \in Locals
    BY <2>4, NextWriteType
  <2>7. l.pc # "opening"
    BY <2>4 DEF NextWrite, NewLocals, Locals
  <2>8. Held(w, key, s) => key \in Feature /\ local[w].latest[key].seq = s
    BY <2>2 DEF Held
  <2>9. Held(w, key, s) => \/ key \in Feature /\ l.latest[key].seq = s
                           \/ /\ key \in Feature /\ l.pc = "writing"
                              /\ l.feature = key /\ l.write.seq = s
    BY <2>4, <2>8, NextWriteKeeps
  <2> HIDE DEF l
  <2> QED
    BY <1>2, <2>1, <2>5, <2>6, <2>7, <2>9, HeldOn
<1> QED
  BY <1>1, <1>2 DEF Delivers

\* What a finished write sends, and what it answers.
LEMMA FinishWriteKeeps ==
  ASSUME TypeOK, NEW w \in Workers, FinishWrite(w)
  PROVE  Speaks(w) /\ Delivers(w)
<1> DEFINE l      == local[w]
           done   == SetAck(w, l.feature, l.write.seq)
           panics == Panicked(w, l.feature, l.write.seq)
           proof  == SoftwareFallback(w)
<1>1. l \in Locals /\ l.pc = "writing"
  BY DEF TypeOK, WorkerTypeOK, FinishWrite, At
<1>2. l.feature \in InflightKey /\ l.write.seq \in Nat
  BY <1>1, LocalsFields, PendingType DEF InflightKey
<1>3. done \in WorkerAck /\ panics \in WorkerAck /\ proof \in WorkerAck
  <2> HIDE DEF l
  <2> QED
    BY <1>2, AckTypes
<1>4. /\ \A m \in {done, panics, proof} : m.id = w[1] /\ m.generation = w[2]
      /\ done.outcome = "Set" /\ done.key = l.feature /\ done.seq = l.write.seq
      /\ panics.outcome = "Panicked" /\ proof.outcome = "SoftwareFallback"
  <2> HIDE DEF l
  <2> QED
    BY <1>2, AckFields
<1>5. PICK result \in WriteResult : WriteEnds(w, result)
  BY WriteOutcomes
<1>6. CASE Send(<<panics>>) /\ Exit(w)
  <2> HIDE DEF panics
  <2> QED
    BY <1>3, <1>4, <1>6, LastWords
<1>7. CASE Send(<<done>>) \/ Send(<<done, proof>>)
  <2> HIDE DEF done, proof
  <2>1. Speaks(w) /\ done \in Unread'
    <3>1. CASE Send(<<done>>)
      BY <1>3, <1>4, <3>1, SpeaksOnce
    <3>2. CASE Send(<<done, proof>>)
      <4>1. Unread' = Unread \cup {done, proof}
        BY <1>3, <3>2, UnreadSentTwo
      <4> QED
        BY <1>4, <4>1 DEF Speaks
    <3> QED
      BY <1>7, <3>1, <3>2
  <2>2. CASE Exit(w) /\ retired[w]
    BY <2>1, <2>2 DEF Delivers
  <2>3. ASSUME NEW m \in Locals, Become(w, m), UNCHANGED <<thread, inbox>>, m.pc # "opening",
               \A key \in Feature, s \in SeqNo :
                 l.latest[key].seq = s => \/ m.latest[key].seq = s
                                          \/ m.pc = "writing" /\ m.feature = key /\ m.write.seq = s
        PROVE  Delivers(w)
    <3> SUFFICES ASSUME NEW key \in InflightKey, NEW s \in SeqNo, WithWorker(w, key, s)
                 PROVE  WithWorker(w, key, s)' \/ Answered(w, key, s)'
      BY DEF Delivers
    <3>1. CASE key = l.feature /\ s = l.write.seq
      <4>1. IsAnswer(done, w, key, s)
        BY <1>4, <3>1 DEF IsAnswer
      <4> QED
        BY <2>1, <4>1, Zenon DEF Answered
    <3>2. CASE ~(key = l.feature /\ s = l.write.seq)
      <4>1. Held(w, key, s) => key \in Feature /\ l.latest[key].seq = s
        BY <1>1, <3>2 DEF Held
      <4>2. Held(w, key, s) => \/ key \in Feature /\ m.latest[key].seq = s
                               \/ /\ key \in Feature /\ m.pc = "writing"
                                  /\ m.feature = key /\ m.write.seq = s
        BY <2>3, <4>1
      <4> QED
        BY <2>3, <4>2, HeldOn
    <3> QED
      BY <3>1, <3>2
  <2>4. CASE Become(w, WriteDone(l)) /\ UNCHANGED <<thread, inbox>>
    <3>1. WriteDone(l) \in Locals /\ WriteDone(l).pc # "opening"
      BY <1>1, WriteDoneType, WriteDonePc
    <3>2. \A key \in Feature, s \in SeqNo : l.latest[key].seq = s =>
            \/ WriteDone(l).latest[key].seq = s
            \/ WriteDone(l).pc = "writing" /\ WriteDone(l).feature = key /\ WriteDone(l).write.seq = s
      BY <1>1, WriteDoneKeeps
    <3> HIDE DEF l
    <3> QED
      BY <2>1, <2>3, <2>4, <3>1, <3>2
  <2>5. ASSUME NEW b \in BOOLEAN, Become(w, WriteDone([l EXCEPT !.settled = @ \/ b])),
               UNCHANGED <<thread, inbox>>
        PROVE  Delivers(w)
    <3> DEFINE settled == l.settled \/ b
               k       == [l EXCEPT !.settled = settled]
    <3>1. settled \in BOOLEAN
      BY <1>1, LocalsFields
    <3>2. k \in Locals /\ k.latest = l.latest
      <4> HIDE DEF settled, l
      <4> QED
        BY <1>1, <3>1 DEF Locals
    <3>3. Become(w, WriteDone(k))
      BY <2>5
    <3> HIDE DEF k
    <3>4. WriteDone(k) \in Locals /\ WriteDone(k).pc # "opening"
      BY <3>2, WriteDoneType, WriteDonePc
    <3>5. \A key \in Feature, s \in SeqNo : l.latest[key].seq = s =>
            \/ WriteDone(k).latest[key].seq = s
            \/ WriteDone(k).pc = "writing" /\ WriteDone(k).feature = key /\ WriteDone(k).write.seq = s
      BY <3>2, WriteDoneKeeps
    <3> HIDE DEF l
    <3> QED
      BY <2>3, <2>5, <3>3, <3>4, <3>5
  <2>6. CASE /\ Become(w, [l EXCEPT !.pc = "verifying", !.before = l.known])
             /\ UNCHANGED <<thread, inbox>>
    <3> DEFINE known == l.known
               k     == [l EXCEPT !.pc = "verifying", !.before = known]
    <3>1. known \in Int
      BY <1>1, LocalsFields
    <3>2. k \in Locals /\ k.latest = l.latest /\ k.pc = "verifying"
      <4> HIDE DEF known, l
      <4> QED
        BY <1>1, <3>1 DEF Locals
    <3>3. Become(w, k)
      BY <2>6
    <3> HIDE DEF k, l
    <3>4. \A key \in Feature, s \in SeqNo : l.latest[key].seq = s => k.latest[key].seq = s
      BY <3>2
    <3>5. k \in Locals /\ k.pc # "opening"
      BY <3>2
    <3> QED
      BY <2>1, <2>3, <2>6, <3>3, <3>4, <3>5, Zenon
  <2> QED
    BY <1>5, <1>6, <2>1, <2>2, <2>4, <2>5, <2>6, Zenon DEF WriteEnds, done, panics, proof
<1> QED
  BY <1>5, <1>6, <1>7, Zenon DEF WriteEnds

LEMMA VerifiesKeep ==
  ASSUME TypeOK, NEW w \in Workers, Verifies(w)
  PROVE  Speaks(w) /\ Delivers(w)
<1> DEFINE l    == local[w]
           seen == panel[w[1]]
<1>1. /\ l \in Locals /\ l.pc = "verifying" /\ seen \in Int /\ UNCHANGED <<thread, inbox>>
  <2>1. At(w, "verifying") /\ UNCHANGED <<thread, inbox>>
    BY DEF Verifies, VerifyMoot, VerifyRead, Stay
  <2>2. l \in Locals /\ seen \in Int
    BY DEF TypeOK, WorkerTypeOK, Workers
  <2> QED
    BY <2>1, <2>2 DEF At
<1>2. /\ SoftwareFallback(w) \in WorkerAck
      /\ SoftwareFallback(w).id = w[1] /\ SoftwareFallback(w).generation = w[2]
      /\ SoftwareFallback(w).outcome = "SoftwareFallback"
  BY AckTypes, AckFields DEF InflightKey
<1>3. ASSUME NEW m \in Locals, Become(w, m), m.pc # "opening",
             \A key \in Feature, s \in SeqNo :
               l.latest[key].seq = s => \/ m.latest[key].seq = s
                                        \/ m.pc = "writing" /\ m.feature = key /\ m.write.seq = s
      PROVE  Delivers(w)
  <2> SUFFICES ASSUME NEW key \in InflightKey, NEW s \in SeqNo, WithWorker(w, key, s)
               PROVE  WithWorker(w, key, s)'
    BY DEF Delivers
  <2>1. Held(w, key, s) => key \in Feature /\ l.latest[key].seq = s
    BY <1>1 DEF Held
  <2>2. Held(w, key, s) => \/ key \in Feature /\ m.latest[key].seq = s
                           \/ /\ key \in Feature /\ m.pc = "writing"
                              /\ m.feature = key /\ m.write.seq = s
    BY <1>3, <2>1
  <2> QED
    BY <1>1, <1>3, <2>2, HeldOn
<1>4. ASSUME NEW k \in Locals, k.latest = l.latest, Become(w, WriteDone(k))
      PROVE  Delivers(w)
  <2>1. WriteDone(k) \in Locals /\ WriteDone(k).pc # "opening"
    BY WriteDoneType, WriteDonePc
  <2>2. \A key \in Feature, s \in SeqNo : l.latest[key].seq = s =>
          \/ WriteDone(k).latest[key].seq = s
          \/ WriteDone(k).pc = "writing" /\ WriteDone(k).feature = key /\ WriteDone(k).write.seq = s
    BY <1>4, WriteDoneKeeps
  <2> HIDE DEF l
  <2> QED
    BY <1>3, <1>4, <2>1, <2>2
<1>5. CASE VerifyMoot(w)
  BY <1>1, <1>4, <1>5, SpeaksNot DEF VerifyMoot
<1>6. CASE VerifyRead(w)
  <2> DEFINE noop    == [l EXCEPT !.known = seen, !.noop = TRUE]
             reached == [l EXCEPT !.known = seen, !.settled = TRUE]
  <2>1. /\ noop \in Locals /\ noop.latest = l.latest /\ noop.pc = "verifying"
        /\ reached \in Locals /\ reached.latest = l.latest
    <3> HIDE DEF l, seen
    <3> QED
      BY <1>1 DEF Locals
  <2>2. PICK m \in {l, noop} :
          \/ Become(w, [m EXCEPT !.attempt = @ + 1]) /\ Send(<<>>)
          \/ /\ Send(IF m.noop THEN <<SoftwareFallback(w)>> ELSE <<>>)
             /\ Become(w, WriteDone([m EXCEPT !.settled = m.noop]))
          \/ Become(w, WriteDone(reached)) /\ Send(<<>>)
    BY <1>6 DEF VerifyRead
  <2> HIDE DEF noop, reached, l
  <2>3. m \in Locals /\ m.latest = l.latest /\ m.pc = "verifying"
    BY <1>1, <2>1
  <2>4. /\ [m EXCEPT !.attempt = @ + 1] \in Locals
        /\ [m EXCEPT !.attempt = @ + 1].pc = "verifying"
        /\ [m EXCEPT !.attempt = @ + 1].latest = l.latest
    BY <2>3 DEF Locals
  <2>5. [m EXCEPT !.settled = m.noop] \in Locals /\ [m EXCEPT !.settled = m.noop].latest = l.latest
    BY <2>3 DEF Locals
  <2>6. Speaks(w)
    <3>1. Send(<<>>) => Speaks(w)
      BY UnreadSentNone DEF Speaks
    <3>2. Send(<<SoftwareFallback(w)>>) => Speaks(w)
      BY <1>2, SpeaksOnce
    <3> QED
      BY <2>2, <3>1, <3>2, Zenon
  <2>7. CASE Become(w, [m EXCEPT !.attempt = @ + 1])
    <3> DEFINE k == [m EXCEPT !.attempt = @ + 1]
    <3>1. k \in Locals /\ k.pc # "opening" /\ k.latest = l.latest /\ Become(w, k)
      BY <2>4, <2>7
    <3> HIDE DEF k
    <3>2. \A key \in Feature, s \in SeqNo : l.latest[key].seq = s => k.latest[key].seq = s
      BY <3>1
    <3> QED
      BY <1>3, <2>6, <3>1, <3>2, Zenon
  <2>8. CASE Become(w, WriteDone([m EXCEPT !.settled = m.noop])) \/ Become(w, WriteDone(reached))
    <3> DEFINE k == [m EXCEPT !.settled = m.noop]
    <3>1. k \in Locals /\ k.latest = l.latest
      BY <2>5
    <3>2. Become(w, WriteDone(k)) \/ Become(w, WriteDone(reached))
      BY <2>8
    <3> HIDE DEF k
    <3> QED
      BY <1>4, <2>1, <2>6, <3>1, <3>2, Zenon
  <2> QED
    BY <2>2, <2>6, <2>7, <2>8, Zenon
<1> QED
  BY <1>5, <1>6 DEF Verifies

LEMMA WorkerStepKeeps ==
  ASSUME TypeOK, NEW w \in Workers, WorkerStep(w)
  PROVE  Speaks(w) /\ Delivers(w)
BY StartsKeep, WaitsKeep, PerformReadKeeps, BeginWritesKeeps, FinishWriteKeeps, VerifiesKeep
   DEF WorkerStep, Performs

-----------------------------------------------------------------------------
(* What is on the wire: no order to stop before the engine stops, and no   *)
(* news of a worker's end before the end.                                  *)

CommandInv == phase # "stopped" => \A w \in Workers : NoneSent(w, "Shutdown")

ReportInv ==
  \A m \in Unread :
    /\ m.outcome = "Get" => m.key = "Get"
    /\ m.outcome \in {"Panicked", "OpenFailed"} => thread[<<m.id, m.generation>>] = "exited"

\* The engine reads its acks one at a time, oldest first, and adds none.
LEMMA EngineReads ==
  ASSUME TypeOK, EngineNext
  PROVE  /\ acks' = acks \/ (acks # <<>> /\ acks' = Tail(acks) /\ HandleAck)
         /\ Unread' \subseteq Unread
<1>1. acks' = acks \/ (acks # <<>> /\ acks' = Tail(acks) /\ HandleAck)
  <2>1. CASE HandleAck
    BY <2>1 DEF HandleAck, AckSet, AckGetUnusable, AckGetLearned, AckPollHeals, AckPollReflects,
       AckGetNoted, AckPanicked, AckOpenFailed, AckSoftwareFallback, TakeReading, Receive
  <2>2. CASE Enumerates \/ PlatformEvent
    BY <2>2 DEF Enumerates, Startup, DebounceFires, RefreshNow, refresh, PlatformEvent, channels
  <2>3. CASE AppCommand \/ Timer
    BY <2>3 DEF AppCommand, Timer, SetUserLevel, SetInput, SetLevelPolling, ShutDown, PollLevels,
       WatchdogFires, channels
  <2> QED
    BY <2>1, <2>2, <2>3 DEF EngineNext
<1>2. Unread' \subseteq Unread
  BY <1>1, UnreadTyped, UnreadSame, UnreadReceived
<1> QED
  BY <1>1, <1>2

\* Threads start by enumeration only, each under a new name.
LEMMA EngineThreads ==
  ASSUME Base, EngineNext, NEW w \in Workers, thread[w] # "none"
  PROVE  thread'[w] = thread[w]
<1>1. ASSUME NEW seen \in SUBSET Displays, refresh(seen)
      PROVE  thread'[w] = thread[w]
  <2>1. w[1] \in Displays /\ w[2] \in 1 .. MaxGen /\ next_gen[w[1]] \in 0 .. MaxGen
    BY DEF Base, TypeOK, EngineTypeOK, Workers
  <2>2. ~(w[2] > next_gen[w[1]])
    BY DEF Base, ThreadInv
  <2>3. w[2] # next_gen[w[1]] + 1
    BY <2>1, <2>2, MaxGenAssumption
  <2> QED
    BY <1>1, <2>3 DEF refresh
<1>2. CASE Enumerates
  BY <1>1, <1>2 DEF Enumerates, Startup, DebounceFires, RefreshNow
<1>3. CASE PlatformEvent \/ AppCommand \/ Timer
  BY <1>3 DEF PlatformEvent, AppCommand, Timer, SetUserLevel, SetInput, SetLevelPolling, ShutDown,
     PollLevels, WatchdogFires, channels
<1>4. CASE HandleAck
  BY <1>4 DEF HandleAck, AckSet, AckGetUnusable, AckGetLearned, AckPollHeals, AckPollReflects,
       AckGetNoted, AckPanicked, AckOpenFailed, AckSoftwareFallback, TakeReading
<1> QED
  BY <1>2, <1>3, <1>4 DEF EngineNext

LEMMA WorkerWire ==
  ASSUME TypeOK, NEW w \in Workers, Typed(w), NEW v \in Workers
  PROVE  /\ v # w => inbox'[v] = inbox[v] /\ thread'[v] = thread[v] /\ local'[v] = local[v]
         /\ inbox'[v] = inbox[v] \/ inbox'[v] = <<>>
         /\ thread[v] = "exited" => v # w
<1>1. /\ inbox \in [Workers -> Seq(WorkerCommand)] /\ local \in [Workers -> Locals]
      /\ thread \in [Workers -> {"none", "running", "exited"}]
  BY DEF TypeOK, EngineTypeOK, ProtocolTypeOK, WorkerTypeOK
<1> QED
  BY <1>1 DEF Typed, Exit, Become

\* What the engine puts in a channel before it stops.
LEMMA EngineSends ==
  ASSUME TypeOK, EngineNext, NEW w \in Workers, phase' # "stopped"
  PROVE  \/ inbox'[w] = inbox[w]
         \/ \E c \in WorkerCommand : /\ c.op # "Shutdown"
                                     /\ inbox'[w] = <<c>> \/ inbox'[w] = Append(inbox[w], c)
<1>1. EngineTypeOK /\ inbox \in [Workers -> Seq(WorkerCommand)] /\ w[1] \in Displays
  BY DEF TypeOK, EngineTypeOK, ProtocolTypeOK, Workers
<1>2. ASSUME NEW seen \in SUBSET Displays, refresh(seen)
      PROVE  \/ inbox'[w] = inbox[w]
             \/ \E c \in WorkerCommand : c.op # "Shutdown" /\ inbox'[w] = <<c>>
  <2>1. FirstCommand(w[1]) \in WorkerCommand /\ FirstCommand(w[1]).op \in InflightKey
    BY <1>1, FirstCommandType
  <2>2. FirstCommand(w[1]).op # "Shutdown"
    BY <2>1 DEF InflightKey, Feature
  <2>3. inbox'[w] = inbox[w] \/ inbox'[w] = <<FirstCommand(w[1])>>
    BY <1>2 DEF refresh
  <2> QED
    BY <2>1, <2>2, <2>3
<1>3. ASSUME NEW d \in Displays, NEW key \in Feature, NEW raw \in Nat, Dispatch(d, key, raw)
      PROVE  \/ inbox'[w] = inbox[w]
             \/ \E c \in WorkerCommand : c.op # "Shutdown" /\ inbox'[w] = Append(inbox[w], c)
  <2>1. SetCommand(key, raw, seq[d] + 1) \in WorkerCommand
    BY <1>1, CommandType DEF EngineTypeOK
  <2>2. SetCommand(key, raw, seq[d] + 1).op # "Shutdown"
    BY DEF SetCommand, Feature
  <2>3. \/ inbox' = inbox
        \/ inbox' = [inbox EXCEPT ![Registered(d)] = Append(@, SetCommand(key, raw, seq[d] + 1))]
    BY <1>3 DEF Dispatch
  <2> QED
    BY <1>1, <2>1, <2>2, <2>3
<1>4. CASE Enumerates
  BY <1>2, <1>4 DEF Enumerates, Startup, DebounceFires, RefreshNow
<1>5. ASSUME NEW d \in Displays, NEW pct \in Levels, SetUserLevel(d, pct)
      PROVE  \/ inbox'[w] = inbox[w]
             \/ \E c \in WorkerCommand : c.op # "Shutdown" /\ inbox'[w] = Append(inbox[w], c)
  <2>1. pct_to_raw(pct, brightness_max[d]) \in Nat
    BY <1>1, EngineAssumption, PctToRawType DEF EngineTypeOK
  <2>2. CASE IsResponsive(records[d])
    BY <1>3, <1>5, <2>1, <2>2 DEF SetUserLevel, dispatch_set, Feature
  <2>3. CASE ~IsResponsive(records[d])
    BY <1>5, <2>3 DEF SetUserLevel, dispatch_set
  <2> QED
    BY <2>2, <2>3
<1>6. ASSUME NEW d \in Displays, NEW value \in Inputs, SetInput(d, value)
      PROVE  \/ inbox'[w] = inbox[w]
             \/ \E c \in WorkerCommand : c.op # "Shutdown" /\ inbox'[w] = Append(inbox[w], c)
  BY <1>3, <1>6, EngineAssumption DEF SetInput, Feature
<1>7. CASE PollLevels
  <2>1. GetCommand(seq[w[1]] + 1) \in WorkerCommand
    BY <1>1 DEF EngineTypeOK, GetCommand, WorkerCommand, InflightKey
  <2>2. GetCommand(seq[w[1]] + 1).op # "Shutdown"
    BY DEF GetCommand
  <2>3. inbox'[w] = inbox[w] \/ inbox'[w] = Append(inbox[w], GetCommand(seq[w[1]] + 1))
    BY <1>7 DEF PollLevels
  <2> QED
    BY <2>1, <2>2, <2>3
<1>8. CASE PlatformEvent \/ HandleAck \/ (\E aged \in SUBSET Displays : WatchdogFires(aged))
           \/ (\E on \in BOOLEAN : SetLevelPolling(on)) \/ ShutDown
  BY <1>8 DEF PlatformEvent, WatchdogFires, SetLevelPolling, ShutDown, channels,
     HandleAck, AckSet, AckGetUnusable, AckGetLearned, AckPollHeals, AckPollReflects,
     AckGetNoted, AckPanicked, AckOpenFailed, AckSoftwareFallback, TakeReading
<1> QED
  BY <1>4, <1>5, <1>6, <1>7, <1>8 DEF EngineNext, AppCommand, Timer

LEMMA ReportStep ==
  ASSUME Base, ReportInv, [Next]_systemVars
  PROVE  ReportInv'
<1>1. TypeOK /\ \A m \in Unread : <<m.id, m.generation>> \in Workers
  BY UnreadTyped DEF Base, Workers, WorkerAck
<1>2. CASE EngineNext
  <2>1. Unread' \subseteq Unread
    BY <1>1, <1>2, EngineReads
  <2>2. \A m \in Unread : thread[<<m.id, m.generation>>] = "exited"
                           => thread'[<<m.id, m.generation>>] = "exited"
    BY <1>1, <1>2, EngineThreads
  <2> QED
    BY <2>1, <2>2 DEF ReportInv
<1>3. ASSUME NEW w \in Workers, WorkerStep(w)
      PROVE  ReportInv'
  <2>1. Typed(w) /\ Speaks(w)
    BY <1>1, <1>3, WorkerStepType, WorkerStepKeeps
  <2>2. ASSUME NEW m \in Unread', m \in Unread
        PROVE  /\ m.outcome = "Get" => m.key = "Get"
               /\ m.outcome \in {"Panicked", "OpenFailed"}
                     => thread'[<<m.id, m.generation>>] = "exited"
    BY <1>1, <2>1, <2>2, WorkerWire DEF ReportInv
  <2>3. ASSUME NEW m \in Unread', m \notin Unread
        PROVE  /\ m.outcome = "Get" => m.key = "Get"
               /\ m.outcome \in {"Panicked", "OpenFailed"}
                     => thread'[<<m.id, m.generation>>] = "exited"
    <3>1. w = <<w[1], w[2]>>
      BY DEF Workers
    <3> QED
      BY <2>1, <2>3, <3>1 DEF Speaks
  <2> QED
    BY <2>2, <2>3 DEF ReportInv
<1>4. CASE UNCHANGED channels
  BY <1>4, UnreadSame DEF ReportInv, channels
<1> QED
  BY <1>2, <1>3, <1>4
     DEF Next, WorkerNext, Terminated, Hang, OutsideChange, systemVars, vars

LEMMA CommandStep ==
  ASSUME Base, CommandInv, [Next]_systemVars
  PROVE  CommandInv'
<1> SUFFICES ASSUME phase' # "stopped", NEW w \in Workers
             PROVE  NoneSent(w, "Shutdown")'
  BY DEF CommandInv
<1>1. TypeOK /\ inbox \in [Workers -> Seq(WorkerCommand)]
  BY DEF Base, TypeOK, EngineTypeOK, ProtocolTypeOK
<1>2. phase # "stopped" => NoneSent(w, "Shutdown")
  BY DEF CommandInv
<1>3. CASE EngineNext
  <2>1. phase # "stopped"
    BY <1>3 DEF EngineNext, Enumerates, Startup, DebounceFires, RefreshNow, PlatformEvent,
       AppCommand, SetUserLevel, SetInput, SetLevelPolling, ShutDown, Timer, PollLevels,
       WatchdogFires, HandleAck, AckSet, AckGetUnusable, AckGetLearned, AckPollHeals,
       AckPollReflects, AckGetNoted, AckPanicked, AckOpenFailed, AckSoftwareFallback,
       TakeReading, Receive
  <2>2. \/ inbox'[w] = inbox[w]
        \/ \E c \in WorkerCommand : /\ c.op # "Shutdown"
                                    /\ inbox'[w] = <<c>> \/ inbox'[w] = Append(inbox[w], c)
    BY <1>1, <1>3, EngineSends
  <2>3. CASE inbox'[w] = inbox[w]
    BY <1>2, <2>1, <2>3 DEF NoneSent
  <2>4. CASE inbox'[w] # inbox[w]
    <3>1. PICK c \in WorkerCommand : /\ c.op # "Shutdown"
                                     /\ inbox'[w] = <<c>> \/ inbox'[w] = Append(inbox[w], c)
      BY <2>2, <2>4
    <3>2. inbox[w] \in Seq(WorkerCommand)
      BY <1>1
    <3>3. CASE inbox'[w] = <<c>>
      BY <3>1, <3>3 DEF NoneSent
    <3>4. CASE inbox'[w] = Append(inbox[w], c)
      <4>1. /\ DOMAIN inbox'[w] = 1 .. Len(inbox[w]) + 1 /\ Len(inbox[w]) \in Nat
            /\ \A i \in 1 .. Len(inbox[w]) : inbox'[w][i] = inbox[w][i]
            /\ inbox'[w][Len(inbox[w]) + 1] = c
        BY <3>2, <3>4
      <4> QED
        BY <1>2, <2>1, <3>1, <3>2, <4>1 DEF NoneSent
    <3> QED
      BY <3>1, <3>3, <3>4
  <2> QED
    BY <2>3, <2>4
<1>4. ASSUME NEW v \in Workers, WorkerStep(v), UNCHANGED phase
      PROVE  NoneSent(w, "Shutdown")'
  <2>1. inbox'[w] = inbox[w] \/ inbox'[w] = <<>>
    BY <1>1, <1>4, WorkerStepType, WorkerWire
  <2> QED
    BY <1>2, <1>4, <2>1 DEF NoneSent
<1>5. CASE UNCHANGED <<channels, phase>>
  BY <1>2, <1>5 DEF NoneSent, channels
<1> QED
  BY <1>3, <1>4, <1>5
     DEF Next, WorkerNext, Terminated, Hang, OutsideChange, systemVars, vars, engineVars, loopVars

-----------------------------------------------------------------------------
(* No watched operation is lost.                                           *)

Located(d, key, s) ==
  WithWorker(Registered(d), key, s) \/ Answered(Registered(d), key, s)

DeliveryInv ==
  phase # "stopped" =>
    \A d \in Displays, key \in InflightKey :
      inflight[d][key] # NoSeq => Located(d, key, inflight[d][key])

\* A display with an operation in flight has a worker, and it was not retired.
LEMMA WatchedHasWorker ==
  ASSUME Base, RetireInv, phase # "stopped",
         NEW d \in Displays, NEW key \in InflightKey, inflight[d][key] # NoSeq
  PROVE  /\ HasWorker(d) /\ Registered(d) \in Workers /\ ~retired[Registered(d)]
         /\ inflight[d][key] \in SeqNo /\ CanMarkUnresponsive(records[d])
<1>1. d \in Watched
  BY DEF Watched
<1>2. HasWorker(d) /\ CanMarkUnresponsive(records[d])
  BY <1>1 DEF Base, HealthInv, Healthy
<1>3. workers[d] \in 0 .. MaxGen /\ inflight[d][key] \in Nat
  BY DEF Base, TypeOK, EngineTypeOK
<1> QED
  BY <1>2, <1>3, MaxGenAssumption DEF HasWorker, NoWorker, Registered, Workers, SeqNo, RetireInv

LEMMA LocatedAt ==
  ASSUME NEW d, NEW key, NEW s, NEW w, Registered(d)' = w,
         WithWorker(w, key, s)' \/ Answered(w, key, s)'
  PROVE  Located(d, key, s)'
<1>1. w = <<d, workers'[d]>>
  BY DEF Registered
<1>2. CASE WithWorker(w, key, s)'
  BY <1>1, <1>2 DEF Located, WithWorker, LastSent, NoneSent, Held, Receiving, Registered
<1>3. CASE Answered(w, key, s)'
  BY <1>1, <1>3 DEF Located, Answered, IsAnswer, Registered
<1> QED
  BY <1>2, <1>3

LEMMA LocatedFor ==
  ASSUME NEW d, NEW key, NEW s, Located(d, key, s)', inflight'[d][key] = s
  PROVE  Located(d, key, inflight[d][key])'
BY DEF Located, WithWorker, LastSent, NoneSent, Held, Receiving, Answered, IsAnswer, Registered

LEMMA WireKept ==
  ASSUME NEW w, NEW key, NEW s, WithWorker(w, key, s),
         inbox'[w] = inbox[w], thread'[w] = thread[w], local'[w] = local[w]
  PROVE  WithWorker(w, key, s)'
<1>1. LastSent(w, key, s) => LastSent(w, key, s)'
  BY DEF LastSent
<1>2. NoneSent(w, key) => NoneSent(w, key)'
  BY DEF NoneSent
<1>3. Held(w, key, s) => Held(w, key, s)'
  BY DEF Held, Receiving
<1> QED
  BY <1>1, <1>2, <1>3 DEF WithWorker

LEMMA LocatedKept ==
  ASSUME NEW d \in Displays, NEW key, NEW s, Located(d, key, s), workers'[d] = workers[d],
         inbox'[Registered(d)] = inbox[Registered(d)],
         thread'[Registered(d)] = thread[Registered(d)],
         local'[Registered(d)] = local[Registered(d)],
         \A m \in Unread : IsAnswer(m, Registered(d), key, s) => m \in Unread'
  PROVE  Located(d, key, s)'
<1>1. PICK w : w = Registered(d)
  OBVIOUS
<1>2. Registered(d)' = w
  BY <1>1 DEF Registered
<1>3. CASE WithWorker(w, key, s)
  <2>1. WithWorker(w, key, s)'
    BY <1>1, <1>3, WireKept
  <2> QED
    BY <1>2, <2>1, LocatedAt
<1>4. CASE Answered(w, key, s)
  <2>1. Answered(w, key, s)'
    BY <1>1, <1>4 DEF Answered, IsAnswer
  <2> QED
    BY <1>2, <2>1, LocatedAt
<1> QED
  BY <1>1, <1>3, <1>4 DEF Located

\* A command behind the others of its channel.
LEMMA AppendedCommand ==
  ASSUME TypeOK, NEW w \in Workers, NEW c \in WorkerCommand,
         inbox'[w] = Append(inbox[w], c), thread'[w] = thread[w], local'[w] = local[w],
         NEW key, NEW s
  PROVE  /\ c.op = key /\ c.seq = s => WithWorker(w, key, s)'
         /\ c.op # key /\ WithWorker(w, key, s) => WithWorker(w, key, s)'
<1> DEFINE n == Len(inbox[w])
<1>1. inbox[w] \in Seq(WorkerCommand)
  BY DEF TypeOK, EngineTypeOK, ProtocolTypeOK
<1>2. /\ n \in Nat /\ DOMAIN inbox[w] = 1 .. n /\ DOMAIN inbox'[w] = 1 .. n + 1
      /\ \A i \in 1 .. n : inbox'[w][i] = inbox[w][i]
      /\ inbox'[w][n + 1] = c
  BY <1>1
<1> HIDE DEF n
<1>3. ASSUME c.op = key, c.seq = s PROVE LastSent(w, key, s)'
  <2>1. n + 1 \in DOMAIN inbox'[w] /\ \A j \in DOMAIN inbox'[w] : j <= n + 1
    BY <1>2
  <2> QED
    BY <1>2, <1>3, <2>1 DEF LastSent
<1>4. ASSUME c.op # key, LastSent(w, key, s) PROVE LastSent(w, key, s)'
  <2>1. PICK i \in 1 .. n : /\ inbox[w][i].op = key /\ inbox[w][i].seq = s
                           /\ \A j \in 1 .. n : inbox[w][j].op = key => j <= i
    BY <1>2, <1>4 DEF LastSent
  <2>2. i \in DOMAIN inbox'[w] /\ inbox'[w][i].op = key /\ inbox'[w][i].seq = s
    BY <1>2, <2>1
  <2>3. ASSUME NEW j \in DOMAIN inbox'[w], inbox'[w][j].op = key PROVE j <= i
    <3>1. j # n + 1
      BY <1>2, <1>4, <2>3
    <3>2. j \in 1 .. n
      BY <1>2, <3>1
    <3> QED
      BY <1>2, <2>1, <2>3, <3>2
  <2> QED
    BY <2>2, <2>3 DEF LastSent
<1>5. ASSUME c.op # key, NoneSent(w, key) PROVE NoneSent(w, key)'
  <2>1. ASSUME NEW j \in DOMAIN inbox'[w] PROVE inbox'[w][j].op # key
    <3>1. j = n + 1 \/ j \in 1 .. n
      BY <1>2
    <3> QED
      BY <1>2, <1>5, <3>1 DEF NoneSent
  <2> QED
    BY <2>1 DEF NoneSent
<1>6. Held(w, key, s) => Held(w, key, s)'
  BY DEF Held, Receiving
<1> QED
  BY <1>3, <1>4, <1>5, <1>6 DEF WithWorker

\* A step of a worker moves an operation along, and never drops it.
LEMMA WorkerDelivery ==
  ASSUME Base, RetireInv, CommandInv, DeliveryInv, NEW v \in Workers, WorkerStep(v),
         UNCHANGED engineVars, phase # "stopped",
         NEW d \in Displays, NEW key \in InflightKey, inflight[d][key] # NoSeq
  PROVE  Located(d, key, inflight[d][key])'
<1>1. PICK w : w = Registered(d)
  OBVIOUS
<1>2. PICK s : s = inflight[d][key]
  OBVIOUS
<1>3. w \in Workers /\ ~retired[w] /\ s \in SeqNo /\ NoneSent(w, "Shutdown") /\ Located(d, key, s)
  BY <1>1, <1>2, WatchedHasWorker DEF CommandInv, DeliveryInv
<1>4. Typed(v) /\ Speaks(v) /\ Delivers(v)
  BY WorkerStepType, WorkerStepKeeps DEF Base
<1>5. /\ workers'[d] = workers[d] /\ Unread \subseteq Unread'
      /\ Registered(d)' = w /\ inflight'[d][key] = s
  BY <1>1, <1>2, <1>4 DEF Speaks, engineVars, opVars, healthVars, Registered
<1>6. Located(d, key, s)'
  <2>1. CASE WithWorker(w, key, s) /\ v = w
    <3>1. WithWorker(w, key, s)' \/ Answered(w, key, s)'
      BY <1>3, <1>4, <2>1 DEF Delivers
    <3> QED
      BY <1>5, <3>1, LocatedAt
  <2>2. CASE v # w
    <3>1. inbox'[w] = inbox[w] /\ thread'[w] = thread[w] /\ local'[w] = local[w]
      BY <1>3, <1>4, <2>2, WorkerWire DEF Base
    <3> QED
      BY <1>1, <1>3, <1>5, <3>1, LocatedKept
  <2>3. CASE Answered(w, key, s)
    <3>1. Answered(w, key, s)'
      BY <1>5, <2>3 DEF Answered, IsAnswer
    <3> QED
      BY <1>5, <3>1, LocatedAt
  <2> QED
    BY <1>1, <1>3, <2>1, <2>2, <2>3 DEF Located
<1> QED
  BY <1>5, <1>6, LocatedFor

\* A step of the engine that leaves the operation, its worker and the wire alone.
LEMMA DeliveryKept ==
  ASSUME DeliveryInv, phase # "stopped", NEW d \in Displays, NEW key \in InflightKey,
         inflight'[d][key] # NoSeq, inflight'[d][key] = inflight[d][key],
         workers'[d] = workers[d], UNCHANGED local,
         inbox'[Registered(d)] = inbox[Registered(d)],
         thread'[Registered(d)] = thread[Registered(d)],
         \A m \in Unread : IsAnswer(m, Registered(d), key, inflight[d][key]) => m \in Unread'
  PROVE  Located(d, key, inflight[d][key])'
<1>1. PICK s : s = inflight[d][key]
  OBVIOUS
<1>2. Located(d, key, s)
  BY <1>1 DEF DeliveryInv
<1>3. Located(d, key, s)'
  BY <1>1, <1>2, LocatedKept
<1> QED
  BY <1>1, <1>3, LocatedFor

LEMMA RefreshDelivery ==
  ASSUME Base, DeliveryInv, phase # "stopped", NEW seen \in SUBSET Displays, refresh(seen),
         Room(1), UNCHANGED local,
         NEW d \in Displays, NEW key \in InflightKey, inflight'[d][key] # NoSeq
  PROVE  Located(d, key, inflight[d][key])'
<1> DEFINE dropped == Gone(seen) \cup Replugged(seen) \cup Recovered(seen)
<1>1. EngineTypeOK /\ acks' = acks
  BY DEF Base, TypeOK, refresh
<1>2. CASE d \in Respawned(seen)
  <2>1. PICK w : w = <<d, next_gen[d] + 1>>
    OBVIOUS
  <2>2. next_gen[d] \in 0 .. MaxGen /\ next_gen[d] + 1 <= MaxGen
    BY <1>1 DEF EngineTypeOK, Room
  <2>3. w \in Workers /\ w[1] = d /\ w[2] = next_gen[d] + 1
    BY <2>1, <2>2, MaxGenAssumption DEF Workers
  <2>4. Registered(d)' = w
    BY <1>2, <2>1 DEF refresh, Registered
  <2>5. inbox'[w] = <<FirstCommand(d)>>
    BY <1>2, <2>3 DEF refresh
  <2>6. inflight'[d] = [NothingInFlight EXCEPT ![FirstCommand(d).op] = seq[d] + 1]
    BY <1>2 DEF refresh
  <2>7. FirstCommand(d).op \in InflightKey /\ FirstCommand(d).seq = seq[d] + 1
    BY <1>1, FirstCommandType DEF FirstCommand, GetCommand, SetCommand
  <2>8. key = FirstCommand(d).op /\ inflight'[d][key] = FirstCommand(d).seq
    BY <2>6, <2>7 DEF NothingInFlight
  <2>9. PICK c : c = FirstCommand(d)
    OBVIOUS
  <2>10. WithWorker(w, key, c.seq)'
    BY <2>5, <2>8, <2>9 DEF WithWorker, LastSent
  <2>11. Located(d, key, c.seq)'
    BY <2>4, <2>10, LocatedAt
  <2> QED
    BY <2>8, <2>9, <2>11, LocatedFor
<1>3. CASE d \notin Respawned(seen)
  <2>1. inflight'[d] = ForgetOps(dropped)[d]
    BY <1>3 DEF refresh
  <2>2. d \notin dropped
    BY <2>1 DEF ForgetOps, NothingInFlight
  <2>3. inflight'[d] = inflight[d] /\ workers'[d] = workers[d]
    BY <1>3, <2>1, <2>2 DEF refresh, ForgetOps
  <2> HIDE DEF dropped
  <2>4. HasWorker(d)
    <3>1. d \in Watched
      BY <2>3 DEF Watched
    <3> QED
      BY <3>1 DEF Base, HealthInv, Healthy
  <2>5. Registered(d) \in Workers /\ Registered(d)[1] = d
    BY <1>1, <2>4, MaxGenAssumption DEF EngineTypeOK, HasWorker, NoWorker, Registered, Workers
  <2>6. inbox'[Registered(d)] = inbox[Registered(d)] /\ thread'[Registered(d)] = thread[Registered(d)]
    BY <1>3, <2>5 DEF refresh
  <2> QED
    BY <1>1, <2>3, <2>6, UnreadSame, DeliveryKept
<1> QED
  BY <1>2, <1>3

\* One more command for a worker: the one watched for its kind from now on.
LEMMA SendDelivery ==
  ASSUME Base, RetireInv, DeliveryInv, phase # "stopped",
         NEW d \in Displays, NEW c \in WorkerCommand, Registered(d) \in Workers,
         inbox'[Registered(d)] = Append(inbox[Registered(d)], c),
         c.op \in InflightKey, inflight'[d] = [inflight[d] EXCEPT ![c.op] = c.seq],
         UNCHANGED <<workers, thread, acks, local>>,
         NEW key \in InflightKey, inflight'[d][key] # NoSeq
  PROVE  Located(d, key, inflight[d][key])'
<1>1. TypeOK /\ inflight[d] \in [InflightKey -> Nat]
  BY DEF Base, TypeOK, EngineTypeOK
<1>2. PICK w \in Workers : w = Registered(d)
  OBVIOUS
<1>3. Registered(d)' = w
  BY <1>2 DEF Registered
<1>4. inbox'[w] = Append(inbox[w], c) /\ thread'[w] = thread[w] /\ local'[w] = local[w]
  BY <1>2
<1>5. CASE key = c.op
  <2>1. inflight'[d][key] = c.seq
    BY <1>1, <1>5
  <2>2. WithWorker(w, key, c.seq)'
    BY <1>1, <1>4, <1>5, AppendedCommand
  <2>3. Located(d, key, c.seq)'
    BY <1>3, <2>2, LocatedAt
  <2> QED
    BY <2>1, <2>3, LocatedFor
<1>6. CASE key # c.op
  <2>1. PICK s : s = inflight[d][key]
    OBVIOUS
  <2>2. inflight'[d][key] = s
    BY <1>1, <1>6, <2>1
  <2>3. Located(d, key, s)
    BY <2>1, <2>2 DEF DeliveryInv
  <2>4. WithWorker(w, key, s) => WithWorker(w, key, s)'
    BY <1>1, <1>4, <1>6, AppendedCommand
  <2>5. Answered(w, key, s) => Answered(w, key, s)'
    BY UnreadSame DEF Answered, IsAnswer
  <2>6. WithWorker(w, key, s)' \/ Answered(w, key, s)'
    BY <1>2, <2>3, <2>4, <2>5 DEF Located
  <2>7. Located(d, key, s)'
    BY <1>3, <2>6, LocatedAt
  <2> QED
    BY <2>2, <2>7, LocatedFor
<1> QED
  BY <1>5, <1>6

LEMMA DispatchDelivery ==
  ASSUME Base, RetireInv, DeliveryInv, phase # "stopped",
         NEW e \in Displays, NEW k \in Feature, NEW raw \in Nat, Dispatch(e, k, raw),
         UNCHANGED <<workers, thread, acks, local>>,
         NEW d \in Displays, NEW key \in InflightKey, inflight'[d][key] # NoSeq
  PROVE  Located(d, key, inflight[d][key])'
<1> DEFINE c == SetCommand(k, raw, seq[e] + 1)
<1>1. /\ EngineTypeOK /\ inflight \in [Displays -> [InflightKey -> Nat]]
      /\ inbox \in [Workers -> Seq(WorkerCommand)]
  BY DEF Base, TypeOK, EngineTypeOK, ProtocolTypeOK
<1>2. c \in WorkerCommand /\ c.op = k /\ c.seq = seq[e] + 1 /\ c.op \in InflightKey
  <2>1. seq[e] + 1 \in Nat
    BY <1>1 DEF EngineTypeOK
  <2>2. c \in WorkerCommand
    BY <2>1, CommandType
  <2> QED
    BY <2>2 DEF SetCommand, InflightKey
<1>3. CASE Reachable(e)
  <2>1. inbox' = [inbox EXCEPT ![Registered(e)] = Append(@, c)]
    BY <1>3 DEF Dispatch
  <2>2. inflight' = [inflight EXCEPT ![e][k] = c.seq]
    BY <1>2, <1>3 DEF Dispatch
  <2>3. Registered(e) \in Workers
    <3>1. workers[e] \in 0 .. MaxGen /\ workers[e] # 0
      BY <1>1, <1>3 DEF EngineTypeOK, Reachable, HasWorker, NoWorker
    <3>2. workers[e] \in 1 .. MaxGen
      BY <3>1, MaxGenAssumption
    <3> QED
      BY <3>2 DEF Registered, Workers
  <2> HIDE DEF c
  <2>4. CASE d = e
    <3>1. inflight'[d] = [inflight[d] EXCEPT ![c.op] = c.seq]
      BY <1>1, <1>2, <2>2, <2>4
    <3>2. inbox'[Registered(d)] = Append(inbox[Registered(d)], c) /\ Registered(d) \in Workers
      BY <1>1, <2>1, <2>3, <2>4
    <3> QED
      BY <1>2, <3>1, <3>2, SendDelivery
  <2>5. CASE d # e
    <3>1. inflight'[d][key] = inflight[d][key]
      BY <1>1, <2>2, <2>5
    <3>2. Registered(d) # Registered(e)
      BY <2>5 DEF Registered
    <3>3. inbox'[Registered(d)] = inbox[Registered(d)]
      BY <2>1, <3>2
    <3> QED
      BY <3>1, <3>3, UnreadSame, DeliveryKept
  <2> QED
    BY <2>4, <2>5
<1>4. CASE ~Reachable(e)
  <2>1. inbox' = inbox /\ inflight' = inflight
    BY <1>4 DEF Dispatch
  <2> QED
    BY <2>1, UnreadSame, DeliveryKept
<1> QED
  BY <1>3, <1>4

LEMMA PollDelivery ==
  ASSUME Base, RetireInv, DeliveryInv, PollLevels, UNCHANGED local,
         NEW d \in Displays, NEW key \in InflightKey, inflight'[d][key] # NoSeq
  PROVE  Located(d, key, inflight[d][key])'
<1> DEFINE sent == {e \in {e \in Displays : Pollable(e)} : Reachable(e)}
           c    == GetCommand(seq[d] + 1)
<1>1. /\ EngineTypeOK /\ phase # "stopped" /\ UNCHANGED <<workers, thread, acks>>
  BY DEF Base, TypeOK, PollLevels, healthVars
<1>2. CASE d \in sent
  <2>1. Registered(d) \in Workers /\ Registered(d)[1] = d
    BY <1>1, <1>2, MaxGenAssumption
       DEF EngineTypeOK, Reachable, HasWorker, NoWorker, Registered, Workers
  <2>2. c \in WorkerCommand /\ c.op = "Get" /\ c.seq = seq[d] + 1 /\ c.op \in InflightKey
    BY <1>1 DEF EngineTypeOK, GetCommand, WorkerCommand, InflightKey
  <2>3. inbox'[Registered(d)] = Append(inbox[Registered(d)], c)
    BY <1>2, <2>1 DEF PollLevels
  <2>4. inflight'[d] = [inflight[d] EXCEPT ![c.op] = c.seq]
    BY <1>2, <2>2 DEF PollLevels
  <2> HIDE DEF c
  <2> QED
    BY <1>1, <2>1, <2>2, <2>3, <2>4, SendDelivery
<1>3. CASE d \notin sent
  <2>1. inflight'[d] = inflight[d]
    BY <1>3 DEF PollLevels
  <2>2. HasWorker(d)
    <3>1. d \in Watched
      BY <2>1 DEF Watched
    <3> QED
      BY <1>1, <3>1 DEF Base, HealthInv, Healthy
  <2>3. Registered(d) \in Workers /\ Registered(d)[1] = d
    BY <1>1, <2>2, MaxGenAssumption DEF EngineTypeOK, HasWorker, NoWorker, Registered, Workers
  <2>4. inbox'[Registered(d)] = inbox[Registered(d)]
    BY <1>3, <2>3 DEF PollLevels
  <2> QED
    BY <1>1, <2>1, <2>4, UnreadSame, DeliveryKept
<1> QED
  BY <1>2, <1>3

\* What the engine forgets it no longer waits for.
LEMMA ForgetDelivery ==
  ASSUME DeliveryInv, phase # "stopped", NEW ids, surface_unresponsive(ids),
         UNCHANGED <<inbox, thread, local>>,
         NEW d \in Displays, NEW key \in InflightKey, inflight'[d][key] # NoSeq,
         d \notin ids => \A m \in Unread :
           IsAnswer(m, Registered(d), key, inflight[d][key]) => m \in Unread'
  PROVE  Located(d, key, inflight[d][key])'
<1>1. d \notin ids
  BY DEF surface_unresponsive, ForgetOps, NothingInFlight
<1>2. inflight'[d][key] = inflight[d][key] /\ workers'[d] = workers[d]
  BY <1>1 DEF surface_unresponsive, ForgetOps
<1> QED
  BY <1>1, <1>2, DeliveryKept

\* An ack ends the operation it answers, or answers none that is watched.
LEMMA AckDelivery ==
  ASSUME Base, RetireInv, ReportInv, DeliveryInv, HandleAck, UNCHANGED local,
         NEW d \in Displays, NEW key \in InflightKey, inflight'[d][key] # NoSeq
  PROVE  Located(d, key, inflight[d][key])'
<1> DEFINE s == inflight[d][key]
<1>1. /\ phase # "stopped" /\ acks # <<>> /\ acks' = Tail(acks) /\ UNCHANGED <<inbox, thread>>
  BY DEF HandleAck, AckSet, AckGetUnusable, AckGetLearned, AckPollHeals, AckPollReflects,
     AckGetNoted, AckPanicked, AckOpenFailed, AckSoftwareFallback, TakeReading, Receive
<1>2. EngineTypeOK /\ inflight \in [Displays -> [InflightKey -> Nat]]
  BY DEF Base, TypeOK, EngineTypeOK
<1>3. ack \in Unread /\ \A m \in Unread : m = ack \/ m \in Unread'
  BY <1>1, UnreadTyped, UnreadReceived DEF Base
<1>4. /\ ack.outcome = "Get" => ack.key = "Get"
      /\ ack.id \in Displays /\ ack.key \in InflightKey
  BY <1>1, <1>2, <1>3, AckType DEF ReportInv
<1>5. ASSUME workers'[d] = workers[d], inflight'[d][key] = s,
             ~IsAnswer(ack, Registered(d), key, s)
      PROVE  Located(d, key, inflight[d][key])'
  <2>1. \A m \in Unread : IsAnswer(m, Registered(d), key, s) => m \in Unread'
    BY <1>3, <1>5, Zenon
  <2> QED
    BY <1>1, <1>5, <2>1, DeliveryKept
<1>6. ASSUME NEW k \in InflightKey, inflight' = ClearMatch(ack.id, k, ack.seq)
      PROVE  inflight'[d][key] = s /\ ~(d = ack.id /\ key = k /\ s = ack.seq)
  BY <1>2, <1>4, <1>6 DEF ClearMatch, Fresh
<1>7. CASE AckSet
  <2>1. inflight' = ClearMatch(ack.id, ack.key, ack.seq) /\ workers' = workers
        /\ ack.outcome = "Set"
    BY <1>7 DEF AckSet, Receive, healthVars
  <2>2. inflight'[d][key] = s /\ ~(d = ack.id /\ key = ack.key /\ s = ack.seq)
    BY <1>4, <1>6, <2>1
  <2>3. ~IsAnswer(ack, Registered(d), key, s)
    BY <2>1, <2>2 DEF IsAnswer, Registered
  <2> QED
    BY <1>5, <2>1, <2>2, <2>3
<1>8. CASE AckGetUnusable \/ AckGetLearned \/ AckPollHeals \/ AckPollReflects \/ AckGetNoted
  <2>1. inflight' = ClearMatch(ack.id, "Get", ack.seq) /\ workers' = workers
        /\ ack.outcome = "Get"
    BY <1>8 DEF AckGetUnusable, AckGetLearned, AckPollHeals, AckPollReflects, AckGetNoted,
       TakeReading, Receive, healthVars
  <2>2. inflight'[d][key] = s /\ ~(d = ack.id /\ key = "Get" /\ s = ack.seq)
    BY <1>6, <2>1 DEF InflightKey
  <2>3. ~IsAnswer(ack, Registered(d), key, s)
    BY <1>4, <2>1, <2>2 DEF IsAnswer, Registered
  <2> QED
    BY <1>5, <2>1, <2>2, <2>3
<1>9. CASE AckSoftwareFallback
  <2>1. workers' = workers /\ inflight' = inflight /\ ack.outcome = "SoftwareFallback"
    BY <1>9 DEF AckSoftwareFallback, Receive, opVars
  <2>2. ~IsAnswer(ack, Registered(d), key, s)
    BY <2>1 DEF IsAnswer
  <2> QED
    BY <1>5, <2>1, <2>2
\* The end of a worker that is still registered ends what it was asked.
<1>10. ASSUME ack.outcome \in {"Panicked", "OpenFailed"}, s # NoSeq,
              IsAnswer(ack, Registered(d), key, s)
       PROVE  FromRegistered /\ ack.id = d /\ CanMarkUnresponsive(records[ack.id])
  <2>1. ack.id = d /\ ack.generation = workers[d]
    BY <1>10 DEF IsAnswer, Registered
  <2>2. HasWorker(d) /\ CanMarkUnresponsive(records[d])
    BY <1>1, <1>10, WatchedHasWorker
  <2> QED
    BY <2>1, <2>2 DEF FromRegistered
<1>11. CASE AckPanicked
  <2>1. ack.outcome = "Panicked"
    BY <1>11 DEF AckPanicked, Receive
  <2>2. CASE FromRegistered /\ CanMarkUnresponsive(records[ack.id])
    <3>1. surface_unresponsive({ack.id})
      <4>1. {e \in {ack.id} : CanMarkUnresponsive(records[e])} = {ack.id}
        BY <2>2
      <4>2. mark_stuck({ack.id})
        BY <1>11, <2>2 DEF AckPanicked
      <4> QED
        BY <4>1, <4>2 DEF mark_stuck
    <3>2. d # ack.id => ~IsAnswer(ack, Registered(d), key, s)
      BY DEF IsAnswer, Registered
    <3>3. d \notin {ack.id} => \A m \in Unread : IsAnswer(m, Registered(d), key, s) => m \in Unread'
      BY <1>3, <3>2, Zenon
    <3> QED
      BY <1>1, <3>1, <3>3, ForgetDelivery
  <2>3. CASE ~(FromRegistered /\ CanMarkUnresponsive(records[ack.id]))
    <3>1. inflight' = ClearMatch(ack.id, ack.key, ack.seq) /\ workers' = workers
      BY <1>11, <2>3 DEF AckPanicked
    <3>2. inflight'[d][key] = s
      BY <1>4, <1>6, <3>1
    <3> QED
      BY <1>5, <1>10, <2>1, <2>3, <3>1, <3>2
  <2> QED
    BY <2>2, <2>3
<1>12. CASE AckOpenFailed
  <2>1. ack.outcome = "OpenFailed"
    BY <1>12 DEF AckOpenFailed, Receive
  <2>2. CASE FromRegistered
    <3>1. surface_unresponsive({ack.id})
      BY <1>12, <2>2 DEF AckOpenFailed
    <3>2. d # ack.id => ~IsAnswer(ack, Registered(d), key, s)
      BY DEF IsAnswer, Registered
    <3>3. d \notin {ack.id} => \A m \in Unread : IsAnswer(m, Registered(d), key, s) => m \in Unread'
      BY <1>3, <3>2, Zenon
    <3> QED
      BY <1>1, <3>1, <3>3, ForgetDelivery
  <2>3. CASE ~FromRegistered
    <3>1. inflight' = inflight /\ workers' = workers
      BY <1>12, <2>3 DEF AckOpenFailed, opVars
    <3> QED
      BY <1>5, <1>10, <2>1, <2>3, <3>1
  <2> QED
    BY <2>2, <2>3
<1> QED
  BY <1>7, <1>8, <1>9, <1>11, <1>12 DEF HandleAck

LEMMA EngineDelivery ==
  ASSUME Base, RetireInv, ReportInv, DeliveryInv, EngineNext, UNCHANGED local,
         phase # "stopped", phase' # "stopped",
         NEW d \in Displays, NEW key \in InflightKey, inflight'[d][key] # NoSeq
  PROVE  Located(d, key, inflight[d][key])'
<1>1. EngineTypeOK
  BY DEF Base, TypeOK
<1>2. ASSUME NEW seen \in SUBSET Displays, Startup(seen) \/ DebounceFires(seen) \/ RefreshNow(seen)
      PROVE  Located(d, key, inflight[d][key])'
  <2>1. refresh(seen) /\ Room(1)
    BY <1>1, <1>2, RoomForOne DEF Startup, DebounceFires, RefreshNow
  <2> QED
    BY <2>1, RefreshDelivery
<1>3. CASE PlatformEvent \/ \E on \in BOOLEAN : SetLevelPolling(on)
  <2>1. UNCHANGED <<inflight, workers, inbox, thread, acks>>
    BY <1>3 DEF PlatformEvent, SetLevelPolling, opVars, healthVars, channels
  <2> QED
    BY <2>1, UnreadSame, DeliveryKept
<1>4. ASSUME NEW e \in Displays, NEW pct \in Levels, SetUserLevel(e, pct)
      PROVE  Located(d, key, inflight[d][key])'
  <2>1. UNCHANGED <<workers, thread, acks>> /\ dispatch_set(e, pct)
    BY <1>4 DEF SetUserLevel
  <2>2. pct_to_raw(pct, brightness_max[e]) \in Nat
    BY <1>1, EngineAssumption, PctToRawType DEF EngineTypeOK
  <2>3. CASE IsResponsive(records[e])
    BY <2>1, <2>2, <2>3, DispatchDelivery DEF dispatch_set, Feature
  <2>4. CASE ~IsResponsive(records[e])
    <3>1. inbox' = inbox /\ inflight' = inflight
      BY <2>1, <2>4 DEF dispatch_set
    <3> QED
      BY <2>1, <3>1, UnreadSame, DeliveryKept
  <2> QED
    BY <2>3, <2>4
<1>5. ASSUME NEW e \in Displays, NEW value \in Inputs, SetInput(e, value)
      PROVE  Located(d, key, inflight[d][key])'
  <2>1. UNCHANGED <<workers, thread, acks>> /\ Dispatch(e, "InputSource", value)
    BY <1>5 DEF SetInput, healthVars
  <2>2. value \in Nat /\ "InputSource" \in Feature
    BY EngineAssumption DEF Feature
  <2> QED
    BY <2>1, <2>2, DispatchDelivery
<1>6. CASE ShutDown
  BY <1>6 DEF ShutDown
<1>7. CASE PollLevels
  BY <1>7, PollDelivery
<1>8. ASSUME NEW aged \in SUBSET Displays, WatchdogFires(aged)
      PROVE  Located(d, key, inflight[d][key])'
  <2>1. PICK fresh : surface_unresponsive(fresh)
    BY <1>8 DEF WatchdogFires, mark_stuck
  <2>2. UNCHANGED <<inbox, thread, acks>>
    BY <1>8 DEF WatchdogFires
  <2> QED
    BY <2>1, <2>2, UnreadSame, ForgetDelivery
<1>9. CASE HandleAck
  BY <1>9, AckDelivery
<1> QED
  BY <1>2, <1>3, <1>4, <1>5, <1>6, <1>7, <1>8, <1>9
     DEF EngineNext, Enumerates, AppCommand, Timer

LEMMA DeliveryStep ==
  ASSUME Base, RetireInv, ReportInv, CommandInv, DeliveryInv, [Next]_systemVars
  PROVE  DeliveryInv'
<1> SUFFICES ASSUME phase' # "stopped",
                    NEW d \in Displays, NEW key \in InflightKey, inflight'[d][key] # NoSeq
             PROVE  Located(d, key, inflight[d][key])'
  BY DEF DeliveryInv
<1>1. CASE EngineNext /\ UNCHANGED workerVars
  <2>1. phase # "stopped" /\ UNCHANGED local
    BY <1>1 DEF workerVars, EngineNext, Enumerates, Startup, DebounceFires, RefreshNow, PlatformEvent,
       AppCommand, SetUserLevel, SetInput, SetLevelPolling, ShutDown, Timer, PollLevels,
       WatchdogFires, HandleAck, AckSet, AckGetUnusable, AckGetLearned, AckPollHeals,
       AckPollReflects, AckGetNoted, AckPanicked, AckOpenFailed, AckSoftwareFallback,
       TakeReading, Receive
  <2> QED
    BY <1>1, <2>1, EngineDelivery
<1>2. ASSUME NEW v \in Workers, WorkerStep(v), UNCHANGED engineVars
      PROVE  Located(d, key, inflight[d][key])'
  <2>1. phase # "stopped" /\ inflight[d][key] # NoSeq
    BY <1>2 DEF engineVars, loopVars, opVars
  <2> QED
    BY <1>2, <2>1, WorkerDelivery
<1>3. CASE UNCHANGED <<engineVars, channels, local>>
  <2>1. /\ phase # "stopped" /\ inflight' = inflight
        /\ UNCHANGED <<workers, inbox, thread, acks, local>>
    BY <1>3 DEF engineVars, loopVars, opVars, healthVars, channels
  <2> QED
    BY <2>1, UnreadSame, DeliveryKept
<1> QED
  BY <1>1, <1>2, <1>3
     DEF Next, WorkerNext, Terminated, Hang, OutsideChange, systemVars, vars, workerVars

SystemInv == Base /\ RetireInv /\ ReportInv /\ CommandInv /\ DeliveryInv

LEMMA SystemInvCorrect == Spec => []SystemInv
<1>1. Init => SystemInv
  <2> SUFFICES ASSUME Init PROVE SystemInv
    OBVIOUS
  <2>1. Base
    BY SystemInit, HealthInit, ThreadInit DEF Init, Base
  <2>2. /\ acks = <<>> /\ \A w \in Workers : inbox[w] = <<>> /\ ~retired[w]
        /\ \A d \in Displays : workers[d] = NoWorker /\ inflight[d] = NothingInFlight
    BY DEF Init, EngineInit, ProtocolInit
  <2>3. RetireInv
    BY <2>2 DEF RetireInv, HasWorker
  <2>4. ReportInv
    BY <2>2 DEF ReportInv, Unread
  <2>5. CommandInv
    BY <2>2 DEF CommandInv, NoneSent
  <2>6. DeliveryInv
    BY <2>2 DEF DeliveryInv, NothingInFlight
  <2> QED
    BY <2>1, <2>3, <2>4, <2>5, <2>6 DEF SystemInv
<1>2. SystemInv /\ [Next]_systemVars => SystemInv'
  <2> SUFFICES ASSUME SystemInv, [Next]_systemVars PROVE SystemInv'
    OBVIOUS
  <2>1. Base /\ RetireInv /\ ReportInv /\ CommandInv /\ DeliveryInv
    BY DEF SystemInv
  <2>2. Base'
    BY <2>1, BaseStep
  <2>3. RetireInv'
    BY <2>1, SystemStep, RetireStep DEF Base, TypeOK
  <2>4. ReportInv'
    BY <2>1, ReportStep
  <2>5. CommandInv'
    BY <2>1, CommandStep
  <2>6. DeliveryInv'
    BY <2>1, DeliveryStep
  <2> QED
    BY <2>2, <2>3, <2>4, <2>5, <2>6 DEF SystemInv
<1> QED
  BY <1>1, <1>2, PTL DEF Spec

\* Every operation the watchdog times is on its way to an answer: nothing the
\* engine, its workers or the channels do loses one, so the watchdog only ever
\* blames a driver that has not answered.
THEOREM NothingWatchedIsLost == Spec => []NoLostOperation
<1>1. SystemInv => NoLostOperation
  <2> SUFFICES ASSUME SystemInv, phase = "running",
                      NEW d \in Displays, NEW key \in InflightKey, inflight[d][key] # NoSeq
               PROVE  HasWorker(d) /\ OnItsWay(d, key)
    BY DEF NoLostOperation
  <2>1. Base /\ RetireInv /\ Located(d, key, inflight[d][key])
    BY DEF SystemInv, DeliveryInv
  <2>2. HasWorker(d)
    BY <2>1, WatchedHasWorker
  <2>3. CASE WithWorker(Registered(d), key, inflight[d][key])
    BY <2>2, <2>3 DEF WithWorker, LastSent, Held, OnItsWay
  <2>4. CASE Answered(Registered(d), key, inflight[d][key])
    BY <2>2, <2>4 DEF Answered, IsAnswer, Unread, OnItsWay, Registered
  <2> QED
    BY <2>1, <2>2, <2>3, <2>4 DEF Located
<1> QED
  BY <1>1, SystemInvCorrect, PTL

-----------------------------------------------------------------------------
(* Whose fault it is.                                                      *)

\* A display is greyed because its own worker is gone or too slow, never
\* because of what an earlier worker of it left in the ack channel.
THEOREM OnlyTheGuiltyAreGreyed == Spec => NoBystanderGreyed
<1> DEFINE Fair(d) == \/ thread[Registered(d)] = "exited"
                      \/ acks' = acks /\ d \in Watched
<1>1. ASSUME SystemInv, [Next]_systemVars, NEW d \in unresponsive' \ unresponsive
      PROVE  Fair(d)
  <2>1. Base /\ ReportInv /\ TypeOK
    BY <1>1 DEF SystemInv, Base
  <2>2. EngineNext
    BY <1>1 DEF Next, WorkerNext, Terminated, systemVars, vars, engineVars, healthVars
  <2>3. CASE Enumerates
    BY <1>1, <2>3 DEF Enumerates, Startup, DebounceFires, RefreshNow, refresh, PruneTo
  <2>4. CASE PlatformEvent \/ AppCommand \/ PollLevels
    BY <1>1, <2>4 DEF PlatformEvent, AppCommand, SetUserLevel, SetInput, SetLevelPolling,
       ShutDown, PollLevels, PruneTo, healthVars
  <2>5. ASSUME NEW ids, surface_unresponsive(ids)
        PROVE  d \in ids
    BY <1>1, <2>5 DEF surface_unresponsive, PruneTo
  <2>6. ASSUME NEW aged \in SUBSET Displays, WatchdogFires(aged)
        PROVE  Fair(d)
    <3>1. PICK ids \in SUBSET aged : surface_unresponsive(ids)
      BY <2>6 DEF WatchdogFires, mark_stuck
    <3> QED
      BY <2>5, <2>6, <3>1 DEF WatchdogFires
  <2>7. CASE AckPanicked \/ AckOpenFailed
    <3>1. acks # <<>> /\ acks' = Tail(acks) /\ ack.outcome \in {"Panicked", "OpenFailed"}
      BY <2>7 DEF AckPanicked, AckOpenFailed, Receive
    <3>2. FromRegistered /\ d = ack.id
      <4>1. PICK ids \in SUBSET {ack.id} : surface_unresponsive(ids)
        BY <1>1, <2>7 DEF AckPanicked, AckOpenFailed, mark_stuck
      <4>2. FromRegistered
        BY <1>1, <2>7 DEF AckPanicked, AckOpenFailed
      <4> QED
        BY <2>5, <4>1, <4>2
    <3>3. ack \in Unread
      BY <2>1, <3>1, UnreadTyped, UnreadReceived
    <3>4. thread[<<ack.id, ack.generation>>] = "exited"
      BY <2>1, <3>1, <3>3 DEF ReportInv
    <3> QED
      BY <3>2, <3>4 DEF FromRegistered, Registered
  <2>8. CASE \/ AckSet \/ AckGetUnusable \/ AckGetLearned \/ AckPollHeals
             \/ AckPollReflects \/ AckGetNoted \/ AckSoftwareFallback
    BY <1>1, <2>8 DEF AckSet, AckGetUnusable, AckGetLearned, AckPollHeals, AckPollReflects,
       AckGetNoted, AckSoftwareFallback, PruneTo, healthVars
  <2> QED
    BY <2>2, <2>3, <2>4, <2>6, <2>7, <2>8 DEF EngineNext, Timer, HandleAck
<1>2. SystemInv /\ [Next]_systemVars =>
        [\A d \in unresponsive' \ unresponsive : Fair(d)]_systemVars
  BY <1>1
<1> QED
  BY <1>2, SystemInvCorrect, PTL DEF Spec, NoBystanderGreyed

-----------------------------------------------------------------------------
(* One late write at most.  The thread that lands it leaves with it.       *)

LateInv == \A w \in Workers : late[w] # 0 => late[w] = 1 /\ thread[w] = "exited"

LEMMA LateStep ==
  ASSUME Base, LateInv, [Next]_systemVars
  PROVE  LateInv'
<1> SUFFICES ASSUME NEW w \in Workers, late'[w] # 0
             PROVE  late'[w] = 1 /\ thread'[w] = "exited"
  BY DEF LateInv
<1>1. TypeOK /\ late \in [Workers -> Nat] /\ (late[w] # 0 => late[w] = 1 /\ thread[w] = "exited")
  BY DEF Base, TypeOK, WorkerTypeOK, LateInv
<1>2. CASE EngineNext /\ UNCHANGED late
  BY <1>1, <1>2, EngineThreads
<1>3. ASSUME NEW v \in Workers, WorkerStep(v), UNCHANGED late
      PROVE  late'[w] = 1 /\ thread'[w] = "exited"
  BY <1>1, <1>3, WorkerStepType, WorkerWire
<1>4. ASSUME NEW v \in Workers, FinishWrite(v)
      PROVE  late'[w] = 1 /\ thread'[w] = "exited"
  <2>1. PICK result \in WriteResult : Lands(v, result) /\ WriteEnds(v, result)
    BY <1>1, <1>4, WriteOutcomes
  <2>2. late' = [late EXCEPT ![v] = @ + (IF retired[v] THEN 1 ELSE 0)]
    BY <2>1 DEF Lands
  <2>3. Typed(v)
    BY <1>1, <1>4, FinishWriteType
  <2>4. CASE w # v
    BY <1>1, <2>2, <2>3, <2>4, WorkerWire
  <2>5. CASE w = v
    <3>1. late[w] = 0
      BY <1>1, <1>4, <2>5 DEF FinishWrite, At
    <3>2. retired[v] /\ late'[w] = 1
      BY <1>1, <2>2, <2>5, <3>1
    <3>3. Exit(w)
      BY <2>1, <2>5, <3>2 DEF WriteEnds
    <3> QED
      BY <1>1, <3>2, <3>3, Exited
  <2> QED
    BY <2>4, <2>5
<1>5. CASE UNCHANGED <<channels, late>>
  BY <1>1, <1>5 DEF channels
<1>6. ASSUME NEW v \in Workers, WorkerStep(v)
      PROVE  FinishWrite(v) \/ UNCHANGED late
  BY <1>6 DEF WorkerStep, Starts, Waits, Performs, Verifies, Open, OpenFails, Absorb, GapElapses,
     Disconnected, PerformRead, BeginWrites, VerifyMoot, VerifyRead, WorkerFrame
<1> QED
  BY <1>2, <1>3, <1>4, <1>5, <1>6
     DEF Next, WorkerNext, Terminated, Hang, OutsideChange, systemVars, vars, workerVars

\* Of all a worker had queued when it was retired, at most the one call it was
\* in reaches the panel, whatever it was doing and however long it takes.
THEOREM OneLateWrite == Spec => []AtMostOneLateWrite
<1>1. Init => LateInv
  BY DEF Init, WorkerInit, LateInv
<1>2. Spec => []LateInv
  BY <1>1, BaseCorrect, LateStep, PTL DEF Spec
<1>3. LateInv /\ TypeOK => AtMostOneLateWrite
  BY DEF LateInv, AtMostOneLateWrite, TypeOK, WorkerTypeOK
<1> QED
  BY <1>2, <1>3, SystemTypeCorrect, PTL

-----------------------------------------------------------------------------
(* A panel whose driver works is never taken for one without brightness    *)
(* control.  Nothing that could show the contrary ever holds: no value     *)
(* asked for that the panel cannot take, no read-back far from the target, *)
(* no verdict on its way, no verdict recorded.                             *)

\* A thread that does not run has nothing in its locals.
IdleInv == \A w \in Workers : thread[w] # "running" => local[w] = NewLocals

\* The most that can be asked of a panel such that its read-back will do.
Ceiling(d) == PanelMax[d] + BRIGHTNESS_VERIFY_TOLERANCE

\* Every panel takes what is asked of one of the default range.
Ranged == \A d \in Displays : 100 <= Ceiling(d)

Modest(l, d) ==
  /\ l.latest["Brightness"].raw <= Ceiling(d)
  /\ l.feature = "Brightness" => l.write.raw <= Ceiling(d)

Calm(l, d) == ~l.noop /\ Modest(l, d)

Honest(m, d) == m.outcome # "SoftwareFallback" /\ m.max <= Ceiling(d)

Trusted(d) ==
  /\ ~records[d].software_forced
  /\ brightness_max[d] <= Ceiling(d)
  /\ \A m \in Unread : m.id = d => Honest(m, d)
  /\ \A w \in Workers : w[1] = d =>
       /\ Calm(local[w], d)
       /\ \A i \in DOMAIN inbox[w] :
            inbox[w][i].op = "Brightness" => inbox[w][i].raw <= Ceiling(d)
       /\ At(w, "verifying") /\ ~retired[w] => ~Distant(panel[d], local[w].write.raw)

TrustInv == \A d \in Displays : d \notin disturbed => Trusted(d)

LEMMA CeilingType ==
  ASSUME NEW d \in Displays
  PROVE  Ceiling(d) \in Nat /\ PanelMax[d] \in Nat /\ Ceiling(d) = PanelMax[d] + 2
BY WorkerAssumption DEF Ceiling, BRIGHTNESS_VERIFY_TOLERANCE

LEMMA IdleStep ==
  ASSUME Base, IdleInv, [Next]_systemVars
  PROVE  IdleInv'
<1> SUFFICES ASSUME NEW w \in Workers, thread'[w] # "running"
             PROVE  local'[w] = NewLocals
  BY DEF IdleInv
<1>1. TypeOK /\ local \in [Workers -> Locals]
      /\ thread \in [Workers -> {"none", "running", "exited"}]
  BY DEF Base, TypeOK, WorkerTypeOK, EngineTypeOK, ProtocolTypeOK
<1>2. CASE EngineNext /\ UNCHANGED local
  <2>1. thread[w] # "running"
    BY <1>2, EngineThreads
  <2> QED
    BY <1>2, <2>1 DEF IdleInv
<1>3. ASSUME NEW v \in Workers, WorkerStep(v)
      PROVE  local'[w] = NewLocals
  <2>1. Typed(v)
    BY <1>1, <1>3, WorkerStepType
  <2>2. CASE w # v
    BY <1>1, <2>1, <2>2, WorkerWire DEF IdleInv
  <2>3. CASE w = v
    <3>1. Exit(w)
      BY <1>1, <2>1, <2>3 DEF Typed
    <3> QED
      BY <1>1, <3>1 DEF Exit, Become
  <2> QED
    BY <2>2, <2>3
<1>4. CASE UNCHANGED <<channels, local>>
  BY <1>4 DEF channels, IdleInv
<1> QED
  BY <1>2, <1>3, <1>4
     DEF Next, WorkerNext, Terminated, Hang, OutsideChange, systemVars, vars, workerVars

LEMMA AckHonest ==
  ASSUME NEW w \in Workers, NEW s \in Nat, NEW key \in InflightKey, NEW current \in Nat
  PROVE  \A m \in {SetAck(w, key, s), Panicked(w, key, s), OpenFailed(w), GetFailed(w, s),
                   GetAck(w, s, current, PanelMax[w[1]])} :
           m \in WorkerAck /\ Honest(m, w[1])
<1>1. w[1] \in Displays /\ PanelMax[w[1]] \in Nat /\ Ceiling(w[1]) \in Nat
      /\ PanelMax[w[1]] <= Ceiling(w[1])
  <2>1. w[1] \in Displays
    BY DEF Workers
  <2> QED
    BY <2>1, CeilingType
<1>2. /\ SetAck(w, key, s) \in WorkerAck /\ Panicked(w, key, s) \in WorkerAck
      /\ OpenFailed(w) \in WorkerAck /\ GetFailed(w, s) \in WorkerAck
      /\ GetAck(w, s, current, PanelMax[w[1]]) \in WorkerAck
  BY <1>1, AckTypes
<1>3. /\ SetAck(w, key, s).max = 0 /\ Panicked(w, key, s).max = 0
      /\ OpenFailed(w).max = 0 /\ GetFailed(w, s).max = 0
      /\ GetAck(w, s, current, PanelMax[w[1]]).max = PanelMax[w[1]]
  BY DEF SetAck, Panicked, OpenFailed, GetFailed, GetAck, Ack
<1>4. /\ SetAck(w, key, s).outcome # "SoftwareFallback"
      /\ Panicked(w, key, s).outcome # "SoftwareFallback"
      /\ OpenFailed(w).outcome # "SoftwareFallback"
      /\ GetFailed(w, s).outcome # "SoftwareFallback"
      /\ GetAck(w, s, current, PanelMax[w[1]]).outcome # "SoftwareFallback"
  BY DEF SetAck, Panicked, OpenFailed, GetFailed, GetAck, Ack
<1>5. 0 <= Ceiling(w[1])
  BY <1>1
<1> QED
  BY <1>1, <1>2, <1>3, <1>4, <1>5, Zenon DEF Honest

LEMMA NewLocalsCalm ==
  ASSUME NEW d \in Displays
  PROVE  Calm(NewLocals, d) /\ NewLocals.pc # "verifying"
<1>1. 0 <= Ceiling(d)
  BY CeilingType
<1> QED
  BY <1>1 DEF Calm, Modest, NewLocals, NoPending, Feature

LEMMA NextWriteCalm ==
  ASSUME NEW d \in Displays, NEW l \in Locals, Calm(l, d)
  PROVE  NextWrite(l).pc # "verifying" /\ Calm(NextWrite(l), d)
<1> DEFINE n == NextWrite(l)
<1>1. 0 <= Ceiling(d) /\ NoPending.raw = 0
  BY CeilingType DEF NoPending
<1>2. CASE l.ready = {}
  <2>1. n = [NewLocals EXCEPT !.pc = "parked", !.latest = l.latest, !.hot = l.hot,
                              !.known = l.known, !.settled = l.settled]
    BY <1>2 DEF NextWrite
  <2>2. n.pc = "parked" /\ ~n.noop /\ n.latest = l.latest /\ n.write = NoPending
    BY <2>1 DEF NewLocals
  <2> QED
    BY <1>1, <2>2 DEF Calm, Modest
<1>3. CASE l.ready # {}
  <2>1. PICK f \in Feature :
          n = [l EXCEPT !.pc = "writing", !.ready = @ \ {f}, !.feature = f,
                        !.write = l.latest[f], !.latest[f] = NoPending]
    BY <1>3 DEF NextWrite, Feature
  <2> DEFINE latest == [l.latest EXCEPT ![f] = NoPending]
             write  == l.latest[f]
  <2>2. latest["Brightness"].raw <= Ceiling(d)
    <3>1. l.latest["Brightness"].raw <= Ceiling(d) /\ "Brightness" \in DOMAIN l.latest
      BY LocalsFields DEF Calm, Modest, Feature
    <3> QED
      BY <1>1, <3>1
  <2>3. f = "Brightness" => write.raw <= Ceiling(d)
    BY DEF Calm, Modest
  <2>4. n.pc = "writing" /\ n.feature = f /\ n.noop = l.noop
        /\ n.write = write /\ n.latest = latest
    <3>1. n = [l EXCEPT !.pc = "writing", !.ready = @ \ {f}, !.feature = f,
                        !.write = write, !.latest = latest]
      BY <2>1, Zenon DEF Locals
    <3> HIDE DEF n, latest, write
    <3> QED
      BY <3>1 DEF Locals
  <2> HIDE DEF latest, write
  <2> QED
    BY <2>2, <2>3, <2>4 DEF Calm, Modest
<1> QED
  BY <1>2, <1>3

LEMMA WriteDoneCalm ==
  ASSUME NEW d \in Displays, NEW l \in Locals, Modest(l, d)
  PROVE  WriteDone(l).pc # "verifying" /\ Calm(WriteDone(l), d)
<1> DEFINE hot == l.hot \cup {l.feature}
           m   == [l EXCEPT !.hot = hot, !.before = NotRead, !.attempt = 0, !.noop = FALSE]
<1>1. hot \in SUBSET Feature /\ NotRead \in Int
  BY LocalsFields DEF NotRead
<1>2. m \in Locals /\ Calm(m, d)
  <2> HIDE DEF hot
  <2>1. ~m.noop /\ m.latest = l.latest /\ m.feature = l.feature /\ m.write = l.write
    BY DEF Locals
  <2> DEFINE n == [l EXCEPT !.hot = hot, !.noop = FALSE]
  <2>2. n \in Locals
    BY <1>1 DEF Locals
  <2>3. m = [n EXCEPT !.before = NotRead, !.attempt = 0]
    BY DEF Locals
  <2>4. m \in Locals
    <3> HIDE DEF n, m
    <3> QED
      BY <1>1, <2>2, <2>3 DEF Locals
  <2> HIDE DEF m
  <2> QED
    BY <2>1, <2>4 DEF Calm, Modest
<1>3. WriteDone(l) = NextWrite(m)
  BY DEF WriteDone
<1> HIDE DEF m
<1> QED
  BY <1>2, <1>3, NextWriteCalm

\* What a channel holds is modest, so the newest of it is.
LEMMA NewestModest ==
  ASSUME NEW d \in Displays, NEW q \in Seq(WorkerCommand), NEW old,
         old.raw <= Ceiling(d),
         \A i \in DOMAIN q : q[i].op = "Brightness" => q[i].raw <= Ceiling(d)
  PROVE  Newest("Brightness", q, old).raw <= Ceiling(d)
<1> DEFINE sets == {j \in DOMAIN q : q[j].op = "Brightness"}
<1>1. CASE sets = {}
  BY <1>1 DEF Newest
<1>2. CASE sets # {}
  <2> DEFINE S == {Len(q) - j : j \in sets}
  <2>1. S \subseteq Nat /\ S # {}
    BY <1>2
  <2>2. PICK m \in S : \A n \in S : m <= n
    <3> HIDE DEF S
    <3> QED
      BY <2>1, LeastNatural
  <2>3. PICK i \in sets : m = Len(q) - i
    OBVIOUS
  <2>4. ASSUME NEW j \in sets PROVE j <= i
    <3>1. m <= Len(q) - j
      BY <2>2
    <3>2. i \in Int /\ j \in Int /\ Len(q) \in Int
      OBVIOUS
    <3> QED
      BY <2>3, <3>1, <3>2
  <2>5. Newest("Brightness", q, old) = [raw |-> q[i].raw, seq |-> q[i].seq]
    BY <2>3, <2>4, NewestIsLast DEF Feature
  <2> QED
    BY <2>3, <2>5
<1> QED
  BY <1>1, <1>2

\* What a worker's own step leaves to mistrust about a panel that was trusted
\* and has not been disturbed: nothing.
Trusting(w) ==
  /\ \A m \in Unread' \ Unread : Honest(m, w[1])
  /\ Calm(local'[w], w[1])
  /\ local'[w].pc = "verifying" => ~Distant(panel'[w[1]], local'[w].write.raw)

LEMMA TrustingCalm ==
  ASSUME TypeOK, NEW w \in Workers, NEW l \in Locals, Become(w, l),
         \A m \in Unread' \ Unread : Honest(m, w[1]),
         Calm(l, w[1]), l.pc # "verifying"
  PROVE  Trusting(w)
<1>1. local'[w] = l
  BY DEF Become, TypeOK, WorkerTypeOK
<1> QED
  BY <1>1 DEF Trusting

LEMMA TrustingExit ==
  ASSUME TypeOK, NEW w \in Workers, Exit(w), \A m \in Unread' \ Unread : Honest(m, w[1])
  PROVE  Trusting(w)
<1>1. Become(w, NewLocals) /\ w[1] \in Displays
  BY DEF Exit, Workers
<1> QED
  BY <1>1, NewLocalsType, NewLocalsCalm, TrustingCalm

LEMMA OneSaid ==
  ASSUME TypeOK, NEW w \in Workers, NEW m \in WorkerAck, Send(<<m>>), Honest(m, w[1])
  PROVE  \A n \in Unread' \ Unread : Honest(n, w[1])
<1>1. Unread' = Unread \cup {m}
  BY UnreadSentOne
<1> QED
  BY <1>1

\* Opening: a probe that finds no range disturbs the display.
LEMMA StartsTrusting ==
  ASSUME TypeOK, NEW w \in Workers, Starts(w), w[1] \notin disturbed'
  PROVE  Trusting(w)
<1>1. w[1] \in Displays /\ disturbed \in SUBSET Displays
  BY DEF Workers, TypeOK, WorkerTypeOK
<1>2. CASE OpenFails(w)
  <2>1. OpenFailed(w) \in WorkerAck /\ Honest(OpenFailed(w), w[1])
    <3>1. 0 \in Nat /\ "Get" \in InflightKey
      BY DEF InflightKey
    <3> QED
      BY <3>1, AckHonest
  <2> QED
    BY <1>2, <2>1, OneSaid, TrustingExit DEF OpenFails
<1>3. CASE Open(w)
  <2>1. PICK has_range \in BOOLEAN :
          /\ Become(w, [NewLocals EXCEPT !.pc = "parked", !.settled = ~has_range])
          /\ Send(IF has_range THEN <<>> ELSE <<SoftwareFallback(w)>>)
          /\ disturbed' = IF has_range THEN disturbed ELSE disturbed \cup {w[1]}
    BY <1>3 DEF Open
  <2>2. has_range
    BY <2>1
  <2> DEFINE l == [NewLocals EXCEPT !.pc = "parked", !.settled = FALSE]
  <2>3. Become(w, l) /\ Send(<<>>)
    BY <2>1, <2>2
  <2>4. l \in Locals
    BY NewLocalsType DEF Locals
  <2>5. l.noop = NewLocals.noop /\ l.latest = NewLocals.latest /\ l.feature = NewLocals.feature
        /\ l.write = NewLocals.write /\ l.pc = "parked"
    BY DEF NewLocals
  <2> HIDE DEF l
  <2>6. Calm(l, w[1])
    BY <1>1, <2>5, NewLocalsCalm DEF Calm, Modest
  <2> QED
    BY <2>3, <2>4, <2>5, <2>6, UnreadSentNone, TrustingCalm
<1> QED
  BY <1>2, <1>3 DEF Starts

LEMMA WaitsTrusting ==
  ASSUME TypeOK, NEW w \in Workers, Waits(w), Calm(local[w], w[1]),
         \A i \in DOMAIN inbox[w] :
           inbox[w][i].op = "Brightness" => inbox[w][i].raw <= Ceiling(w[1])
  PROVE  Trusting(w)
<1>1. Unread' = Unread
  BY UnreadSame DEF Waits, Absorb, GapElapses, Disconnected
<1>2. local[w] \in Locals /\ inbox[w] \in Seq(WorkerCommand) /\ w[1] \in Displays
  BY DEF TypeOK, WorkerTypeOK, EngineTypeOK, ProtocolTypeOK, Workers
<1>3. CASE Exit(w)
  BY <1>1, <1>3, TrustingExit
<1>4. CASE Absorb(w) /\ ~Exit(w)
  <2> DEFINE latest == [f \in Feature |-> Newest(f, inbox[w], local[w].latest[f])]
             gets   == {inbox[w][i].seq : i \in {i \in DOMAIN inbox[w] : inbox[w][i].op = "Get"}}
             k      == [local[w] EXCEPT !.pc = "reading", !.latest = latest, !.gets = gets]
  <2>1. Become(w, k)
    BY <1>4 DEF Absorb
  <2>2. /\ k.pc = "reading" /\ k.noop = local[w].noop /\ k.latest = latest
        /\ k.feature = local[w].feature /\ k.write = local[w].write
    <3> HIDE DEF latest, gets
    <3> QED
      BY <1>2 DEF Locals
  <2>3. k \in Locals
    <3>1. PICK j \in Locals : Become(w, j)
      BY <1>4, WaitsType, Zenon DEF Typed
    <3>2. j = k
      <4> HIDE DEF k
      <4> QED
        BY <2>1, <3>1 DEF Become, TypeOK, WorkerTypeOK
    <3> QED
      BY <3>2
  <2>4. latest["Brightness"].raw <= Ceiling(w[1])
    <3>1. latest["Brightness"] = Newest("Brightness", inbox[w], local[w].latest["Brightness"])
      BY DEF Feature
    <3>2. local[w].latest["Brightness"].raw <= Ceiling(w[1])
      BY DEF Calm, Modest
    <3> HIDE DEF latest
    <3> QED
      BY <1>2, <3>1, <3>2, NewestModest
  <2>5. Calm(k, w[1])
    <3> HIDE DEF latest, k
    <3> QED
      BY <2>2, <2>4 DEF Calm, Modest
  <2> HIDE DEF k
  <2> QED
    BY <1>1, <2>1, <2>2, <2>3, <2>5, TrustingCalm
<1>5. CASE GapElapses(w)
  <2>1. PICK f : Become(w, [local[w] EXCEPT !.pc = "reading", !.hot = @ \ {f}])
    BY <1>5 DEF GapElapses
  <2> DEFINE k == [local[w] EXCEPT !.pc = "reading", !.hot = @ \ {f}]
  <2>2. /\ k \in Locals /\ k.pc = "reading" /\ k.noop = local[w].noop
        /\ k.latest = local[w].latest /\ k.feature = local[w].feature
        /\ k.write = local[w].write
    BY <1>2 DEF Locals
  <2> HIDE DEF k
  <2>3. Calm(k, w[1])
    BY <2>2 DEF Calm, Modest
  <2>4. Become(w, k)
    BY <2>1 DEF k
  <2> QED
    BY <1>1, <2>2, <2>3, <2>4, TrustingCalm
<1> QED
  BY <1>3, <1>4, <1>5 DEF Waits, Disconnected

LEMMA PerformReadTrusting ==
  ASSUME TypeOK, NEW w \in Workers, PerformRead(w), Calm(local[w], w[1])
  PROVE  Trusting(w)
<1>1. At(w, "reading") /\ local[w] \in Locals
  BY DEF PerformRead, TypeOK, WorkerTypeOK
<1>2. PICK s \in local[w].gets : PerformGet(w, s)
  BY DEF PerformRead
<1>3. s \in Nat /\ panel[w[1]] \in Nat /\ PanelMax[w[1]] \in Nat
  BY <1>1, <1>2, LocalsFields, WorkerAssumption DEF TypeOK, WorkerTypeOK, Workers
<1> DEFINE rest == [local[w] EXCEPT !.gets = @ \ {s}]
           seen == [rest EXCEPT !.known = IF local[w].settled THEN @ ELSE panel[w[1]]]
<1>4. ASSUME NEW m \in WorkerAck, Honest(m, w[1]),
             NEW l \in Locals, Calm(l, w[1]), l.pc # "verifying", ReadReturns(w, m, l)
      PROVE  Trusting(w)
  <2>1. \A n \in Unread' \ Unread : Honest(n, w[1])
    BY <1>4, OneSaid DEF ReadReturns
  <2> QED
    BY <1>4, <2>1, TrustingExit, TrustingCalm DEF ReadReturns
<1>5. /\ rest \in Locals /\ rest.noop = local[w].noop /\ rest.pc = "reading"
      /\ rest.latest = local[w].latest /\ rest.feature = local[w].feature
      /\ rest.write = local[w].write
  BY <1>1 DEF Locals, At
<1>6. /\ seen \in Locals /\ seen.noop = rest.noop /\ seen.pc = rest.pc
      /\ seen.latest = rest.latest /\ seen.feature = rest.feature /\ seen.write = rest.write
  <2> DEFINE known == IF local[w].settled THEN rest.known ELSE panel[w[1]]
  <2>1. known \in Int
    <3>1. rest.known \in Int
      <4> HIDE DEF rest
      <4> QED
        BY <1>5, LocalsFields
    <3> HIDE DEF rest
    <3> QED
      BY <1>3, <3>1
  <2>2. seen = [rest EXCEPT !.known = known]
    OBVIOUS
  <2> HIDE DEF rest, known
  <2> QED
    BY <1>5, <2>1, <2>2 DEF Locals
<1>7. Calm(rest, w[1]) /\ Calm(seen, w[1]) /\ rest.pc # "verifying" /\ seen.pc # "verifying"
  <2> HIDE DEF rest, seen
  <2> QED
    BY <1>5, <1>6 DEF Calm, Modest
<1>8. "Get" \in InflightKey
  BY DEF InflightKey
<1>9. CASE ReadReturns(w, GetAck(w, s, panel[w[1]], PanelMax[w[1]]), seen)
  <2> HIDE DEF seen
  <2> QED
    BY <1>3, <1>4, <1>6, <1>7, <1>8, <1>9, AckHonest
<1>10. CASE ReadReturns(w, GetFailed(w, s), rest)
  <2> HIDE DEF rest
  <2> QED
    BY <1>3, <1>4, <1>5, <1>7, <1>8, <1>10, AckHonest
<1>11. CASE Send(<<Panicked(w, "Get", s)>>) /\ Exit(w)
  <2>1. Panicked(w, "Get", s) \in WorkerAck /\ Honest(Panicked(w, "Get", s), w[1])
    BY <1>3, <1>8, AckHonest
  <2> QED
    BY <1>11, <2>1, OneSaid, TrustingExit
<1> QED
  BY <1>2, <1>9, <1>10, <1>11, Zenon DEF PerformGet

LEMMA BeginWritesTrusting ==
  ASSUME TypeOK, NEW w \in Workers, BeginWrites(w), Calm(local[w], w[1])
  PROVE  Trusting(w)
<1>1. Unread' = Unread /\ local[w] \in Locals /\ w[1] \in Displays
  BY UnreadSame DEF BeginWrites, TypeOK, WorkerTypeOK, Workers
<1>2. CASE Exit(w)
  BY <1>1, <1>2, TrustingExit
<1>3. CASE ~Exit(w)
  <2>1. PICK still_hot \in SUBSET local[w].hot :
          Become(w, NextWrite([local[w] EXCEPT
               !.hot = still_hot, !.ready = Queued(local[w]) \ still_hot]))
    BY <1>3 DEF BeginWrites
  <2> DEFINE ready == Queued(local[w]) \ still_hot
             m     == [local[w] EXCEPT !.hot = still_hot, !.ready = ready]
  <2>2. ready \in SUBSET Feature /\ still_hot \in SUBSET Feature
    BY <1>1, LocalsFields DEF Queued
  <2>3. /\ m \in Locals /\ m.noop = local[w].noop /\ m.latest = local[w].latest
        /\ m.feature = local[w].feature /\ m.write = local[w].write
    <3> HIDE DEF ready
    <3> QED
      BY <1>1, <2>2 DEF Locals
  <2>4. Become(w, NextWrite(m))
    BY <2>1
  <2> HIDE DEF m
  <2>5. Calm(m, w[1])
    BY <2>3 DEF Calm, Modest
  <2> QED
    BY <1>1, <2>3, <2>4, <2>5, NextWriteType, NextWriteCalm, TrustingCalm
<1> QED
  BY <1>2, <1>3

LEMMA ClampedWell ==
  ASSUME NEW d \in Displays, NEW raw \in Nat, raw <= Ceiling(d)
  PROVE  ~Distant(Clamped(d, raw), raw)
<1>1. PanelMax[d] \in Nat /\ raw <= PanelMax[d] + 2
  BY CeilingType
<1> QED
  BY <1>1 DEF Distant, Clamped, BRIGHTNESS_VERIFY_TOLERANCE

LEMMA FinishWriteTrusting ==
  ASSUME TypeOK, NEW w \in Workers, FinishWrite(w), Calm(local[w], w[1]),
         w[1] \notin disturbed'
  PROVE  Trusting(w)
<1> DEFINE l    == local[w]
           done == SetAck(w, l.feature, l.write.seq)
<1>1. l \in Locals /\ w[1] \in Displays /\ disturbed \in SUBSET Displays
      /\ panel \in [Displays -> Nat]
  BY DEF TypeOK, WorkerTypeOK, Workers
<1>2. PICK result \in WriteResult : Lands(w, result) /\ WriteEnds(w, result)
  BY WriteOutcomes
<1>3. l.feature = "Brightness" =>
        result = "ok" /\ panel'[w[1]] = Clamped(w[1], l.write.raw)
  <2>1. l.feature = "Brightness" => result = "ok"
    BY <1>1, <1>2 DEF Lands
  <2>2. l.feature = "Brightness" => panel' = [panel EXCEPT ![w[1]] = Clamped(w[1], l.write.raw)]
    BY <1>2, <2>1 DEF Lands
  <2> QED
    BY <1>1, <2>1, <2>2
<1>4. /\ done \in WorkerAck /\ Honest(done, w[1])
      /\ Panicked(w, l.feature, l.write.seq) \in WorkerAck
      /\ Honest(Panicked(w, l.feature, l.write.seq), w[1])
  <2>1. l.feature \in InflightKey /\ l.write.seq \in Nat
    BY <1>1, LocalsFields, PendingType DEF InflightKey
  <2> HIDE DEF l
  <2> QED
    BY <2>1, AckHonest
<1>5. CASE Send(<<Panicked(w, l.feature, l.write.seq)>>) /\ Exit(w)
  BY <1>4, <1>5, OneSaid, TrustingExit
<1>6. CASE Send(<<done>>) /\ Exit(w)
  BY <1>4, <1>6, OneSaid, TrustingExit
<1>7. Modest(l, w[1]) /\ ~l.noop
  BY DEF Calm
<1>8. CASE Send(<<done>>) /\ Become(w, WriteDone(l))
  <2>1. \A m \in Unread' \ Unread : Honest(m, w[1])
    BY <1>4, <1>8, OneSaid
  <2> QED
    BY <1>1, <1>7, <1>8, <2>1, WriteDoneType, WriteDoneCalm, TrustingCalm
<1>9. CASE /\ Send(<<done>>) /\ l.feature = "Brightness"
           /\ Become(w, [l EXCEPT !.pc = "verifying", !.before = l.known])
  <2>1. \A m \in Unread' \ Unread : Honest(m, w[1])
    BY <1>4, <1>9, OneSaid
  <2>2. local'[w] = [l EXCEPT !.pc = "verifying", !.before = l.known]
    BY <1>9 DEF Become, TypeOK, WorkerTypeOK
  <2> DEFINE known == l.known
  <2>3. /\ local'[w].noop = l.noop /\ local'[w].write = l.write
        /\ local'[w].latest = l.latest /\ local'[w].feature = l.feature
    <3>1. local'[w] = [l EXCEPT !.pc = "verifying", !.before = known]
      BY <2>2
    <3> HIDE DEF known, l
    <3> QED
      BY <1>1, <3>1 DEF Locals
  <2>4. Calm(local'[w], w[1])
    BY <1>7, <2>3 DEF Calm, Modest
  <2>5. ~Distant(panel'[w[1]], local'[w].write.raw)
    <3>1. l.write.raw \in Nat /\ l.write.raw <= Ceiling(w[1])
      BY <1>1, <1>7, <1>9, LocalsFields, PendingType DEF Modest
    <3>2. panel'[w[1]] = Clamped(w[1], l.write.raw)
      BY <1>3, <1>9
    <3> HIDE DEF l
    <3> QED
      BY <1>1, <2>3, <3>1, <3>2, ClampedWell
  <2> QED
    BY <2>1, <2>4, <2>5 DEF Trusting
<1>10. ASSUME NEW proof \in BOOLEAN, Send(<<done>>),
              Become(w, WriteDone([l EXCEPT !.settled = @ \/ proof]))
       PROVE  Trusting(w)
  <2> DEFINE settled == l.settled \/ proof
             m       == [l EXCEPT !.settled = settled]
  <2>1. m \in Locals /\ m.latest = l.latest /\ m.feature = l.feature /\ m.write = l.write
    <3>1. settled \in BOOLEAN
      BY <1>1, <1>10, LocalsFields
    <3> HIDE DEF l, settled
    <3> QED
      BY <1>1, <3>1 DEF Locals
  <2>2. Become(w, WriteDone(m))
    BY <1>10
  <2>3. \A n \in Unread' \ Unread : Honest(n, w[1])
    BY <1>4, <1>10, OneSaid
  <2> HIDE DEF m
  <2>4. Modest(m, w[1])
    BY <1>7, <2>1 DEF Modest
  <2> QED
    BY <1>1, <2>1, <2>2, <2>3, <2>4, WriteDoneType, WriteDoneCalm, TrustingCalm
<1>11. \/ Send(<<Panicked(w, l.feature, l.write.seq)>>) /\ Exit(w)
       \/ Send(<<done>>) /\ Exit(w)
       \/ Send(<<done>>) /\ Become(w, WriteDone(l))
       \/ /\ Send(<<done>>) /\ l.feature = "Brightness"
          /\ Become(w, [l EXCEPT !.pc = "verifying", !.before = l.known])
       \/ \E proof \in BOOLEAN :
            Send(<<done>>) /\ Become(w, WriteDone([l EXCEPT !.settled = @ \/ proof]))
  BY <1>2, <1>3, Zenon DEF WriteEnds
<1> QED
  BY <1>5, <1>6, <1>8, <1>9, <1>10, <1>11, Zenon

LEMMA VerifiesTrusting ==
  ASSUME TypeOK, NEW w \in Workers, Verifies(w), Calm(local[w], w[1]),
         At(w, "verifying") /\ ~retired[w] => ~Distant(panel[w[1]], local[w].write.raw)
  PROVE  Trusting(w)
<1> DEFINE l     == local[w]
           after == panel[w[1]]
<1>1. /\ l \in Locals /\ after \in Int /\ l.attempt \in Nat /\ UNCHANGED panel
      /\ w[1] \in Displays /\ Modest(l, w[1]) /\ ~l.noop
  <2>1. l \in Locals /\ after \in Int /\ UNCHANGED panel /\ w[1] \in Displays
    <3>1. UNCHANGED panel
      BY DEF Verifies, VerifyMoot, VerifyRead, WorkerFrame
    <3>2. l \in Locals /\ w[1] \in Displays /\ panel \in [Displays -> Nat]
      BY DEF TypeOK, WorkerTypeOK, Workers
    <3> QED
      BY <3>1, <3>2
  <2>2. Calm(l, w[1])
    OBVIOUS
  <2> HIDE DEF l
  <2>3. l.attempt \in Nat
    BY <2>1, LocalsFields
  <2> QED
    BY <2>1, <2>2, <2>3 DEF Calm
<1>2. CASE VerifyMoot(w)
  <2>1. Become(w, WriteDone(l)) /\ Unread' = Unread
    BY <1>2, UnreadSame DEF VerifyMoot
  <2> HIDE DEF l
  <2> QED
    BY <1>1, <2>1, WriteDoneType, WriteDoneCalm, TrustingCalm
<1>3. CASE VerifyRead(w)
  <2>1. ~Distant(after, l.write.raw)
    BY <1>3 DEF VerifyRead
  <2>2. ~is_silent_noop(l.before, l.write.raw, after)
    BY <2>1 DEF is_silent_noop
  <2> DEFINE reached == [l EXCEPT !.known = after, !.settled = TRUE]
  <2>3. /\ \/ Become(w, [l EXCEPT !.attempt = @ + 1]) /\ Send(<<>>)
           \/ /\ Send(IF l.noop THEN <<SoftwareFallback(w)>> ELSE <<>>)
              /\ Become(w, WriteDone([l EXCEPT !.settled = l.noop]))
           \/ Become(w, WriteDone(reached)) /\ Send(<<>>)
    BY <1>3, <2>2 DEF VerifyRead
  <2>4. Send(<<>>)
    BY <1>1, <2>3
  <2>5. \A m \in Unread' \ Unread : Honest(m, w[1])
    BY <2>4, UnreadSentNone
  <2>6. /\ reached \in Locals /\ reached.latest = l.latest
        /\ reached.feature = l.feature /\ reached.write = l.write
    <3> HIDE DEF l, after
    <3> QED
      BY <1>1 DEF Locals
  <2>7. CASE Become(w, WriteDone(reached))
    <3> HIDE DEF reached
    <3>1. Modest(reached, w[1])
      BY <1>1, <2>6 DEF Modest
    <3> QED
      BY <1>1, <2>5, <2>6, <2>7, <3>1, WriteDoneType, WriteDoneCalm, TrustingCalm
  <2>8. CASE Become(w, WriteDone([l EXCEPT !.settled = l.noop]))
    <3> DEFINE m == [l EXCEPT !.settled = l.noop]
    <3>1. m \in Locals /\ m.latest = l.latest /\ m.feature = l.feature /\ m.write = l.write
      <4> HIDE DEF l
      <4> QED
        BY <1>1 DEF Locals
    <3>2. Become(w, WriteDone(m))
      BY <2>8
    <3> HIDE DEF m
    <3>3. Modest(m, w[1])
      BY <1>1, <3>1 DEF Modest
    <3> QED
      BY <1>1, <2>5, <3>1, <3>2, <3>3, WriteDoneType, WriteDoneCalm, TrustingCalm
  <2>9. CASE Become(w, [l EXCEPT !.attempt = @ + 1])
    <3>1. local'[w] = [l EXCEPT !.attempt = @ + 1]
      BY <2>9 DEF Become, TypeOK, WorkerTypeOK
    <3>2. /\ local'[w].noop = l.noop /\ local'[w].write = l.write
          /\ local'[w].latest = l.latest /\ local'[w].feature = l.feature
      <4> HIDE DEF l
      <4> QED
        BY <1>1, <3>1 DEF Locals
    <3>3. Calm(local'[w], w[1])
      BY <1>1, <3>2 DEF Calm, Modest
    <3>4. panel' = panel
      BY <1>1
    <3> QED
      BY <2>1, <2>5, <3>2, <3>3, <3>4 DEF Trusting
  <2> QED
    BY <2>3, <2>7, <2>8, <2>9
<1> QED
  BY <1>2, <1>3 DEF Verifies

LEMMA WorkerStepTrusting ==
  ASSUME TypeOK, NEW w \in Workers, WorkerStep(w), Calm(local[w], w[1]),
         \A i \in DOMAIN inbox[w] :
           inbox[w][i].op = "Brightness" => inbox[w][i].raw <= Ceiling(w[1]),
         At(w, "verifying") /\ ~retired[w] => ~Distant(panel[w[1]], local[w].write.raw),
         w[1] \notin disturbed'
  PROVE  Trusting(w)
BY StartsTrusting, WaitsTrusting, PerformReadTrusting, BeginWritesTrusting,
   FinishWriteTrusting, VerifiesTrusting DEF WorkerStep, Performs

-----------------------------------------------------------------------------

\* Only its own worker's write, or someone else, moves a panel; and a write
\* that was not the registered worker's leaves the display disturbed.
LEMMA PanelMoves ==
  ASSUME TypeOK, NEW v \in Workers, WorkerStep(v)
  PROVE  /\ disturbed \subseteq disturbed'
         /\ \A d \in Displays : panel'[d] # panel[d] =>
              d = v[1] /\ (retired[v] => d \in disturbed')
<1>1. panel \in [Displays -> Nat]
  BY DEF TypeOK, WorkerTypeOK
<1>2. CASE FinishWrite(v)
  <2>1. PICK result : Lands(v, result)
    BY <1>2 DEF FinishWrite
  <2> QED
    BY <1>1, <2>1 DEF Lands
<1>3. FinishWrite(v) \/ (UNCHANGED panel /\ disturbed \subseteq disturbed')
  BY DEF WorkerStep, Starts, Waits, Performs, Verifies, Open, OpenFails, Absorb, GapElapses,
     Disconnected, PerformRead, BeginWrites, VerifyMoot, VerifyRead, WorkerFrame
<1> QED
  BY <1>2, <1>3

LEMMA FlagsStay ==
  ASSUME EngineTypeOK, EngineNext, NEW w \in Workers, retired[w]
  PROVE  retired'[w]
<1>1. (\E ids : RetireFlags(ids)) \/ UNCHANGED retired
  BY DEF EngineNext, Enumerates, Startup, DebounceFires, RefreshNow, refresh, PlatformEvent,
     AppCommand, SetUserLevel, SetInput, SetLevelPolling, ShutDown, Timer, PollLevels,
     WatchdogFires, mark_stuck, surface_unresponsive, HandleAck, AckSet, AckGetUnusable,
     AckGetLearned, AckPollHeals, AckPollReflects, AckGetNoted, AckPanicked, AckOpenFailed,
     AckSoftwareFallback, TakeReading, channels
<1> QED
  BY <1>1 DEF RetireFlags

LEMMA RecordForced ==
  ASSUME NEW r \in DisplayRecord
  PROVE  /\ \A pct : RecordUserLevel(r, pct).software_forced = r.software_forced
         /\ MarkUnresponsive(r).software_forced = r.software_forced
         /\ ~ClearSoftwareForced(r).software_forced
         /\ \A seen \in BOOLEAN :
              ApplyEnumeration(r, seen).software_forced => r.software_forced
BY DEF DisplayRecord, RecordUserLevel, MarkUnresponsive, ClearSoftwareForced, ApplyEnumeration

\* Only a worker's report makes the engine take a display for software-only.
LEMMA ForcedByReport ==
  ASSUME TypeOK, EngineNext, NEW d \in Displays,
         records'[d].software_forced, ~records[d].software_forced
  PROVE  \E m \in Unread : m.outcome = "SoftwareFallback" /\ m.id = d
<1>1. records \in [Displays -> DisplayRecord] /\ acks \in Seq(WorkerAck)
  BY DEF TypeOK, EngineTypeOK, ProtocolTypeOK
<1>2. ASSUME NEW ids, surface_unresponsive(ids) PROVE FALSE
  BY <1>1, <1>2, RecordForced DEF surface_unresponsive
<1>3. CASE Enumerates
  <2>1. PICK seen : refresh(seen)
    BY <1>3 DEF Enumerates, Startup, DebounceFires, RefreshNow
  <2>2. records'[d] = ApplyEnumeration(records[d], d \in seen)
    BY <2>1 DEF refresh
  <2>3. (d \in seen) \in BOOLEAN
    OBVIOUS
  <2>4. ApplyEnumeration(records[d], d \in seen).software_forced => records[d].software_forced
    BY <1>1, <2>3, RecordForced, Zenon
  <2> QED
    BY <2>2, <2>4
<1>4. CASE PlatformEvent \/ AppCommand
  <2>1. \/ UNCHANGED records
        \/ \E e \in Displays, pct \in Levels : SetUserLevel(e, pct)
    BY <1>4 DEF PlatformEvent, AppCommand, SetInput, SetLevelPolling, ShutDown
  <2>2. \/ UNCHANGED records
        \/ \E e \in Displays, pct \in Levels :
             records' = [records EXCEPT ![e] = RecordUserLevel(@, pct)]
    BY <2>1 DEF SetUserLevel
  <2> QED
    BY <1>1, <2>2, RecordForced
<1>5. CASE Timer
  BY <1>2, <1>5 DEF Timer, PollLevels, WatchdogFires, mark_stuck
<1>6. CASE AckPanicked \/ AckOpenFailed
  BY <1>2, <1>6 DEF AckPanicked, AckOpenFailed, mark_stuck
<1>7. CASE AckSet \/ AckGetUnusable \/ AckGetNoted
  BY <1>7 DEF AckSet, AckGetUnusable, AckGetNoted
<1>8. CASE AckGetLearned \/ AckPollReflects
  <2>1. records' = [records EXCEPT ![ack.id] = RecordUserLevel(@, ReadingPct)]
    BY <1>8 DEF AckGetLearned, AckPollReflects
  <2> QED
    BY <1>1, <2>1, RecordForced
<1>9. CASE AckPollHeals
  <2>1. records' = [records EXCEPT ![ack.id] = ClearSoftwareForced(@)]
    BY <1>9 DEF AckPollHeals
  <2> QED
    BY <1>1, <2>1, RecordForced
<1>10. CASE AckSoftwareFallback
  <2>1. acks # <<>> /\ acks' = Tail(acks) /\ ack.outcome = "SoftwareFallback"
    BY <1>10 DEF AckSoftwareFallback, Receive
  <2>2. ack \in Unread
    BY <1>1, <2>1, UnreadReceived
  <2>3. d = ack.id
    BY <1>1, <1>10 DEF AckSoftwareFallback
  <2> QED
    BY <2>1, <2>2, <2>3
<1> QED
  BY <1>3, <1>4, <1>5, <1>6, <1>7, <1>8, <1>9, <1>10 DEF EngineNext, HandleAck


\* The maximum the engine scales with is the default, or one a worker reported.
LEMMA MaxMoves ==
  ASSUME TypeOK, EngineNext, NEW d \in Displays, brightness_max'[d] # brightness_max[d]
  PROVE  \E m \in Unread : m.id = d /\ brightness_max'[d] = m.max
<1>1. brightness_max \in [Displays -> Nat] /\ acks \in Seq(WorkerAck)
  BY DEF TypeOK, EngineTypeOK, ProtocolTypeOK
<1>2. TakeReading
  BY DEF EngineNext, Enumerates, Startup, DebounceFires, RefreshNow, refresh, PlatformEvent,
     AppCommand, SetUserLevel, SetInput, SetLevelPolling, ShutDown, Timer, PollLevels,
     WatchdogFires, HandleAck, AckSet, AckGetUnusable, AckGetLearned, AckPollHeals,
     AckPollReflects, AckGetNoted, AckPanicked, AckOpenFailed, AckSoftwareFallback, scaleVars
<1>3. acks # <<>> /\ acks' = Tail(acks)
      /\ brightness_max' = [brightness_max EXCEPT ![ack.id] = ack.max]
  BY <1>2 DEF TakeReading, Receive
<1>4. ack \in Unread
  BY <1>1, <1>3, UnreadReceived
<1> QED
  BY <1>1, <1>3, <1>4

LEMMA PctBelowMax ==
  ASSUME NEW pct \in 0 .. 100, NEW max \in Nat
  PROVE  pct_to_raw(pct, max) <= max
<1>1. pct * max \in Nat /\ pct * max <= 100 * max
  BY SMT
<1> QED
  BY <1>1, SMT DEF pct_to_raw

\* The raw value of a level: of one a user picks from, or the one recorded.
IsScaled(raw, d) ==
  \E pct \in 0 .. 100 :
    /\ pct \in Levels \/ pct = records[d].level
    /\ raw = pct_to_raw(pct, brightness_max[d])

\* The engine asks a panel for nothing but the levels it knows.
LEMMA EngineAsks ==
  ASSUME TypeOK, EngineNext, NEW w \in Workers
  PROVE  \/ inbox'[w] = inbox[w]
         \/ \E c : /\ inbox'[w] = <<c>> \/ inbox'[w] = Append(inbox[w], c)
                   /\ c.op = "Brightness" => IsScaled(c.raw, w[1])
<1> DEFINE Asks == \/ inbox'[w] = inbox[w]
                   \/ \E c : /\ inbox'[w] = <<c>> \/ inbox'[w] = Append(inbox[w], c)
                             /\ c.op = "Brightness" => IsScaled(c.raw, w[1])
<1> SUFFICES Asks
  OBVIOUS
<1>1. EngineTypeOK /\ inbox \in [Workers -> Seq(WorkerCommand)] /\ w[1] \in Displays
  BY DEF TypeOK, EngineTypeOK, ProtocolTypeOK, Workers
<1>2. ASSUME NEW seen \in SUBSET Displays, refresh(seen)
      PROVE  Asks
  <2>1. inbox'[w] = inbox[w] \/ inbox'[w] = <<FirstCommand(w[1])>>
    BY <1>2 DEF refresh
  <2>2. FirstCommand(w[1]).op = "Brightness" => IsScaled(FirstCommand(w[1]).raw, w[1])
    <3>1. CASE records[w[1]].level = NoLevel
      BY <3>1 DEF FirstCommand, GetCommand
    <3>2. CASE records[w[1]].level # NoLevel
      <4>1. records[w[1]].level \in 0 .. 100
        BY <1>1, <3>2 DEF EngineTypeOK, DisplayRecord, NoLevel
      <4> QED
        BY <3>2, <4>1 DEF FirstCommand, SetCommand, IsScaled
    <3> QED
      BY <3>1, <3>2
  <2> QED
    BY <2>1, <2>2
<1>3. ASSUME NEW d \in Displays, NEW key \in Feature, NEW raw,
             d = w[1] /\ key = "Brightness" => IsScaled(raw, d), Dispatch(d, key, raw)
      PROVE  Asks
  <2> DEFINE c == SetCommand(key, raw, seq[d] + 1)
  <2>1. \/ inbox' = inbox
        \/ inbox' = [inbox EXCEPT ![Registered(d)] = Append(@, c)]
    BY <1>3 DEF Dispatch
  <2>2. c.op = key /\ c.raw = raw
    BY DEF SetCommand
  <2> HIDE DEF c
  <2>3. CASE Registered(d) = w
    <3>1. d = w[1]
      BY <2>3 DEF Registered
    <3>2. inbox'[w] = inbox[w] \/ inbox'[w] = Append(inbox[w], c)
      BY <1>1, <2>1, <2>3
    <3> QED
      BY <1>3, <2>2, <3>1, <3>2
  <2>4. CASE Registered(d) # w
    BY <1>1, <2>1, <2>4
  <2> QED
    BY <2>3, <2>4
<1>4. CASE Enumerates
  BY <1>2, <1>4 DEF Enumerates, Startup, DebounceFires, RefreshNow
<1>5. ASSUME NEW d \in Displays, NEW pct \in Levels, SetUserLevel(d, pct)
      PROVE  Asks
  <2>1. CASE IsResponsive(records[d])
    <3> DEFINE raw == pct_to_raw(pct, brightness_max[d])
    <3>1. Dispatch(d, "Brightness", raw)
      BY <1>5, <2>1 DEF SetUserLevel, dispatch_set
    <3>2. IsScaled(raw, d)
      BY EngineAssumption DEF IsScaled
    <3> HIDE DEF raw
    <3> QED
      BY <1>3, <3>1, <3>2 DEF Feature
  <2>2. CASE ~IsResponsive(records[d])
    BY <1>5, <2>2 DEF SetUserLevel, dispatch_set
  <2> QED
    BY <2>1, <2>2
<1>6. ASSUME NEW d \in Displays, NEW value \in Inputs, SetInput(d, value)
      PROVE  Asks
  BY <1>3, <1>6 DEF SetInput, Feature
<1>7. CASE PollLevels
  <2>1. inbox'[w] = inbox[w] \/ inbox'[w] = Append(inbox[w], GetCommand(seq[w[1]] + 1))
    BY <1>7 DEF PollLevels
  <2>2. GetCommand(seq[w[1]] + 1).op # "Brightness"
    BY DEF GetCommand
  <2> QED
    BY <2>1, <2>2
<1>8. CASE ShutDown
  <2>1. inbox'[w] = inbox[w] \/ inbox'[w] = Append(inbox[w], ShutdownCommand)
    BY <1>8 DEF ShutDown
  <2>2. ShutdownCommand.op # "Brightness"
    BY DEF ShutdownCommand
  <2> QED
    BY <2>1, <2>2
<1>9. CASE PlatformEvent \/ HandleAck \/ (\E aged \in SUBSET Displays : WatchdogFires(aged))
            \/ (\E on \in BOOLEAN : SetLevelPolling(on))
  BY <1>9 DEF PlatformEvent, WatchdogFires, SetLevelPolling, channels,
     HandleAck, AckSet, AckGetUnusable, AckGetLearned, AckPollHeals, AckPollReflects,
     AckGetNoted, AckPanicked, AckOpenFailed, AckSoftwareFallback, TakeReading
<1> QED
  BY <1>4, <1>5, <1>6, <1>7, <1>8, <1>9 DEF EngineNext, AppCommand, Timer

LEMMA AppendedModest ==
  ASSUME NEW q \in Seq(WorkerCommand), NEW c, NEW r, NEW top,
         r = <<c>> \/ r = Append(q, c),
         c.op = "Brightness" => c.raw <= top,
         \A i \in DOMAIN q : q[i].op = "Brightness" => q[i].raw <= top
  PROVE  \A i \in DOMAIN r : r[i].op = "Brightness" => r[i].raw <= top
<1>1. CASE r = <<c>>
  BY <1>1
<1>2. CASE r = Append(q, c)
  <2>1. /\ DOMAIN q = 1 .. Len(q) /\ Len(q) \in Nat /\ DOMAIN r = 1 .. Len(q) + 1
        /\ r[Len(q) + 1] = c /\ \A i \in 1 .. Len(q) : r[i] = q[i]
    BY <1>2
  <2>2. ASSUME NEW i \in DOMAIN r PROVE i = Len(q) + 1 \/ i \in DOMAIN q
    BY <2>1
  <2> QED
    BY <2>1, <2>2
<1> QED
  BY <1>1, <1>2

LEMMA EngineTrusts ==
  ASSUME Base, IdleInv, EngineNext, UNCHANGED workerVars, NEW d \in Displays, Trusted(d)
  PROVE  Trusted(d)'
<1>1. /\ TypeOK /\ thread \in [Workers -> {"none", "running", "exited"}]
      /\ inbox \in [Workers -> Seq(WorkerCommand)] /\ brightness_max \in [Displays -> Nat]
      /\ Ceiling(d) \in Nat
  BY CeilingType DEF Base, TypeOK, EngineTypeOK, ProtocolTypeOK
<1>2. ~records'[d].software_forced
  BY <1>1, ForcedByReport DEF Trusted, Honest
<1>3. \A m \in Unread' : m.id = d => Honest(m, d)
  BY <1>1, EngineReads DEF Trusted
<1>4. brightness_max'[d] <= Ceiling(d)
  <2>1. CASE brightness_max'[d] = brightness_max[d]
    BY <2>1 DEF Trusted
  <2>2. CASE brightness_max'[d] # brightness_max[d]
    <3>1. PICK m \in Unread : m.id = d /\ brightness_max'[d] = m.max
      BY <1>1, <2>2, MaxMoves
    <3> QED
      BY <3>1 DEF Trusted, Honest
  <2> QED
    BY <2>1, <2>2
<1>5. ASSUME NEW w \in Workers, w[1] = d
      PROVE  Calm(local'[w], d)
  BY <1>5 DEF Trusted, workerVars
<1>6. ASSUME NEW w \in Workers, w[1] = d, NEW i \in DOMAIN inbox'[w],
             inbox'[w][i].op = "Brightness"
      PROVE  inbox'[w][i].raw <= Ceiling(d)
  <2>1. \A j \in DOMAIN inbox[w] : inbox[w][j].op = "Brightness" => inbox[w][j].raw <= Ceiling(d)
    BY <1>6 DEF Trusted
  <2>2. CASE inbox'[w] = inbox[w]
    BY <1>6, <2>1, <2>2
  <2>3. CASE inbox'[w] # inbox[w]
    <3>1. ASSUME NEW raw, IsScaled(raw, d)
          PROVE  raw <= Ceiling(d)
      <4>1. raw \in Nat /\ raw <= brightness_max[d]
        BY <1>1, <3>1, PctToRawType, PctBelowMax DEF IsScaled
      <4> QED
        BY <1>1, <4>1 DEF Trusted
    <3>2. PICK c : /\ inbox'[w] = <<c>> \/ inbox'[w] = Append(inbox[w], c)
                   /\ c.op = "Brightness" => c.raw <= Ceiling(d)
      BY <1>1, <1>6, <2>3, <3>1, EngineAsks
    <3>3. \A j \in DOMAIN inbox'[w] :
            inbox'[w][j].op = "Brightness" => inbox'[w][j].raw <= Ceiling(d)
      BY <1>1, <2>1, <3>2, AppendedModest
    <3> QED
      BY <1>6, <3>3
  <2> QED
    BY <2>2, <2>3
<1>7. ASSUME NEW w \in Workers, w[1] = d, At(w, "verifying")', ~retired'[w]
      PROVE  ~Distant(panel'[d], local'[w].write.raw)
  <2>1. thread[w] # "none"
    BY <1>7 DEF At, IdleInv, NewLocals, workerVars
  <2>2. At(w, "verifying") /\ ~retired[w]
    BY <1>1, <1>7, <2>1, EngineThreads, FlagsStay DEF At, workerVars, TypeOK
  <2>3. panel' = panel /\ local' = local
    BY DEF workerVars
  <2> QED
    BY <1>7, <2>2, <2>3 DEF Trusted
<1> QED
  BY <1>2, <1>3, <1>4, <1>5, <1>6, <1>7 DEF Trusted

LEMMA WorkerTrusts ==
  ASSUME Base, NEW v \in Workers, WorkerStep(v),
         UNCHANGED engineVars, NEW d \in Displays, Trusted(d), d \notin disturbed'
  PROVE  Trusted(d)'
<1>1. /\ TypeOK /\ Typed(v) /\ Speaks(v) /\ ThreadInv /\ UNCHANGED retired
      /\ panel \in [Displays -> Nat] /\ inbox \in [Workers -> Seq(WorkerCommand)]
  BY WorkerStepType, WorkerStepKeeps
     DEF Base, Typed, TypeOK, WorkerTypeOK, EngineTypeOK, ProtocolTypeOK
<1>2. v[1] = d => Trusting(v)
  BY <1>1, WorkerStepTrusting DEF Trusted
<1>3. ~records'[d].software_forced /\ brightness_max'[d] <= Ceiling(d)
  BY DEF Trusted, engineVars, scaleVars
<1>4. \A m \in Unread' : m.id = d => Honest(m, d)
  BY <1>1, <1>2 DEF Speaks, Trusting, Trusted
<1>5. ASSUME NEW w \in Workers, w[1] = d
      PROVE  Calm(local'[w], d)
  BY <1>1, <1>2, <1>5, WorkerWire DEF Trusting, Trusted
<1>6. ASSUME NEW w \in Workers, w[1] = d, NEW i \in DOMAIN inbox'[w],
             inbox'[w][i].op = "Brightness"
      PROVE  inbox'[w][i].raw <= Ceiling(d)
  <2>1. inbox'[w] = inbox[w] \/ inbox'[w] = <<>>
    BY <1>1, WorkerWire
  <2> QED
    BY <1>6, <2>1 DEF Trusted
<1>7. ASSUME NEW w \in Workers, w[1] = d, At(w, "verifying")', ~retired'[w]
      PROVE  ~Distant(panel'[d], local'[w].write.raw)
  <2>1. CASE w = v
    BY <1>2, <1>7, <2>1 DEF Trusting, At
  <2>2. CASE w # v
    <3>1. At(w, "verifying") /\ ~retired[w] /\ local'[w] = local[w]
      BY <1>1, <1>7, <2>2, WorkerWire DEF At
    <3>2. ~(v[1] = d /\ ~retired[v])
      <4> SUFFICES ASSUME v[1] = d, ~retired[v]
                   PROVE  FALSE
        OBVIOUS
      <4>1. thread[v] = "running" /\ thread[w] = "running"
        BY <1>1, <3>1 DEF Typed, At
      <4>2. v[2] = workers[d] /\ w[2] = workers[d]
        BY <1>1, <1>7, <3>1, <4>1 DEF ThreadInv, OneWriter
      <4>3. v = <<v[1], v[2]>> /\ w = <<w[1], w[2]>>
        BY DEF Workers
      <4> QED
        BY <1>7, <2>2, <4>2, <4>3
    <3>3. panel'[d] = panel[d]
      BY <1>1, <3>2, PanelMoves
    <3> QED
      BY <1>7, <3>1, <3>3 DEF Trusted
  <2> QED
    BY <2>1, <2>2
<1> QED
  BY <1>3, <1>4, <1>5, <1>6, <1>7 DEF Trusted

LEMMA TrustStep ==
  ASSUME Base, IdleInv, TrustInv, [Next]_systemVars
  PROVE  TrustInv'
<1> SUFFICES ASSUME NEW d \in Displays, d \notin disturbed'
             PROVE  Trusted(d)'
  BY DEF TrustInv
<1>1. TypeOK /\ disturbed \in SUBSET Displays /\ panel \in [Displays -> Nat]
  BY DEF Base, TypeOK, WorkerTypeOK
<1>2. CASE EngineNext /\ UNCHANGED workerVars
  BY <1>2, EngineTrusts DEF TrustInv, workerVars
<1>3. ASSUME NEW v \in Workers, WorkerStep(v), UNCHANGED engineVars
      PROVE  Trusted(d)'
  BY <1>1, <1>3, PanelMoves, WorkerTrusts DEF TrustInv
<1>4. ASSUME UNCHANGED <<engineVars, channels, local>>,
             panel'[d] = panel[d], Trusted(d)
      PROVE  Trusted(d)'
  <2>1. /\ records' = records /\ brightness_max' = brightness_max /\ inbox' = inbox
        /\ acks' = acks /\ retired' = retired /\ thread' = thread /\ local' = local
    BY <1>4 DEF engineVars, scaleVars, channels
  <2>2. Unread' = Unread
    BY <2>1, UnreadSame
  <2> QED
    BY <1>4, <2>1, <2>2 DEF Trusted, At
<1>5. ASSUME NEW e \in Displays, OutsideChange(e), UNCHANGED engineVars
      PROVE  Trusted(d)'
  <2>1. d \notin disturbed /\ d # e
    BY <1>1, <1>5 DEF OutsideChange
  <2>2. panel'[d] = panel[d]
    BY <1>1, <1>5, <2>1 DEF OutsideChange
  <2> QED
    BY <1>4, <1>5, <2>1, <2>2 DEF TrustInv, OutsideChange
<1>6. CASE UNCHANGED <<engineVars, channels, local, panel, disturbed>>
  BY <1>4, <1>6 DEF TrustInv
<1> QED
  BY <1>2, <1>3, <1>5, <1>6
     DEF Next, WorkerNext, Terminated, Hang, systemVars, vars, workerVars

\* A display is switched to software dimming for its panel's sake only: as long
\* as its probe finds a range, its writes succeed and nobody else moves it, no
\* read-back, however it interleaves with replugs and retired workers, takes it
\* for one whose brightness control does nothing.  The panel must take what is
\* asked of one of the default range; without that the theorem does not hold.
THEOREM WorkingPanelsKeepHardware == Ranged => (Spec => []WorkingPanelKeepsHardware)
<1> SUFFICES ASSUME Ranged
             PROVE  Spec => []WorkingPanelKeepsHardware
  OBVIOUS
<1>1. Init => IdleInv /\ TrustInv
  <2> SUFFICES ASSUME Init PROVE IdleInv /\ TrustInv
    OBVIOUS
  <2>1. Unread = {}
    BY DEF Init, EngineInit, ProtocolInit, Unread
  <2>2. \A d \in Displays : ~records[d].software_forced /\ brightness_max[d] <= Ceiling(d)
    BY DEF Init, EngineInit, Unknown, Ranged
  <2>3. \A w \in Workers : local[w] = NewLocals /\ inbox[w] = <<>>
    BY DEF Init, WorkerInit, EngineInit, ProtocolInit
  <2>4. \A w \in Workers : ~At(w, "verifying")
    BY <2>3, NewLocalsCalm DEF At, NewLocals
  <2> QED
    BY <2>1, <2>2, <2>3, <2>4, NewLocalsCalm DEF IdleInv, TrustInv, Trusted
<1>2. Base /\ IdleInv /\ TrustInv /\ [Next]_systemVars => Base' /\ IdleInv' /\ TrustInv'
  BY BaseStep, IdleStep, TrustStep
<1>3. TrustInv => WorkingPanelKeepsHardware
  BY DEF TrustInv, Trusted, WorkingPanelKeepsHardware
<1> QED
  BY <1>1, <1>2, <1>3, BaseCorrect, PTL DEF Spec

=============================================================================
