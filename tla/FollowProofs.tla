---------------------------- MODULE FollowProofs ----------------------------
(***************************************************************************)
(* Where a panel ends up: a panel follows the level the engine recorded,   *)
(* and what Duja wrote is never reported back as somebody else's change.   *)
(* Proved of the engine and its workers for every set of displays, every   *)
(* bound and every combination of driver faults.                           *)
(*                                                                         *)
(* The argument follows the writes of a display through the channel, the   *)
(* worker's queue and the driver call.  They are numbered in the order     *)
(* they were asked for, the newest of them is for the recorded level, and  *)
(* whatever the worker does the newest one wins.  An answer in the ack     *)
(* channel is older than every write still to come, so the engine never    *)
(* takes a display for idle that is not, and a poll never reads half way.  *)
(***************************************************************************)
EXTENDS SystemProofs

\* Every panel has the default range, and starts within it.
DefaultRange == \A d \in Displays : PanelMax[d] = 100
StartInRange == \A d \in Displays : PanelStart[d] <= PanelMax[d]

-----------------------------------------------------------------------------
(* What is asked of one panel: writes in the channel q of its worker, and  *)
(* what the worker's locals l hold of them.                                *)

Slot(l) == l.latest["Brightness"]

IsWriting(l) == l.pc = "writing" /\ l.feature = "Brightness"

SetsIn(q, s) == \E i \in DOMAIN q : q[i].op = "Brightness" /\ q[i].seq = s

NoSets(q) == \A i \in DOMAIN q : q[i].op # "Brightness"

Keeps(l, s) ==
  \/ Slot(l) # NoPending /\ Slot(l).seq = s
  \/ IsWriting(l) /\ l.write.seq = s

\* The write numbered s is still to be made.
Asks(q, l, s) == SetsIn(q, s) \/ Keeps(l, s)

\* The newest write of the channel is for pct.
LastSet(q, pct) ==
  \E i \in DOMAIN q :
    /\ q[i].op = "Brightness" /\ q[i].raw = pct
    /\ \A j \in DOMAIN q : q[j].op = "Brightness" => j <= i

\* Where the worker will leave a panel that now is at p.
Heads(l, p, pct) ==
  IF Slot(l) # NoPending THEN Slot(l).raw = pct
  ELSE IF IsWriting(l) THEN l.write.raw = pct ELSE raw_to_pct(p, 100) = pct

Follows(q, l, p, pct) == LastSet(q, pct) \/ (NoSets(q) /\ Heads(l, p, pct))

\* A round writes only what is queued, and takes it off the queue.
Tidy(l) ==
  /\ \A f \in l.ready : l.latest[f] # NoPending
  /\ l.pc \in {"opening", "parked", "reading"} => l.ready = {}
  /\ l.pc = "opening" \/ IsWriting(l) => Slot(l) = NoPending

\* The numbers the worker holds were handed out: none is above n.
Few(l, n) ==
  /\ \A f \in Feature : l.latest[f].seq <= n
  /\ l.write.seq <= n
  /\ \A s \in l.gets : s <= n

\* Between l and k the worker went on to no write of the brightness, or to
\* the one it had queued.
Rests(l, k) == ~IsWriting(k) /\ Slot(k) = Slot(l)

Takes(l, k) ==
  /\ IsWriting(k) /\ Slot(l) # NoPending
  /\ k.write = Slot(l) /\ Slot(k) = NoPending

LEMMA LatestTyped ==
  ASSUME NEW l \in Locals
  PROVE  /\ Slot(l) \in Pending /\ Slot(l).raw \in Nat /\ Slot(l).seq \in Nat
         /\ l.write \in Pending /\ l.write.raw \in Nat /\ l.write.seq \in Nat
BY LocalsFields, PendingType DEF Slot, Feature

LEMMA NewLocalsIdle ==
  ASSUME NEW n \in Nat
  PROVE  /\ Tidy(NewLocals) /\ Few(NewLocals, n) /\ ~IsWriting(NewLocals)
         /\ Slot(NewLocals) = NoPending /\ \A s : ~Keeps(NewLocals, s)
BY DEF Tidy, Few, IsWriting, Slot, Keeps, NewLocals, NoPending, Feature, NoSeq

LEMMA NextWriteGoes ==
  ASSUME NEW l \in Locals, NEW n \in Nat, Few(l, n), \A f \in l.ready : l.latest[f] # NoPending
  PROVE  /\ Tidy(NextWrite(l)) /\ Few(NextWrite(l), n)
         /\ Rests(l, NextWrite(l)) \/ Takes(l, NextWrite(l))
<1> DEFINE k    == NextWrite(l)
           Goal == Tidy(k) /\ Few(k, n) /\ (Rests(l, k) \/ Takes(l, k))
<1> SUFFICES Goal
  OBVIOUS
<1>1. CASE l.ready = {}
  <2>1. k = [NewLocals EXCEPT !.pc = "parked", !.latest = l.latest, !.hot = l.hot,
                              !.known = l.known, !.settled = l.settled]
    BY <1>1 DEF NextWrite
  <2>2. /\ k.pc = "parked" /\ k.latest = l.latest /\ k.ready = {} /\ k.gets = {}
        /\ k.write = NoPending
    BY <2>1 DEF NewLocals
  <2> HIDE DEF k
  <2>3. Tidy(k) /\ Rests(l, k)
    BY <2>2 DEF Tidy, Rests, IsWriting, Slot
  <2>4. Few(k, n)
    BY <2>2 DEF Few, NoPending, NoSeq
  <2> QED
    BY <2>3, <2>4
<1>2. CASE l.ready # {}
  <2>1. PICK f \in l.ready :
          /\ k = [l EXCEPT !.pc = "writing", !.ready = @ \ {f}, !.feature = f,
                           !.write = l.latest[f], !.latest[f] = NoPending]
          /\ "Brightness" \in l.ready => f = "Brightness"
    <3>1. l.ready \subseteq Feature
      BY LocalsFields
    <3>2. CASE "Brightness" \in l.ready
      BY <1>2, <3>2 DEF NextWrite
    <3>3. CASE "Brightness" \notin l.ready
      <4>1. "InputSource" \in l.ready
        BY <1>2, <3>1, <3>3 DEF Feature
      <4> QED
        BY <1>2, <3>3, <4>1 DEF NextWrite
    <3> QED
      BY <3>2, <3>3
  <2> DEFINE latest == [l.latest EXCEPT ![f] = NoPending]
             ready  == l.ready \ {f}
             write  == l.latest[f]
  <2>2. /\ f \in Feature /\ l.latest \in [Feature -> Pending] /\ l.latest[f] # NoPending
        /\ l.latest[f] \in Pending /\ "Brightness" \in Feature
    BY LocalsFields DEF Feature
  <2>3. /\ k.pc = "writing" /\ k.feature = f /\ k.ready = ready /\ k.gets = l.gets
        /\ k.write = write /\ k.latest = latest
    <3>1. k = [l EXCEPT !.pc = "writing", !.ready = ready, !.feature = f,
                        !.write = write, !.latest = latest]
      BY <2>1, Zenon DEF Locals
    <3> HIDE DEF k, latest, ready, write
    <3> QED
      BY <3>1 DEF Locals
  <2> HIDE DEF k
  <2>4. \A g \in Feature : latest[g] = IF g = f THEN NoPending ELSE l.latest[g]
    BY <2>2
  <2>5. ready \subseteq Feature
    BY LocalsFields
  <2> HIDE DEF latest
  <2>6. Tidy(k)
    <3>1. \A g \in k.ready : k.latest[g] # NoPending
      BY <2>3, <2>4, <2>5
    <3>2. IsWriting(k) => Slot(k) = NoPending
      BY <2>2, <2>3, <2>4 DEF IsWriting, Slot
    <3> QED
      BY <2>3, <3>1, <3>2 DEF Tidy
  <2>7. Few(k, n)
    <3>1. NoPending.seq <= n
      BY DEF NoPending, NoSeq
    <3> QED
      BY <2>2, <2>3, <2>4, <3>1 DEF Few
  <2>8. f = "Brightness" => Takes(l, k)
    BY <2>2, <2>3, <2>4 DEF Takes, IsWriting, Slot
  <2>9. f # "Brightness" => Rests(l, k)
    BY <2>2, <2>3, <2>4 DEF Rests, IsWriting, Slot
  <2> QED
    BY <2>6, <2>7, <2>8, <2>9
<1> QED
  BY <1>1, <1>2

LEMMA WriteDoneGoes ==
  ASSUME NEW l \in Locals, NEW n \in Nat, Few(l, n), \A f \in l.ready : l.latest[f] # NoPending
  PROVE  /\ Tidy(WriteDone(l)) /\ Few(WriteDone(l), n)
         /\ Rests(l, WriteDone(l)) \/ Takes(l, WriteDone(l))
<1> DEFINE hot == l.hot \cup {l.feature}
           m   == [l EXCEPT !.hot = hot, !.before = NotRead, !.attempt = 0, !.noop = FALSE]
<1>1. hot \in SUBSET Feature /\ NotRead \in Int
  BY LocalsFields DEF NotRead
<1>2. /\ m \in Locals /\ m.latest = l.latest /\ m.ready = l.ready /\ m.write = l.write
      /\ m.gets = l.gets
  <2> DEFINE n1 == [l EXCEPT !.hot = hot, !.noop = FALSE]
  <2> HIDE DEF hot
  <2>1. n1 \in Locals
    BY <1>1 DEF Locals
  <2>2. m = [n1 EXCEPT !.before = NotRead, !.attempt = 0]
    BY DEF Locals
  <2>3. m \in Locals
    <3> HIDE DEF n1, m
    <3> QED
      BY <1>1, <2>1, <2>2 DEF Locals
  <2>4. m.latest = l.latest /\ m.ready = l.ready /\ m.write = l.write /\ m.gets = l.gets
    BY DEF Locals
  <2> QED
    BY <2>3, <2>4
<1>3. WriteDone(l) = NextWrite(m)
  BY DEF WriteDone
<1> HIDE DEF m
<1>4. Few(m, n) /\ \A f \in m.ready : m.latest[f] # NoPending
  BY <1>2 DEF Few
<1>5. /\ Tidy(WriteDone(l)) /\ Few(WriteDone(l), n)
      /\ Rests(m, WriteDone(l)) \/ Takes(m, WriteDone(l))
  BY <1>2, <1>3, <1>4, NextWriteGoes
<1>6. Slot(m) = Slot(l)
  BY <1>2 DEF Slot
<1> QED
  BY <1>5, <1>6 DEF Rests, Takes

-----------------------------------------------------------------------------
(* What a worker's step does with what it was asked.                       *)

\* The panel stays, or its display is on the list of the disturbed ones.
Still(d) == panel'[d] = panel[d] \/ d \in disturbed'

\* The thread ends; the queue ends with it.
Leaves(w) ==
  /\ thread'[w] = "exited" /\ inbox'[w] = <<>> /\ local'[w] = NewLocals
  /\ Still(w[1])

\* The channel is drained into the queue.
Drains(w) ==
  /\ inbox'[w] = <<>>
  /\ ~IsWriting(local[w]) /\ ~IsWriting(local'[w])
  /\ Slot(local'[w]) = Newest("Brightness", inbox[w], Slot(local[w]))
  /\ UNCHANGED panel

\* The worker goes on to its next write, or to something else.
GoesOn(w) ==
  /\ inbox'[w] = inbox[w]
  /\ ~IsWriting(local[w])
  /\ Rests(local[w], local'[w]) \/ Takes(local[w], local'[w])
  /\ UNCHANGED panel

\* A write of the brightness ends.
Writes(w) ==
  /\ inbox'[w] = inbox[w]
  /\ IsWriting(local[w]) /\ Rests(local[w], local'[w])
  /\ \/ panel'[w[1]] = Clamped(w[1], local[w].write.raw)
     \/ w[1] \in disturbed'

\* What a new message says: of a write that it is over, of a reading where
\* the panel is.
Says(w, m) ==
  /\ m.seq <= seq[w[1]]
  /\ m.key = "Brightness" =>
       /\ IsWriting(local[w]) /\ m.seq = local[w].write.seq
       /\ ~IsWriting(local'[w]) /\ Slot(local'[w]) = NoPending
  /\ m.outcome = "Get" /\ m.ok =>
       m.current = panel[w[1]] /\ m.max = PanelMax[w[1]] /\ UNCHANGED panel

Turns(w) ==
  /\ Leaves(w) \/ Drains(w) \/ GoesOn(w) \/ Writes(w)
  /\ \A m \in Unread' \ Unread : Says(w, m)
  /\ Tidy(local'[w]) /\ Few(local'[w], seq[w[1]])

\* What a worker relies on.
Numbered(w) ==
  /\ \A i \in DOMAIN inbox[w] : inbox[w][i].seq <= seq[w[1]]
  /\ Few(local[w], seq[w[1]])

Ready(w) == Tidy(local[w]) /\ Numbered(w)

LEMMA ReadyTyped ==
  ASSUME TypeOK, NEW w \in Workers
  PROVE  /\ local[w] \in Locals /\ inbox[w] \in Seq(WorkerCommand)
         /\ w[1] \in Displays /\ seq[w[1]] \in Nat /\ panel[w[1]] \in Nat
         /\ PanelMax[w[1]] \in Nat /\ retired[w] \in BOOLEAN
         /\ panel \in [Displays -> Nat]
BY WorkerAssumption DEF TypeOK, WorkerTypeOK, EngineTypeOK, ProtocolTypeOK, Workers

LEMMA Became ==
  ASSUME TypeOK, NEW w \in Workers, NEW l, Become(w, l)
  PROVE  local'[w] = l
BY DEF Become, TypeOK, WorkerTypeOK

LEMMA ExitTurns ==
  ASSUME TypeOK, NEW w \in Workers, Exit(w), Still(w[1]),
         \A m \in Unread' \ Unread : Says(w, m)
  PROVE  Turns(w)
<1>1. inbox \in [Workers -> Seq(WorkerCommand)] /\ seq[w[1]] \in Nat
  BY ReadyTyped DEF TypeOK, EngineTypeOK, ProtocolTypeOK
<1>2. thread'[w] = "exited" /\ local'[w] = NewLocals
  BY Exited, Became DEF Exit
<1>3. inbox'[w] = <<>>
  BY <1>1 DEF Exit
<1> QED
  BY <1>1, <1>2, <1>3, NewLocalsIdle DEF Turns, Leaves

\* A message that is not about a write of the brightness, nor a reading.
Neutral(w, m) ==
  /\ m \in WorkerAck /\ m.seq <= seq[w[1]]
  /\ m.key # "Brightness" /\ (m.outcome # "Get" \/ ~m.ok)

LEMMA AckNeutral ==
  ASSUME NEW w \in Workers, NEW s \in Nat, seq[w[1]] \in Nat
  PROVE  /\ Neutral(w, OpenFailed(w)) /\ Neutral(w, SoftwareFallback(w))
         /\ s <= seq[w[1]] => Neutral(w, GetFailed(w, s)) /\ Neutral(w, Panicked(w, "Get", s))
         /\ \A m : Neutral(w, m) => Says(w, m)
<1>1. "Get" \in InflightKey /\ 0 \in Nat
  BY DEF InflightKey
<1>2. /\ OpenFailed(w) \in WorkerAck /\ SoftwareFallback(w) \in WorkerAck
      /\ GetFailed(w, s) \in WorkerAck /\ Panicked(w, "Get", s) \in WorkerAck
  BY <1>1, AckTypes
<1> QED
  BY <1>2 DEF Neutral, Says, OpenFailed, SoftwareFallback, GetFailed, Panicked, Ack, NoSeq

LEMMA SaysOne ==
  ASSUME TypeOK, NEW w \in Workers, NEW m \in WorkerAck, Send(<<m>>), Says(w, m)
  PROVE  \A n \in Unread' \ Unread : Says(w, n)
BY UnreadSentOne

\* A worker that stays where it is, and sends what is neutral.
LEMMA GoesTurns ==
  ASSUME TypeOK, NEW w \in Workers, NEW k, Become(w, k), UNCHANGED <<inbox, panel>>,
         ~IsWriting(local[w]), Rests(local[w], k) \/ Takes(local[w], k),
         Tidy(k), Few(k, seq[w[1]]),
         \A m \in Unread' \ Unread : Says(w, m)
  PROVE  Turns(w)
<1>1. local'[w] = k
  BY Became
<1> QED
  BY <1>1 DEF Turns, GoesOn

LEMMA StartsTurn ==
  ASSUME TypeOK, NEW w \in Workers, Ready(w), Starts(w)
  PROVE  Turns(w)
<1>1. seq[w[1]] \in Nat /\ local[w] \in Locals /\ 0 \in Nat
  BY ReadyTyped
<1>2. /\ \A m \in {OpenFailed(w), SoftwareFallback(w)} : m \in WorkerAck /\ Says(w, m)
  BY <1>1, AckNeutral DEF Neutral
<1>3. CASE OpenFails(w)
  <2>1. Send(<<OpenFailed(w)>>) /\ Exit(w) /\ UNCHANGED panel
    BY <1>3 DEF OpenFails, WorkerFrame
  <2> QED
    BY <1>2, <2>1, SaysOne, ExitTurns DEF Still
<1>4. CASE Open(w)
  <2>1. PICK has_range \in BOOLEAN :
          /\ Become(w, [NewLocals EXCEPT !.pc = "parked", !.settled = ~has_range])
          /\ Send(IF has_range THEN <<>> ELSE <<SoftwareFallback(w)>>)
    BY <1>4 DEF Open
  <2> DEFINE k == [NewLocals EXCEPT !.pc = "parked", !.settled = ~has_range]
  <2>2. UNCHANGED <<inbox, panel>> /\ local[w].pc = "opening"
    BY <1>4 DEF Open, Stay, At
  <2>3. k.pc = "parked" /\ k.latest = NewLocals.latest /\ k.ready = {} /\ k.gets = {}
        /\ k.write = NoPending
    BY DEF NewLocals
  <2>4. Become(w, k)
    BY <2>1
  <2> HIDE DEF k
  <2>5. Slot(k) = NoPending /\ Tidy(k) /\ Few(k, seq[w[1]]) /\ ~IsWriting(k)
    BY <1>1, <2>3, NewLocalsIdle DEF Slot, Tidy, Few, IsWriting, NoPending, NoSeq
  <2>6. ~IsWriting(local[w]) /\ Slot(local[w]) = NoPending
    BY <2>2 DEF IsWriting, Ready, Tidy
  <2>7. \A m \in Unread' \ Unread : Says(w, m)
    <3>1. CASE has_range
      BY <2>1, <3>1, UnreadSentNone
    <3>2. CASE ~has_range
      BY <1>2, <2>1, <3>2, SaysOne
    <3> QED
      BY <3>1, <3>2
  <2> QED
    BY <2>2, <2>4, <2>5, <2>6, <2>7, GoesTurns DEF Rests
<1> QED
  BY <1>3, <1>4 DEF Starts

\* The newest write of a channel is its last, or there is none and the queue
\* stays as it is.
LEMMA NewestCases ==
  ASSUME NEW q \in Seq(WorkerCommand), NEW f \in Feature, NEW old
  PROVE  \/ Newest(f, q, old) = old /\ \A i \in DOMAIN q : q[i].op # f
         \/ \E i \in DOMAIN q :
              /\ q[i].op = f /\ \A j \in DOMAIN q : q[j].op = f => j <= i
              /\ Newest(f, q, old) = [raw |-> q[i].raw, seq |-> q[i].seq]
<1> DEFINE sets == {j \in DOMAIN q : q[j].op = f}
<1>1. CASE sets = {}
  BY <1>1 DEF Newest
<1>2. CASE sets # {}
  <2> DEFINE S == {Len(q) - j : j \in sets}
  <2>1. S \subseteq Nat /\ S # {}
    BY <1>2
  <2>2. PICK m \in S : \A n \in S : m <= n
    <3> HIDE DEF S
    <3> QED
      BY <2>1, LeastNatural
  <2>3. PICK i \in sets : m = Len(q) - i
    OBVIOUS
  <2>4. ASSUME NEW j \in sets PROVE j <= i
    <3>1. m <= Len(q) - j
      BY <2>2
    <3>2. i \in Int /\ j \in Int /\ Len(q) \in Int
      OBVIOUS
    <3> QED
      BY <2>3, <3>1, <3>2
  <2>5. i \in DOMAIN q /\ q[i].op = f /\ \A j \in DOMAIN q : q[j].op = f => j <= i
    BY <2>3, <2>4
  <2>6. Newest(f, q, old) = [raw |-> q[i].raw, seq |-> q[i].seq]
    BY <2>5, NewestIsLast
  <2> QED
    BY <2>5, <2>6
<1> QED
  BY <1>1, <1>2

LEMMA AbsorbTurns ==
  ASSUME TypeOK, NEW w \in Workers, Ready(w), Absorb(w), ~Exit(w)
  PROVE  Turns(w)
<1> DEFINE q      == inbox[w]
           l      == local[w]
           latest == [f \in Feature |-> Newest(f, q, l.latest[f])]
           gets   == {q[i].seq : i \in {i \in DOMAIN q : q[i].op = "Get"}}
           k      == [l EXCEPT !.pc = "reading", !.latest = latest, !.gets = gets]
<1>1. q \in Seq(WorkerCommand) /\ l \in Locals /\ seq[w[1]] \in Nat
      /\ inbox \in [Workers -> Seq(WorkerCommand)]
  BY ReadyTyped DEF TypeOK, EngineTypeOK, ProtocolTypeOK
<1>2. /\ Become(w, k) /\ inbox' = [inbox EXCEPT ![w] = <<>>]
      /\ l.pc = "parked" /\ UNCHANGED <<acks, panel>>
  BY DEF Absorb, At, WorkerFrame
<1>3. /\ k.pc = "reading" /\ k.latest = latest /\ k.gets = gets
      /\ k.ready = l.ready /\ k.write = l.write
  <2> HIDE DEF l, latest, gets
  <2> QED
    BY <1>1 DEF Locals
<1>4. \A f \in Feature : latest[f].seq <= seq[w[1]]
  <2> SUFFICES ASSUME NEW f \in Feature
               PROVE  Newest(f, q, l.latest[f]).seq <= seq[w[1]]
    OBVIOUS
  <2>1. l.latest[f].seq <= seq[w[1]] /\ \A i \in DOMAIN q : q[i].seq <= seq[w[1]]
    BY DEF Ready, Numbered, Few
  <2> HIDE DEF q, l
  <2> QED
    BY <1>1, <2>1, NewestCases
<1>5. \A s \in gets : s <= seq[w[1]]
  BY DEF Ready, Numbered
<1>6. Slot(k) = Newest("Brightness", q, Slot(l)) /\ ~IsWriting(k) /\ ~IsWriting(l)
  <2>1. latest["Brightness"] = Newest("Brightness", q, l.latest["Brightness"])
    BY DEF Feature
  <2> HIDE DEF latest, k, l, q
  <2> QED
    BY <1>2, <1>3, <2>1 DEF Slot, IsWriting
<1> HIDE DEF k, latest, gets
<1>7. Few(k, seq[w[1]])
  BY <1>3, <1>4, <1>5 DEF Few, Ready, Numbered
<1>8. Tidy(k)
  BY <1>2, <1>3, <1>6 DEF Tidy, Ready
<1>9. local'[w] = k /\ inbox'[w] = <<>> /\ Unread' = Unread
  BY <1>1, <1>2, Became, UnreadSame
<1> QED
  BY <1>2, <1>6, <1>7, <1>8, <1>9 DEF Turns, Drains

LEMMA WaitsTurn ==
  ASSUME TypeOK, NEW w \in Workers, Ready(w), Waits(w)
  PROVE  Turns(w)
<1>1. /\ Unread' = Unread /\ UNCHANGED panel
      /\ local[w].pc = "parked" /\ local[w] \in Locals
  BY UnreadSame, ReadyTyped DEF Waits, Absorb, GapElapses, Disconnected, At, WorkerFrame
<1>2. CASE Exit(w)
  BY <1>1, <1>2, ExitTurns DEF Still
<1>3. CASE GapElapses(w)
  <2>1. PICK f : Become(w, [local[w] EXCEPT !.pc = "reading", !.hot = @ \ {f}])
    BY <1>3 DEF GapElapses
  <2> DEFINE k == [local[w] EXCEPT !.pc = "reading", !.hot = @ \ {f}]
  <2>2. /\ k.pc = "reading" /\ k.latest = local[w].latest /\ k.ready = local[w].ready
        /\ k.write = local[w].write /\ k.gets = local[w].gets
    BY <1>1 DEF Locals
  <2>3. Become(w, k) /\ UNCHANGED inbox
    BY <1>3, <2>1 DEF GapElapses, Stay
  <2> HIDE DEF k
  <2>4. Tidy(k) /\ Few(k, seq[w[1]])
    BY <1>1, <2>2 DEF Ready, Numbered, Tidy, Few, IsWriting
  <2>5. ~IsWriting(local[w]) /\ Rests(local[w], k)
    BY <1>1, <2>2 DEF IsWriting, Rests, Slot
  <2> QED
    BY <1>1, <2>3, <2>4, <2>5, GoesTurns
<1> QED
  BY <1>2, <1>3, AbsorbTurns DEF Waits, Disconnected

\* A read leaves the writes as they are.
LEMMA ReturnsTurn ==
  ASSUME TypeOK, NEW w \in Workers, Ready(w), At(w, "reading"), WorkerFrame,
         NEW m \in WorkerAck, Says(w, m), NEW k, ReadReturns(w, m, k),
         k.pc = "reading", k.latest = local[w].latest, k.ready = local[w].ready,
         k.write = local[w].write, k.gets \subseteq local[w].gets
  PROVE  Turns(w)
<1>1. /\ Send(<<m>>) /\ UNCHANGED panel
      /\ Exit(w) \/ (Become(w, k) /\ UNCHANGED inbox)
  BY DEF ReadReturns, Stay, WorkerFrame
<1>2. \A n \in Unread' \ Unread : Says(w, n)
  BY <1>1, SaysOne
<1>3. CASE Exit(w)
  BY <1>1, <1>2, <1>3, ExitTurns DEF Still
<1>4. CASE Become(w, k) /\ UNCHANGED inbox
  <2>1. Tidy(k) /\ Few(k, seq[w[1]])
    BY DEF Ready, Numbered, Tidy, Few, IsWriting, At
  <2>2. ~IsWriting(local[w]) /\ Rests(local[w], k)
    BY DEF IsWriting, Rests, Slot, At
  <2> QED
    BY <1>1, <1>2, <1>4, <2>1, <2>2, GoesTurns
<1> QED
  BY <1>1, <1>3, <1>4

LEMMA ReadsTurn ==
  ASSUME TypeOK, NEW w \in Workers, Ready(w), PerformRead(w)
  PROVE  Turns(w)
<1> DEFINE p == panel[w[1]]
           x == PanelMax[w[1]]
<1>1. At(w, "reading") /\ WorkerFrame
  BY DEF PerformRead
<1>2. PICK s \in local[w].gets : PerformGet(w, s)
  BY DEF PerformRead
<1>3. local[w] \in Locals /\ seq[w[1]] \in Nat /\ p \in Nat /\ x \in Nat
  BY ReadyTyped
<1>4. s \in Nat /\ s <= seq[w[1]]
  BY <1>2, <1>3, LocalsFields DEF Ready, Numbered, Few
<1> DEFINE rest  == [local[w] EXCEPT !.gets = @ \ {s}]
           known == IF local[w].settled THEN rest.known ELSE p
           seen  == [rest EXCEPT !.known = known]
<1>5. /\ rest \in Locals /\ rest.pc = local[w].pc /\ rest.latest = local[w].latest
      /\ rest.ready = local[w].ready /\ rest.write = local[w].write
      /\ rest.gets \subseteq local[w].gets
  BY <1>3 DEF Locals
<1>6. /\ seen.pc = local[w].pc /\ seen.latest = local[w].latest
      /\ seen.ready = local[w].ready /\ seen.write = local[w].write
      /\ seen.gets \subseteq local[w].gets
  <2> HIDE DEF rest, known
  <2> QED
    BY <1>5 DEF Locals
<1>7. \/ ReadReturns(w, GetAck(w, s, p, x), seen)
      \/ ReadReturns(w, GetFailed(w, s), rest)
      \/ Send(<<Panicked(w, "Get", s)>>) /\ Exit(w)
  BY <1>2, Zenon DEF PerformGet
<1> HIDE DEF rest, seen, p, x
<1>8. GetAck(w, s, p, x) \in WorkerAck /\ Says(w, GetAck(w, s, p, x))
  <2>1. GetAck(w, s, p, x) \in WorkerAck
    BY <1>3, <1>4, AckTypes DEF InflightKey
  <2>2. /\ GetAck(w, s, p, x).seq = s /\ GetAck(w, s, p, x).key = "Get"
        /\ GetAck(w, s, p, x).current = p /\ GetAck(w, s, p, x).max = x
    BY DEF GetAck, Ack
  <2>3. UNCHANGED panel
    BY <1>1 DEF WorkerFrame
  <2> QED
    BY <1>4, <2>1, <2>2, <2>3 DEF Says, p, x
<1>9. \A m \in {GetFailed(w, s), Panicked(w, "Get", s)} : m \in WorkerAck /\ Says(w, m)
  BY <1>3, <1>4, AckNeutral DEF Neutral
<1>10. CASE ReadReturns(w, GetAck(w, s, p, x), seen)
  BY <1>1, <1>6, <1>8, <1>10, ReturnsTurn DEF At
<1>11. CASE ReadReturns(w, GetFailed(w, s), rest)
  BY <1>1, <1>5, <1>9, <1>11, ReturnsTurn DEF At
<1>12. CASE Send(<<Panicked(w, "Get", s)>>) /\ Exit(w)
  <2>1. \A n \in Unread' \ Unread : Says(w, n)
    BY <1>9, <1>12, SaysOne
  <2> QED
    BY <1>1, <1>12, <2>1, ExitTurns DEF Still, WorkerFrame
<1> QED
  BY <1>7, <1>10, <1>11, <1>12

LEMMA BeginsTurn ==
  ASSUME TypeOK, NEW w \in Workers, Ready(w), BeginWrites(w)
  PROVE  Turns(w)
<1>1. /\ Unread' = Unread /\ UNCHANGED panel
      /\ local[w].pc = "reading" /\ local[w] \in Locals /\ seq[w[1]] \in Nat
  BY UnreadSame, ReadyTyped DEF BeginWrites, At, WorkerFrame
<1>2. CASE Exit(w)
  BY <1>1, <1>2, ExitTurns DEF Still
<1>3. CASE ~Exit(w)
  <2>1. PICK still_hot \in SUBSET local[w].hot :
          /\ Become(w, NextWrite([local[w] EXCEPT
               !.hot = still_hot, !.ready = Queued(local[w]) \ still_hot]))
          /\ UNCHANGED inbox
    BY <1>3 DEF BeginWrites, Stay
  <2> DEFINE ready == Queued(local[w]) \ still_hot
             m     == [local[w] EXCEPT !.hot = still_hot, !.ready = ready]
  <2>2. ready \in SUBSET Feature /\ still_hot \in SUBSET Feature
        /\ \A f \in ready : local[w].latest[f] # NoPending
    BY <1>1, LocalsFields DEF Queued
  <2>3. /\ m \in Locals /\ m.latest = local[w].latest /\ m.ready = ready
        /\ m.write = local[w].write /\ m.gets = local[w].gets
    <3> HIDE DEF ready
    <3> QED
      BY <1>1, <2>2 DEF Locals
  <2>4. Become(w, NextWrite(m))
    BY <2>1
  <2> HIDE DEF m, ready
  <2>5. Few(m, seq[w[1]]) /\ \A f \in m.ready : m.latest[f] # NoPending
    BY <2>2, <2>3 DEF Ready, Numbered, Few
  <2>6. /\ Tidy(NextWrite(m)) /\ Few(NextWrite(m), seq[w[1]])
        /\ Rests(m, NextWrite(m)) \/ Takes(m, NextWrite(m))
    BY <1>1, <2>3, <2>5, NextWriteGoes
  <2>7. Slot(m) = Slot(local[w]) /\ ~IsWriting(local[w])
    BY <1>1, <2>3 DEF Slot, IsWriting
  <2>8. Rests(local[w], NextWrite(m)) \/ Takes(local[w], NextWrite(m))
    BY <2>6, <2>7 DEF Rests, Takes
  <2> QED
    BY <1>1, <2>1, <2>4, <2>6, <2>7, <2>8, GoesTurns
<1> QED
  BY <1>2, <1>3

\* What the call of a write did to the panel.
LEMMA LandsWhere ==
  ASSUME TypeOK, NEW w \in Workers, NEW result, Lands(w, result)
  PROVE  /\ local[w].feature # "Brightness" => panel' = panel
         /\ local[w].feature = "Brightness" =>
              \/ panel'[w[1]] = Clamped(w[1], local[w].write.raw)
              \/ w[1] \in disturbed'
         /\ result = "panic" \/ retired[w] => Still(w[1])
<1>1. panel \in [Displays -> Nat] /\ w[1] \in Displays
  BY ReadyTyped
<1> QED
  BY <1>1 DEF Lands, Still

\* A write that ends, and the worker goes on.
LEMMA EndsTurn ==
  ASSUME TypeOK, NEW w \in Workers, Ready(w), At(w, "writing"),
         NEW result, Lands(w, result), NEW k, Become(w, k), UNCHANGED inbox,
         Rests(local[w], k) \/ Takes(local[w], k), Tidy(k), Few(k, seq[w[1]]),
         \A m \in Unread' \ Unread :
           m = SetAck(w, local[w].feature, local[w].write.seq) \/ Neutral(w, m)
  PROVE  Turns(w)
<1> DEFINE l    == local[w]
           done == SetAck(w, l.feature, l.write.seq)
<1>1. l.pc = "writing" /\ local'[w] = k /\ l.write.seq <= seq[w[1]] /\ seq[w[1]] \in Nat
  BY Became, ReadyTyped DEF At, Ready, Numbered, Few
<1>2. done.seq = l.write.seq /\ done.key = l.feature /\ done.outcome = "Set"
  BY DEF SetAck, Ack
<1>3. \A m : Neutral(w, m) => Says(w, m)
  BY <1>1, AckNeutral
<1>4. CASE l.feature = "Brightness"
  <2>1. IsWriting(l) /\ Slot(l) = NoPending
    BY <1>1, <1>4 DEF IsWriting, Ready, Tidy
  <2>2. Rests(l, k) /\ ~IsWriting(k) /\ Slot(k) = NoPending
    BY <2>1 DEF Rests, Takes
  <2>3. Says(w, done)
    BY <1>1, <1>2, <2>1, <2>2 DEF Says
  <2>4. Writes(w)
    BY <1>1, <1>4, <2>1, <2>2, LandsWhere DEF Writes
  <2> QED
    BY <1>1, <1>3, <2>3, <2>4, Zenon DEF Turns
<1>5. CASE l.feature # "Brightness"
  <2>1. Says(w, done)
    BY <1>1, <1>2, <1>5 DEF Says
  <2>2. ~IsWriting(l) /\ UNCHANGED panel
    BY <1>5, LandsWhere DEF IsWriting
  <2>3. \A m \in Unread' \ Unread : Says(w, m)
    BY <1>3, <2>1, Zenon
  <2> QED
    BY <2>2, <2>3, GoesTurns
<1> QED
  BY <1>4, <1>5

\* The worker ends with its write.
LEMMA WriteExitTurns ==
  ASSUME TypeOK, NEW w \in Workers, Ready(w), At(w, "writing"), Exit(w), Still(w[1]),
         NEW m \in WorkerAck, Send(<<m>>), m.seq = local[w].write.seq,
         m.key = local[w].feature, m.outcome # "Get"
  PROVE  Turns(w)
<1>1. local[w].write.seq <= seq[w[1]] /\ local[w].pc = "writing" /\ 0 \in Nat
  BY DEF At, Ready, Numbered, Few
<1>2. local'[w] = NewLocals
  BY Became DEF Exit
<1>3. Says(w, m)
  BY <1>1, <1>2, NewLocalsIdle DEF Says, IsWriting
<1> QED
  BY <1>3, SaysOne, ExitTurns

LEMMA FinishTurn ==
  ASSUME TypeOK, NEW w \in Workers, Ready(w), FinishWrite(w)
  PROVE  Turns(w)
<1> DEFINE l      == local[w]
           n      == seq[w[1]]
           done   == SetAck(w, l.feature, l.write.seq)
           panics == Panicked(w, l.feature, l.write.seq)
           proof  == SoftwareFallback(w)
<1>1. At(w, "writing") /\ l \in Locals /\ l.pc = "writing" /\ n \in Nat
  BY ReadyTyped DEF FinishWrite, At
<1>2. l.feature \in InflightKey /\ l.write.seq \in Nat
  BY <1>1, LocalsFields, PendingType DEF InflightKey
<1>3. /\ done \in WorkerAck /\ panics \in WorkerAck /\ proof \in WorkerAck
      /\ done.seq = l.write.seq /\ done.key = l.feature /\ done.outcome = "Set"
      /\ panics.seq = l.write.seq /\ panics.key = l.feature /\ panics.outcome = "Panicked"
      /\ Neutral(w, proof)
  <2>1. done \in WorkerAck /\ panics \in WorkerAck /\ proof \in WorkerAck
    <3> HIDE DEF l
    <3> QED
      BY <1>2, AckTypes
  <2>2. Neutral(w, proof)
    BY <1>1, AckNeutral
  <2> QED
    BY <2>1, <2>2 DEF SetAck, Panicked, Ack
<1>4. PICK result \in WriteResult : Lands(w, result) /\ WriteEnds(w, result)
  BY WriteOutcomes
<1>5. Few(l, n) /\ (\A f \in l.ready : l.latest[f] # NoPending) /\ (IsWriting(l) => Slot(l) = NoPending)
  BY DEF Ready, Numbered, Tidy
<1>6. CASE result = "panic" /\ Send(<<panics>>) /\ Exit(w)
  <2>1. Still(w[1])
    BY <1>4, <1>6, LandsWhere
  <2> HIDE DEF panics
  <2> QED
    BY <1>1, <1>3, <1>6, <2>1, WriteExitTurns
<1>7. CASE Send(<<done>>) /\ Exit(w) /\ retired[w]
  <2>1. Still(w[1])
    BY <1>4, <1>7, LandsWhere
  <2> HIDE DEF done
  <2> QED
    BY <1>1, <1>3, <1>7, <2>1, WriteExitTurns
<1>8. ASSUME NEW k, Become(w, k), UNCHANGED inbox, Send(<<done>>) \/ Send(<<done, proof>>),
             Rests(l, k) \/ Takes(l, k), Tidy(k), Few(k, n)
      PROVE  Turns(w)
  <2>1. \A m \in Unread' \ Unread : m = done \/ Neutral(w, m)
    <3> HIDE DEF done, proof
    <3>1. CASE Send(<<done>>)
      BY <1>3, <3>1, UnreadSentOne
    <3>2. CASE Send(<<done, proof>>)
      BY <1>3, <3>2, UnreadSentTwo
    <3> QED
      BY <1>8, <3>1, <3>2
  <2> QED
    BY <1>1, <1>4, <1>8, <2>1, EndsTurn
<1>9. ASSUME NEW settled \in BOOLEAN,
             Become(w, WriteDone([l EXCEPT !.settled = settled])), UNCHANGED inbox,
             Send(<<done>>) \/ Send(<<done, proof>>)
      PROVE  Turns(w)
  <2> DEFINE k == [l EXCEPT !.settled = settled]
  <2>1. /\ k \in Locals /\ k.latest = l.latest /\ k.ready = l.ready /\ k.write = l.write
        /\ k.gets = l.gets
    <3> HIDE DEF l
    <3> QED
      BY <1>1 DEF Locals
  <2>2. Become(w, WriteDone(k))
    BY <1>9
  <2> HIDE DEF k, l, n
  <2>3. Few(k, n) /\ \A f \in k.ready : k.latest[f] # NoPending
    BY <1>5, <2>1 DEF Few
  <2>4. /\ Tidy(WriteDone(k)) /\ Few(WriteDone(k), n)
        /\ Rests(k, WriteDone(k)) \/ Takes(k, WriteDone(k))
    BY <1>1, <2>1, <2>3, WriteDoneGoes
  <2>5. Rests(l, WriteDone(k)) \/ Takes(l, WriteDone(k))
    BY <2>1, <2>4 DEF Rests, Takes, Slot
  <2> QED
    BY <1>8, <1>9, <2>2, <2>4, <2>5
<1>10. CASE /\ Become(w, [l EXCEPT !.pc = "verifying", !.before = l.known])
            /\ UNCHANGED inbox /\ Send(<<done>>)
  <2> DEFINE known == l.known
             k     == [l EXCEPT !.pc = "verifying", !.before = known]
  <2>1. /\ k.pc = "verifying" /\ k.latest = l.latest /\ k.ready = l.ready /\ k.write = l.write
        /\ k.gets = l.gets
    <3> HIDE DEF l, known
    <3> QED
      BY <1>1 DEF Locals
  <2>2. Become(w, k)
    BY <1>10
  <2> HIDE DEF k, l, n
  <2>3. Tidy(k) /\ Few(k, n) /\ Rests(l, k)
    BY <1>5, <2>1 DEF Tidy, Few, Rests, IsWriting, Slot
  <2> QED
    BY <1>8, <1>10, <2>2, <2>3
<1>11. CASE Become(w, WriteDone(l)) /\ UNCHANGED inbox /\ Send(<<done>>)
  <2>1. /\ Tidy(WriteDone(l)) /\ Few(WriteDone(l), n)
        /\ Rests(l, WriteDone(l)) \/ Takes(l, WriteDone(l))
    <3> HIDE DEF l, n
    <3> QED
      BY <1>1, <1>5, WriteDoneGoes
  <2> HIDE DEF l, n
  <2> QED
    BY <1>8, <1>11, <2>1
<1>12. CASE /\ \E b \in BOOLEAN : Become(w, WriteDone([l EXCEPT !.settled = @ \/ b]))
            /\ UNCHANGED inbox
            /\ Send(<<done>>) \/ Send(<<done, proof>>)
  <2>1. PICK b \in BOOLEAN : Become(w, WriteDone([l EXCEPT !.settled = @ \/ b]))
    BY <1>12
  <2>2. PICK settled \in BOOLEAN : settled = (l.settled \/ b)
    BY <1>1, LocalsFields
  <2>3. Become(w, WriteDone([l EXCEPT !.settled = settled]))
    BY <2>1, <2>2
  <2> HIDE DEF l, done, proof
  <2> QED
    BY <1>9, <1>12, <2>3
<1>13. UNCHANGED <<thread, inbox>> => UNCHANGED inbox
  OBVIOUS
<1> HIDE DEF l, n, done, panics, proof
<1> QED
  BY <1>4, <1>6, <1>7, <1>10, <1>11, <1>12, <1>13, Zenon DEF WriteEnds, l, n, done, panics, proof

LEMMA VerifiesTurn ==
  ASSUME TypeOK, NEW w \in Workers, Ready(w), Verifies(w)
  PROVE  Turns(w)
<1> DEFINE l    == local[w]
           n    == seq[w[1]]
           seen == panel[w[1]]
<1>1. /\ l \in Locals /\ l.pc = "verifying" /\ n \in Nat /\ UNCHANGED <<inbox, panel>>
  BY ReadyTyped DEF Verifies, VerifyMoot, VerifyRead, Stay, At, WorkerFrame
<1>2. Few(l, n) /\ (\A f \in l.ready : l.latest[f] # NoPending) /\ ~IsWriting(l)
  BY <1>1 DEF Ready, Numbered, Tidy, IsWriting
<1>3. Neutral(w, SoftwareFallback(w)) /\ SoftwareFallback(w) \in WorkerAck
      /\ \A m : Neutral(w, m) => Says(w, m)
  BY <1>1, AckNeutral DEF Neutral
\* The locals the worker goes on with hold the same writes.
<1> DEFINE Like(k) == /\ k \in Locals /\ k.latest = l.latest /\ k.ready = l.ready
                      /\ k.write = l.write /\ k.gets = l.gets
<1>4. ASSUME NEW k, Like(k), Become(w, WriteDone(k)), \A m \in Unread' \ Unread : Says(w, m)
      PROVE  Turns(w)
  <2> HIDE DEF l, n
  <2>1. Few(k, n) /\ \A f \in k.ready : k.latest[f] # NoPending
    BY <1>2, <1>4 DEF Few
  <2>2. /\ Tidy(WriteDone(k)) /\ Few(WriteDone(k), n)
        /\ Rests(k, WriteDone(k)) \/ Takes(k, WriteDone(k))
    BY <1>1, <1>4, <2>1, WriteDoneGoes
  <2>3. Rests(l, WriteDone(k)) \/ Takes(l, WriteDone(k))
    BY <1>4, <2>2 DEF Rests, Takes, Slot
  <2> QED
    BY <1>1, <1>2, <1>4, <2>2, <2>3, GoesTurns DEF l, n
<1>5. CASE VerifyMoot(w)
  <2>1. Like(l) /\ Become(w, WriteDone(l)) /\ Unread' = Unread
    BY <1>1, <1>5, UnreadSame DEF VerifyMoot
  <2> HIDE DEF l
  <2> QED
    BY <1>4, <2>1
<1>6. CASE VerifyRead(w)
  <2> DEFINE noop    == [l EXCEPT !.known = seen, !.noop = TRUE]
             reached == [l EXCEPT !.known = seen, !.settled = TRUE]
  <2>1. Like(noop) /\ noop.pc = "verifying" /\ Like(reached)
    <3>1. seen \in Int
      BY ReadyTyped
    <3> HIDE DEF l, seen
    <3> QED
      BY <1>1, <3>1 DEF Locals
  <2>2. PICK m \in {l, noop} :
          \/ Become(w, [m EXCEPT !.attempt = @ + 1]) /\ Send(<<>>)
          \/ /\ Send(IF m.noop THEN <<SoftwareFallback(w)>> ELSE <<>>)
             /\ Become(w, WriteDone([m EXCEPT !.settled = m.noop]))
          \/ Become(w, WriteDone(reached)) /\ Send(<<>>)
    BY <1>6 DEF VerifyRead
  <2> HIDE DEF noop, reached
  <2>3. Like(m) /\ m.pc = "verifying"
    BY <1>1, <2>1, <2>2
  <2>4. \A a \in Unread' \ Unread : Says(w, a)
    <3>1. Send(<<>>) => Unread' = Unread
      BY UnreadSentNone
    <3>2. Send(<<SoftwareFallback(w)>>) => Unread' = Unread \cup {SoftwareFallback(w)}
      BY <1>3, UnreadSentOne
    <3>3. Send(<<>>) \/ Send(<<SoftwareFallback(w)>>)
      BY <2>2, Zenon
    <3> QED
      BY <1>3, <3>1, <3>2, <3>3
  <2> HIDE DEF l, n
  <2>5. CASE Become(w, [m EXCEPT !.attempt = @ + 1])
    <3> DEFINE k == [m EXCEPT !.attempt = @ + 1]
    <3>1. /\ k.pc = "verifying" /\ k.latest = l.latest /\ k.ready = l.ready
          /\ k.write = l.write /\ k.gets = l.gets
      BY <2>3 DEF Locals
    <3>2. Become(w, k)
      BY <2>5
    <3> HIDE DEF k
    <3>3. Tidy(k) /\ Few(k, n) /\ Rests(l, k)
      BY <1>2, <3>1 DEF Tidy, Few, Rests, IsWriting, Slot
    <3> QED
      BY <1>1, <1>2, <2>4, <3>2, <3>3, GoesTurns DEF l, n
  <2>6. CASE Become(w, WriteDone([m EXCEPT !.settled = m.noop]))
    <3> DEFINE k == [m EXCEPT !.settled = m.noop]
    <3>1. Like(k)
      BY <2>3 DEF Locals
    <3>2. Become(w, WriteDone(k))
      BY <2>6
    <3> HIDE DEF k, Like
    <3> QED
      BY <1>4, <2>4, <3>1, <3>2
  <2>7. CASE Become(w, WriteDone(reached))
    <3> HIDE DEF Like
    <3> QED
      BY <1>4, <2>1, <2>4, <2>7
  <2> QED
    BY <2>2, <2>5, <2>6, <2>7, Zenon
<1> QED
  BY <1>5, <1>6 DEF Verifies

LEMMA WorkerTurns ==
  ASSUME TypeOK, NEW w \in Workers, Ready(w), WorkerStep(w)
  PROVE  Turns(w)
BY StartsTurn, WaitsTurn, ReadsTurn, BeginsTurn, FinishTurn, VerifiesTurn
   DEF WorkerStep, Performs

-----------------------------------------------------------------------------
(* The invariant.                                                          *)

AskedOf(w, s) == Asks(inbox[w], local[w], s)

Idle(w) == \A s \in Nat : ~AskedOf(w, s)

\* The engine waits for a reading of the display.
AwaitsReading(d) == d \in pending_learn \cup poll_gets

\* Every number in use was handed out.
NumberInv ==
  /\ \A w \in Workers : Ready(w)
  /\ \A m \in Unread : m.seq <= seq[m.id]

\* On panels of the default range a percentage is a raw value.
ScaleInv ==
  /\ \A d \in Displays : brightness_max[d] = 100
  /\ \A m \in Unread : m.outcome = "Get" /\ m.ok => m.max = 100

\* Only a display with a worker waits for a reading.
AwaitInv ==
  phase # "stopped" => \A d \in Displays : AwaitsReading(d) => HasWorker(d)

\* Of the display of the registered worker w: what it was asked comes after
\* what it took already, after whatever a retired worker still holds, and
\* after every write the ack channel says is over; and it is watched.
Ordered(w) ==
  /\ \A s, t \in Nat : Keeps(local[w], t) /\ SetsIn(inbox[w], s) => t < s
  /\ \A v \in Workers : v # w /\ v[1] = w[1] =>
       \A s, t \in Nat : AskedOf(v, t) /\ AskedOf(w, s) => t < s
  /\ \A s \in Nat : AskedOf(w, s) => s \in 1 .. inflight[w[1]]["Brightness"]
  /\ \A m \in Unread : m.id = w[1] /\ m.key = "Brightness" =>
       \A s \in Nat : AskedOf(w, s) => m.seq < s

\* While a reading is awaited nothing is asked.
Undisputed(w) == AwaitsReading(w[1]) => Idle(w)

\* A level is known, or being learned.
Learned(w) == w[1] \notin pending_learn => records[w[1]].level # NoLevel

\* The panel is where the recorded level puts it, or heading there.
OnCourse(w) ==
  LET level == records[w[1]].level IN
  /\ w[1] \notin disturbed /\ level # NoLevel
  /\ Receiving(w) \/ w[1] \in poll_gets
  => Follows(inbox[w], local[w], panel[w[1]], level)

\* The reading the engine will use is where the panel is.
ReadsTrue(w) ==
  w[1] \notin disturbed /\ AwaitsReading(w[1]) =>
    \A m \in Unread :
      m.outcome = "Get" /\ m.ok /\ m.id = w[1] /\ Fresh(w[1], "Get", m.seq)
        => m.current = panel[w[1]]

Steady(w) == Ordered(w) /\ Undisputed(w) /\ Learned(w) /\ OnCourse(w) /\ ReadsTrue(w)

IsRegistered(w) == workers[w[1]] = w[2]

SteadyInv == \A w \in Workers : IsRegistered(w) => Steady(w)

-----------------------------------------------------------------------------
(* A step of a worker keeps it.                                            *)

LEMMA ToRaw ==
  ASSUME NEW pct \in 0 .. 100
  PROVE  pct_to_raw(pct, 100) = pct /\ raw_to_pct(pct, 100) = pct
BY SMT DEF pct_to_raw, raw_to_pct

\* A worker that was asked nothing has nothing.
LEMMA IdleHasNothing ==
  ASSUME TypeOK, NEW w \in Workers, Idle(w)
  PROVE  NoSets(inbox[w]) /\ Slot(local[w]) = NoPending /\ ~IsWriting(local[w])
<1>1. local[w] \in Locals /\ inbox[w] \in Seq(WorkerCommand)
  BY ReadyTyped
<1>2. /\ Slot(local[w]).seq \in Nat /\ local[w].write.seq \in Nat
      /\ \A i \in DOMAIN inbox[w] : inbox[w][i].seq \in Nat
  <2>1. \A i \in DOMAIN inbox[w] : inbox[w][i] \in WorkerCommand
    BY <1>1
  <2> QED
    BY <1>1, <2>1, LatestTyped DEF WorkerCommand
<1> QED
  BY <1>2 DEF Idle, AskedOf, Asks, SetsIn, NoSets, Keeps

\* A step asks nothing of the worker that was not asked already.
LEMMA TurnShrinks ==
  ASSUME TypeOK, NEW w \in Workers, Turns(w)
  PROVE  /\ \A s \in Nat : Asks(inbox'[w], local'[w], s) => AskedOf(w, s)
         /\ \A s, t \in Nat : Keeps(local'[w], t) /\ SetsIn(inbox'[w], s) =>
              Keeps(local[w], t) /\ SetsIn(inbox[w], s)
<1> DEFINE q == inbox[w]
           l == local[w]
           k == local'[w]
<1>1. q \in Seq(WorkerCommand) /\ l \in Locals
  BY ReadyTyped
<1>2. \A s : ~SetsIn(<<>>, s)
  BY DEF SetsIn
<1>3. CASE Leaves(w)
  <2>1. \A s : ~Keeps(k, s)
    BY <1>3, NewLocalsIdle DEF Leaves
  <2> QED
    BY <1>2, <1>3, <2>1 DEF Leaves, Asks, AskedOf
<1>4. CASE Drains(w)
  <2>1. ASSUME NEW s \in Nat, Keeps(k, s) PROVE Asks(q, l, s)
    <3>1. Slot(k) # NoPending /\ Slot(k).seq = s /\ Slot(k) = Newest("Brightness", q, Slot(l))
      BY <1>4, <2>1 DEF Drains, Keeps
    <3> HIDE DEF q, l, k
    <3>2. CASE Slot(k) = Slot(l)
      BY <3>1, <3>2 DEF Asks, Keeps
    <3>3. CASE Slot(k) # Slot(l)
      <4>1. PICK i \in DOMAIN q : /\ q[i].op = "Brightness"
                                  /\ Slot(k) = [raw |-> q[i].raw, seq |-> q[i].seq]
        BY <1>1, <3>1, <3>3, NewestCases DEF Feature
      <4> QED
        BY <3>1, <4>1 DEF Asks, SetsIn
    <3> QED
      BY <3>2, <3>3
  <2> QED
    BY <1>2, <1>4, <2>1 DEF Drains, Asks, AskedOf
<1>5. CASE GoesOn(w) \/ Writes(w)
  <2>1. ASSUME NEW s \in Nat, Keeps(k, s) PROVE Keeps(l, s)
    BY <1>5, <2>1 DEF GoesOn, Writes, Rests, Takes, Keeps
  <2> QED
    BY <1>5, <2>1 DEF GoesOn, Writes, Asks, AskedOf
<1> QED
  BY <1>3, <1>4, <1>5 DEF Turns

\* However the writes coalesce, a panel that was heading for a level still is.
LEMMA TurnFollows ==
  ASSUME TypeOK, NEW w \in Workers, Turns(w), Ready(w), ~AskedOf(w, 0),
         PanelMax[w[1]] = 100, w[1] \notin disturbed',
         thread'[w] = "running" \/ Idle(w),
         NEW pct \in 0 .. 100, Follows(inbox[w], local[w], panel[w[1]], pct)
  PROVE  Follows(inbox'[w], local'[w], panel'[w[1]], pct)
<1> DEFINE q == inbox[w]
           l == local[w]
           k == local'[w]
           d == w[1]
<1>1. q \in Seq(WorkerCommand) /\ l \in Locals
  BY ReadyTyped
<1>2. NoSets(<<>>)
  BY DEF NoSets
<1>3. CASE Leaves(w)
  <2>1. /\ Idle(w) /\ inbox'[w] = <<>> /\ k = NewLocals /\ panel'[d] = panel[d]
    BY <1>3 DEF Leaves, Still
  <2>2. NoSets(q) /\ Slot(l) = NoPending /\ ~IsWriting(l)
    BY <2>1, IdleHasNothing
  <2>3. raw_to_pct(panel[d], 100) = pct
    BY <2>2 DEF Follows, LastSet, NoSets, Heads
  <2>4. Slot(k) = NoPending /\ ~IsWriting(k)
    BY <2>1, NewLocalsIdle
  <2> QED
    BY <1>2, <2>1, <2>3, <2>4 DEF Follows, Heads
<1>4. CASE Drains(w)
  <2>1. /\ inbox'[w] = <<>> /\ ~IsWriting(l) /\ ~IsWriting(k) /\ panel'[d] = panel[d]
        /\ Slot(k) = Newest("Brightness", q, Slot(l))
    BY <1>4 DEF Drains
  <2>2. Heads(k, panel[d], pct)
    <3>1. CASE LastSet(q, pct)
      <4>1. PICK i \in DOMAIN q : /\ q[i].op = "Brightness" /\ q[i].raw = pct
                                  /\ \A j \in DOMAIN q : q[j].op = "Brightness" => j <= i
        BY <3>1 DEF LastSet
      <4>2. Slot(k) = [raw |-> pct, seq |-> q[i].seq]
        BY <1>1, <2>1, <4>1, NewestIsLast DEF Feature
      <4>3. q[i].seq # 0
        BY <4>1 DEF AskedOf, Asks, SetsIn
      <4>4. Slot(k) # NoPending /\ Slot(k).raw = pct
        BY <4>2, <4>3 DEF NoPending, NoSeq
      <4> QED
        BY <4>4 DEF Heads
    <3>2. CASE NoSets(q) /\ Heads(l, panel[d], pct)
      <4>1. {i \in DOMAIN q : q[i].op = "Brightness"} = {}
        BY <3>2 DEF NoSets
      <4>2. Slot(k) = Slot(l)
        BY <2>1, <4>1 DEF Newest
      <4> QED
        BY <2>1, <3>2, <4>2 DEF Heads
    <3> QED
      BY <3>1, <3>2 DEF Follows
  <2> QED
    BY <1>2, <2>1, <2>2 DEF Follows
<1>5. CASE GoesOn(w)
  <2>1. inbox'[w] = q /\ panel'[d] = panel[d] /\ ~IsWriting(l)
    BY <1>5 DEF GoesOn
  <2>2. Heads(l, panel[d], pct) => Heads(k, panel[d], pct)
    BY <1>5 DEF GoesOn, Rests, Takes, Heads
  <2> QED
    BY <2>1, <2>2 DEF Follows
<1>6. CASE Writes(w)
  <2>1. /\ inbox'[w] = q /\ IsWriting(l) /\ ~IsWriting(k) /\ Slot(k) = NoPending
        /\ Slot(l) = NoPending /\ panel'[d] = Clamped(d, l.write.raw)
    BY <1>6 DEF Writes, Rests, Ready, Tidy
  <2>2. l.write.raw = pct => raw_to_pct(panel'[d], 100) = pct
    BY <2>1, ToRaw DEF Clamped
  <2>3. Heads(l, panel[d], pct) => Heads(k, panel'[d], pct)
    BY <2>1, <2>2 DEF Heads
  <2> QED
    BY <2>1, <2>3 DEF Follows
<1> QED
  BY <1>3, <1>4, <1>5, <1>6 DEF Turns

\* What a step of worker v does to the channel and the locals of worker w.
LEMMA AsksFewer ==
  ASSUME TypeOK, NEW v \in Workers, Ready(v), WorkerStep(v), NEW w \in Workers
  PROVE  /\ \A s \in Nat : AskedOf(w, s)' => AskedOf(w, s)
         /\ \A s, t \in Nat : Keeps(local'[w], t) /\ SetsIn(inbox'[w], s) =>
              Keeps(local[w], t) /\ SetsIn(inbox[w], s)
<1>1. Turns(v) /\ Typed(v)
  BY WorkerTurns, WorkerStepType
<1>2. CASE w = v
  BY <1>1, <1>2, TurnShrinks DEF AskedOf
<1>3. CASE w # v
  <2>1. inbox'[w] = inbox[w] /\ local'[w] = local[w]
    BY <1>1, <1>3, WorkerWire
  <2> QED
    BY <2>1 DEF AskedOf
<1> QED
  BY <1>2, <1>3

LEMMA NumberWorker ==
  ASSUME TypeOK, NumberInv, NEW v \in Workers, WorkerStep(v), UNCHANGED engineVars
  PROVE  NumberInv'
<1>1. Turns(v) /\ Typed(v) /\ Speaks(v) /\ UNCHANGED seq
  BY WorkerTurns, WorkerStepType, WorkerStepKeeps DEF NumberInv, engineVars
<1>2. ASSUME NEW w \in Workers PROVE Ready(w)'
  <2>1. CASE w = v
    <3>1. inbox'[w] = inbox[w] \/ inbox'[w] = <<>>
      BY <1>1, WorkerWire
    <3> QED
      BY <1>1, <2>1, <3>1 DEF Turns, NumberInv, Ready, Numbered
  <2>2. CASE w # v
    <3>1. inbox'[w] = inbox[w] /\ local'[w] = local[w]
      BY <1>1, <2>2, WorkerWire
    <3> QED
      BY <1>1, <3>1 DEF NumberInv, Ready, Numbered
  <2> QED
    BY <2>1, <2>2
<1>3. ASSUME NEW m \in Unread' PROVE m.seq <= seq'[m.id]
  BY <1>1, <1>3 DEF Turns, Says, Speaks, NumberInv
<1> QED
  BY <1>2, <1>3 DEF NumberInv

LEMMA ScaleWorker ==
  ASSUME TypeOK, DefaultRange, NumberInv, ScaleInv, NEW v \in Workers, WorkerStep(v),
         UNCHANGED engineVars
  PROVE  ScaleInv'
<1>1. Turns(v) /\ UNCHANGED brightness_max /\ v[1] \in Displays
  BY WorkerTurns, ReadyTyped DEF NumberInv, engineVars, scaleVars
<1> QED
  BY <1>1 DEF ScaleInv, Turns, Says, DefaultRange

\* Only the registered worker moves its panel without disturbing it.
LEMMA BystanderKeeps ==
  ASSUME Base, NEW v \in Workers, WorkerStep(v), NEW w \in Workers, IsRegistered(w),
         v # w, w[1] \notin disturbed'
  PROVE  panel'[w[1]] = panel[w[1]]
<1>1. TypeOK /\ ThreadInv /\ Typed(v) /\ w[1] \in Displays
  BY WorkerStepType, ReadyTyped DEF Base
<1>2. v[1] = w[1] => retired[v]
  <2> SUFFICES ASSUME v[1] = w[1], ~retired[v]
               PROVE  FALSE
    BY <1>1, ReadyTyped
  <2>1. v[2] = w[2]
    BY <1>1 DEF ThreadInv, OneWriter, Typed, IsRegistered
  <2>2. v = <<v[1], v[2]>> /\ w = <<w[1], w[2]>>
    BY DEF Workers
  <2> QED
    BY <2>1, <2>2
<1> QED
  BY <1>1, <1>2, PanelMoves

LEMMA SteadyWorker ==
  ASSUME Base, DefaultRange, NumberInv, NEW v \in Workers, WorkerStep(v), UNCHANGED engineVars,
         NEW w \in Workers, IsRegistered(w), Steady(w)
  PROVE  Steady(w)'
<1> DEFINE d == w[1]
<1>1. /\ TypeOK /\ Turns(v) /\ Typed(v) /\ Speaks(v) /\ Ready(v) /\ Ready(w)
      /\ d \in Displays /\ PanelMax[d] = 100 /\ disturbed \subseteq disturbed'
  BY WorkerTurns, WorkerStepType, WorkerStepKeeps, ReadyTyped, PanelMoves
     DEF Base, NumberInv, DefaultRange
<1>2. UNCHANGED <<pending_learn, poll_gets, records, inflight>>
  BY DEF engineVars, opVars
<1>3. \A u \in Workers : \A s \in Nat : AskedOf(u, s)' => AskedOf(u, s)
  BY <1>1, AsksFewer
<1>4. Ordered(w)'
  <2>1. \A s, t \in Nat : Keeps(local'[w], t) /\ SetsIn(inbox'[w], s) => t < s
    BY <1>1, AsksFewer DEF Steady, Ordered
  <2>2. ASSUME NEW u \in Workers, u # w, u[1] = w[1], NEW s \in Nat, NEW t \in Nat,
               AskedOf(u, t)', AskedOf(w, s)'
        PROVE  t < s
    BY <1>3, <2>2 DEF Steady, Ordered
  <2>3. \A s \in Nat : AskedOf(w, s)' => s \in 1 .. inflight'[d]["Brightness"]
    BY <1>2, <1>3 DEF Steady, Ordered
  <2>4. ASSUME NEW m \in Unread', m.id = d, m.key = "Brightness", NEW s \in Nat, AskedOf(w, s)'
        PROVE  m.seq < s
    <3>1. CASE m \in Unread
      BY <1>3, <2>4, <3>1 DEF Steady, Ordered
    <3>2. CASE m \notin Unread
      <4>1. /\ v[1] = d /\ IsWriting(local[v]) /\ m.seq = local[v].write.seq
            /\ ~IsWriting(local'[v]) /\ Slot(local'[v]) = NoPending
        BY <1>1, <2>4, <3>2 DEF Speaks, Turns, Says
      <4>2. Keeps(local[v], m.seq) /\ AskedOf(v, m.seq) /\ m.seq \in Nat
        BY <1>1, <4>1, ReadyTyped, LatestTyped DEF Keeps, AskedOf, Asks
      <4>3. CASE v # w
        BY <1>3, <2>4, <4>1, <4>2, <4>3 DEF Steady, Ordered
      <4>4. CASE v = w
        <5>1. SetsIn(inbox'[w], s)
          BY <2>4, <4>1, <4>4 DEF AskedOf, Asks, Keeps
        <5>2. inbox'[w] = inbox[w] \/ inbox'[w] = <<>>
          BY <1>1, WorkerWire
        <5>3. SetsIn(inbox[w], s)
          BY <5>1, <5>2 DEF SetsIn
        <5> QED
          BY <4>2, <4>4, <5>3 DEF Steady, Ordered
      <4> QED
        BY <4>3, <4>4
    <3> QED
      BY <3>1, <3>2
  <2> QED
    BY <2>1, <2>2, <2>3, <2>4 DEF Ordered
<1>5. Undisputed(w)'
  BY <1>2, <1>3 DEF Steady, Undisputed, AwaitsReading, Idle
<1>6. Learned(w)'
  BY <1>2 DEF Steady, Learned
<1>7. ASSUME d \notin disturbed', Idle(w) \/ v # w
      PROVE  panel'[d] = panel[d]
  <2>1. CASE v # w
    BY <1>7, <2>1, BystanderKeeps
  <2>2. CASE v = w /\ Idle(w)
    BY <1>1, <1>7, <2>2, IdleHasNothing DEF Turns, Leaves, Still, Drains, GoesOn, Writes
  <2> QED
    BY <1>7, <2>1, <2>2
<1>8. OnCourse(w)'
  <2> SUFFICES ASSUME d \notin disturbed', records[d].level # NoLevel,
                      Receiving(w)' \/ d \in poll_gets
               PROVE  Follows(inbox'[w], local'[w], panel'[d], records[d].level)
    BY <1>2 DEF OnCourse
  <2>1. Receiving(w)' => Receiving(w)
    BY <1>1, WorkerWire DEF Receiving, Typed
  <2>2. Follows(inbox[w], local[w], panel[d], records[d].level)
    BY <1>1, <2>1 DEF Steady, OnCourse
  <2>3. CASE v = w
    <3>1. records[d].level \in 0 .. 100
      BY <1>1 DEF TypeOK, EngineTypeOK, DisplayRecord, NoLevel
    <3>2. ~AskedOf(w, 0)
      BY DEF Steady, Ordered
    <3>3. thread'[w] = "running" \/ Idle(w)
      BY DEF Receiving, Steady, Undisputed, AwaitsReading
    <3> QED
      BY <1>1, <2>2, <2>3, <3>1, <3>2, <3>3, TurnFollows
  <2>4. CASE v # w
    <3>1. inbox'[w] = inbox[w] /\ local'[w] = local[w]
      BY <1>1, <2>4, WorkerWire
    <3> QED
      BY <1>7, <2>2, <2>4, <3>1
  <2> QED
    BY <2>3, <2>4
<1>9. ReadsTrue(w)'
  <2> SUFFICES ASSUME d \notin disturbed', AwaitsReading(d)', NEW m \in Unread',
                      m.outcome = "Get", m.ok, m.id = d, Fresh(d, "Get", m.seq)'
               PROVE  m.current = panel'[d]
    BY DEF ReadsTrue
  <2>1. AwaitsReading(d) /\ Fresh(d, "Get", m.seq) /\ d \notin disturbed
    BY <1>1, <1>2 DEF AwaitsReading, Fresh
  <2>2. panel'[d] = panel[d]
    BY <1>7, <2>1 DEF Steady, Undisputed
  <2>3. CASE m \in Unread
    BY <2>1, <2>2, <2>3 DEF Steady, ReadsTrue
  <2>4. CASE m \notin Unread
    BY <1>1, <2>2, <2>4 DEF Speaks, Turns, Says
  <2> QED
    BY <2>3, <2>4
<1> QED
  BY <1>4, <1>5, <1>6, <1>8, <1>9 DEF Steady

-----------------------------------------------------------------------------
(* A step of the engine keeps it: the numbers and the scale.               *)

LEMMA AppendedCases ==
  ASSUME NEW q \in Seq(WorkerCommand), NEW c, NEW r, r = <<c>> \/ r = Append(q, c)
  PROVE  \A i \in DOMAIN r : r[i] = c \/ (i \in DOMAIN q /\ r[i] = q[i])
<1>1. CASE r = <<c>>
  BY <1>1
<1>2. CASE r = Append(q, c)
  <2>1. /\ DOMAIN q = 1 .. Len(q) /\ Len(q) \in Nat /\ DOMAIN r = 1 .. Len(q) + 1
        /\ r[Len(q) + 1] = c /\ \A i \in 1 .. Len(q) : r[i] = q[i]
    BY <1>2
  <2>2. ASSUME NEW i \in DOMAIN r PROVE i = Len(q) + 1 \/ i \in DOMAIN q
    BY <2>1
  <2> QED
    BY <2>1, <2>2
<1> QED
  BY <1>1, <1>2

\* A command the engine sends has the newest number of its display, or none.
LEMMA EngineNumbers ==
  ASSUME TypeOK, EngineNext, NEW w \in Workers
  PROVE  /\ seq[w[1]] \in Nat /\ seq'[w[1]] \in Nat /\ seq[w[1]] <= seq'[w[1]]
         /\ \/ inbox'[w] = inbox[w]
            \/ \E c : /\ inbox'[w] = <<c>> \/ inbox'[w] = Append(inbox[w], c)
                      /\ c.seq <= seq'[w[1]]
<1> DEFINE d     == w[1]
           Sends == \/ inbox'[w] = inbox[w]
                    \/ \E c : /\ inbox'[w] = <<c>> \/ inbox'[w] = Append(inbox[w], c)
                              /\ c.seq <= seq'[d]
           Goal  == seq'[d] \in Nat /\ seq[d] <= seq'[d] /\ Sends
<1>1. /\ EngineTypeOK /\ inbox \in [Workers -> Seq(WorkerCommand)] /\ d \in Displays
      /\ seq \in [Displays -> Nat] /\ seq[d] \in Nat
  BY DEF TypeOK, EngineTypeOK, ProtocolTypeOK, Workers
<1> SUFFICES Goal
  BY <1>1
<1>2. CASE Enumerates
  <2>1. PICK seen : refresh(seen)
    BY <1>2 DEF Enumerates, Startup, DebounceFires, RefreshNow
  <2>2. seq'[d] = IF d \in Respawned(seen) THEN seq[d] + 1 ELSE seq[d]
    BY <1>1, <2>1 DEF refresh
  <2>3. FirstCommand(d).seq = seq[d] + 1
    BY DEF FirstCommand, GetCommand, SetCommand
  <2>4. CASE d \in Respawned(seen)
    <3>1. inbox'[w] = inbox[w] \/ inbox'[w] = <<FirstCommand(d)>>
      BY <2>1 DEF refresh
    <3> QED
      BY <1>1, <2>2, <2>3, <2>4, <3>1
  <2>5. CASE d \notin Respawned(seen)
    <3>1. inbox'[w] = inbox[w]
      BY <2>1, <2>5 DEF refresh
    <3> QED
      BY <1>1, <2>2, <2>5, <3>1
  <2> QED
    BY <2>4, <2>5
<1>3. ASSUME UNCHANGED <<seq, inbox>> PROVE Goal
  BY <1>1, <1>3
<1>4. ASSUME NEW e \in Displays, NEW key, NEW raw, Dispatch(e, key, raw)
      PROVE  Goal
  <2> DEFINE c == SetCommand(key, raw, seq[e] + 1)
  <2>1. /\ seq' = [seq EXCEPT ![e] = seq[e] + 1]
        /\ \/ inbox' = inbox
           \/ inbox' = [inbox EXCEPT ![Registered(e)] = Append(@, c)]
    BY <1>4 DEF Dispatch
  <2>2. c.seq = seq[e] + 1
    BY DEF SetCommand
  <2> HIDE DEF c
  <2>3. seq'[d] = IF d = e THEN seq[d] + 1 ELSE seq[d]
    BY <1>1, <2>1
  <2>4. CASE Registered(e) = w
    <3>1. d = e
      BY <2>4 DEF Registered
    <3>2. inbox'[w] = inbox[w] \/ inbox'[w] = Append(inbox[w], c)
      BY <1>1, <2>1, <2>4
    <3>3. seq'[d] = seq[d] + 1 /\ c.seq = seq[d] + 1
      BY <2>2, <2>3, <3>1
    <3>4. seq'[d] \in Nat /\ seq[d] <= seq'[d] /\ c.seq <= seq'[d]
      BY <1>1, <3>3
    <3>5. Sends
      BY <3>2, <3>4
    <3> QED
      BY <3>4, <3>5
  <2>5. CASE Registered(e) # w
    <3>1. inbox'[w] = inbox[w]
      BY <1>1, <2>1, <2>5
    <3> QED
      BY <1>1, <2>3, <3>1
  <2> QED
    BY <2>4, <2>5
<1>5. ASSUME NEW e \in Displays, NEW pct \in Levels, SetUserLevel(e, pct)
      PROVE  Goal
  <2>1. CASE IsResponsive(records[e])
    BY <1>4, <1>5, <2>1 DEF SetUserLevel, dispatch_set
  <2>2. CASE ~IsResponsive(records[e])
    BY <1>3, <1>5, <2>2 DEF SetUserLevel, dispatch_set
  <2> QED
    BY <2>1, <2>2
<1>6. ASSUME NEW e \in Displays, NEW value \in Inputs, SetInput(e, value)
      PROVE  Goal
  BY <1>4, <1>6 DEF SetInput
<1>7. CASE PollLevels
  <2> DEFINE polled == {e \in Displays : Pollable(e)}
             c      == GetCommand(seq[d] + 1)
  <2>1. seq'[d] = IF d \in polled THEN seq[d] + 1 ELSE seq[d]
    BY <1>1, <1>7 DEF PollLevels
  <2>2. inbox'[w] = inbox[w] \/ (d \in polled /\ inbox'[w] = Append(inbox[w], c))
    BY <1>7 DEF PollLevels
  <2>3. c.seq = seq[d] + 1
    BY DEF GetCommand
  <2> HIDE DEF c, polled
  <2> QED
    BY <1>1, <2>1, <2>2, <2>3
<1>8. CASE ShutDown
  <2>1. inbox'[w] = inbox[w] \/ inbox'[w] = Append(inbox[w], ShutdownCommand)
    BY <1>8 DEF ShutDown
  <2>2. ShutdownCommand.seq = 0 /\ seq' = seq
    BY <1>8 DEF ShutdownCommand, NoSeq, ShutDown
  <2> QED
    BY <1>1, <2>1, <2>2
<1>9. CASE PlatformEvent \/ HandleAck \/ (\E aged \in SUBSET Displays : WatchdogFires(aged))
           \/ (\E on \in BOOLEAN : SetLevelPolling(on))
  <2>1. UNCHANGED <<seq, inbox>>
    BY <1>9 DEF PlatformEvent, WatchdogFires, SetLevelPolling, channels,
       HandleAck, AckSet, AckGetUnusable, AckGetLearned, AckPollHeals, AckPollReflects,
       AckGetNoted, AckPanicked, AckOpenFailed, AckSoftwareFallback, TakeReading
  <2> QED
    BY <1>3, <2>1
<1> QED
  BY <1>2, <1>5, <1>6, <1>7, <1>8, <1>9 DEF EngineNext, AppCommand, Timer

LEMMA NumberEngine ==
  ASSUME TypeOK, NumberInv, EngineNext, UNCHANGED workerVars
  PROVE  NumberInv'
<1>1. /\ inbox \in [Workers -> Seq(WorkerCommand)] /\ local \in [Workers -> Locals]
      /\ local' = local
  BY DEF TypeOK, EngineTypeOK, ProtocolTypeOK, WorkerTypeOK, workerVars
<1>2. ASSUME NEW w \in Workers PROVE Ready(w)'
  <2> DEFINE d == w[1]
  <2>1. /\ seq[d] \in Nat /\ seq'[d] \in Nat /\ seq[d] <= seq'[d]
        /\ \/ inbox'[w] = inbox[w]
           \/ \E c : /\ inbox'[w] = <<c>> \/ inbox'[w] = Append(inbox[w], c)
                     /\ c.seq <= seq'[d]
    BY EngineNumbers
  <2>2. Tidy(local[w]) /\ Few(local[w], seq[d]) /\ \A i \in DOMAIN inbox[w] : inbox[w][i].seq <= seq[d]
    BY DEF NumberInv, Ready, Numbered
  <2>3. Few(local[w], seq'[d])
    <3>1. /\ \A f \in Feature : local[w].latest[f].seq \in Nat
          /\ local[w].write.seq \in Nat /\ local[w].gets \subseteq Nat
      BY <1>1, LocalsFields, PendingType
    <3> HIDE DEF d
    <3> QED
      BY <2>1, <2>2, <3>1 DEF Few
  <2>4. inbox[w] \in Seq(WorkerCommand) /\ \A i \in DOMAIN inbox[w] : inbox[w][i].seq \in Nat
    <3>1. \A i \in DOMAIN inbox[w] : inbox[w][i] \in WorkerCommand
      BY <1>1
    <3> QED
      BY <1>1, <3>1 DEF WorkerCommand
  <2>5. \A i \in DOMAIN inbox'[w] : inbox'[w][i].seq <= seq'[d]
    <3> HIDE DEF d
    <3>1. \A i \in DOMAIN inbox[w] : inbox[w][i].seq <= seq'[d]
      BY <2>1, <2>2, <2>4
    <3>2. CASE inbox'[w] = inbox[w]
      BY <3>1, <3>2
    <3>3. CASE inbox'[w] # inbox[w]
      <4>1. PICK c : /\ inbox'[w] = <<c>> \/ inbox'[w] = Append(inbox[w], c)
                     /\ c.seq <= seq'[d]
        BY <2>1, <3>3
      <4>2. \A i \in DOMAIN inbox'[w] :
              inbox'[w][i] = c \/ (i \in DOMAIN inbox[w] /\ inbox'[w][i] = inbox[w][i])
        BY <2>4, <4>1, AppendedCases
      <4> QED
        BY <3>1, <4>1, <4>2
    <3> QED
      BY <3>2, <3>3
  <2> QED
    BY <1>1, <2>2, <2>3, <2>5 DEF Ready, Numbered
<1>3. ASSUME NEW m \in Unread' PROVE m.seq <= seq'[m.id]
  <2>1. m \in Unread /\ m \in WorkerAck
    BY <1>3, EngineReads, UnreadTyped
  <2>2. m.id \in Displays /\ m.seq \in Nat /\ m.seq <= seq[m.id]
    BY <2>1 DEF WorkerAck, NumberInv
  <2>3. PICK w \in Workers : w[1] = m.id
    <3>1. <<m.id, 1>> \in Workers
      BY <2>2, MaxGenAssumption DEF Workers
    <3> QED
      BY <3>1
  <2> QED
    BY <2>2, <2>3, EngineNumbers
<1> QED
  BY <1>2, <1>3 DEF NumberInv

LEMMA ScaleEngine ==
  ASSUME TypeOK, ScaleInv, EngineNext
  PROVE  ScaleInv'
<1>1. \A m \in Unread' : m.outcome = "Get" /\ m.ok => m.max = 100
  BY EngineReads DEF ScaleInv
<1>2. ASSUME NEW d \in Displays PROVE brightness_max'[d] = 100
  <2>1. brightness_max \in [Displays -> Nat] /\ acks \in Seq(WorkerAck)
    BY DEF TypeOK, EngineTypeOK, ProtocolTypeOK
  <2>2. brightness_max' = brightness_max \/ TakeReading
    BY DEF EngineNext, Enumerates, Startup, DebounceFires, RefreshNow, refresh, PlatformEvent,
       AppCommand, SetUserLevel, SetInput, SetLevelPolling, ShutDown, Timer, PollLevels,
       WatchdogFires, HandleAck, AckSet, AckGetUnusable, AckGetLearned, AckPollHeals,
       AckPollReflects, AckGetNoted, AckPanicked, AckOpenFailed, AckSoftwareFallback, scaleVars
  <2>3. CASE TakeReading
    <3>1. /\ acks # <<>> /\ acks' = Tail(acks) /\ ack.outcome = "Get" /\ ack.ok
          /\ brightness_max' = [brightness_max EXCEPT ![ack.id] = ack.max]
      BY <2>3 DEF TakeReading, Receive
    <3>2. ack \in Unread
      BY <2>1, <3>1, UnreadReceived
    <3>3. ack.max = 100
      BY <3>1, <3>2 DEF ScaleInv
    <3> QED
      BY <2>1, <3>1, <3>3 DEF ScaleInv
  <2> QED
    BY <2>2, <2>3 DEF ScaleInv
<1> QED
  BY <1>1, <1>2 DEF ScaleInv

LEMMA AwaitKept ==
  ASSUME AwaitInv, phase # "stopped", UNCHANGED workers,
         \A d \in Displays : AwaitsReading(d)' => AwaitsReading(d) \/ HasWorker(d)
  PROVE  AwaitInv'
BY DEF AwaitInv, HasWorker

LEMMA AwaitSurfaced ==
  ASSUME AwaitInv, phase # "stopped", NEW ids, surface_unresponsive(ids)
  PROVE  AwaitInv'
BY DEF AwaitInv, AwaitsReading, surface_unresponsive, HasWorker

LEMMA AwaitRefreshed ==
  ASSUME Base, AwaitInv, phase # "stopped", NEW seen \in SUBSET Displays, refresh(seen)
  PROVE  AwaitInv'
<1> SUFFICES ASSUME NEW d \in Displays, AwaitsReading(d)'
             PROVE  HasWorker(d)'
  BY DEF AwaitInv
<1> DEFINE dropped == Gone(seen) \cup Replugged(seen) \cup Recovered(seen)
<1>1. CASE d \in Respawned(seen)
  <2>1. workers'[d] = next_gen[d] + 1 /\ next_gen[d] \in 0 .. MaxGen
    BY <1>1 DEF refresh, Base, TypeOK, EngineTypeOK
  <2> QED
    BY <2>1, MaxGenAssumption DEF HasWorker, NoWorker
<1>2. CASE d \notin Respawned(seen)
  <2>1. d \notin dropped /\ AwaitsReading(d)
    BY <1>2 DEF refresh, AwaitsReading
  <2>2. workers'[d] = workers[d]
    BY <1>2, <2>1 DEF refresh
  <2> QED
    BY <2>1, <2>2 DEF AwaitInv, HasWorker
<1> QED
  BY <1>1, <1>2

\* What every action of the engine but the stop and the first one needs.
LEMMA EngineRuns ==
  ASSUME EngineNext
  PROVE  phase # "stopped"
BY DEF EngineNext, Enumerates, Startup, DebounceFires, RefreshNow, PlatformEvent,
   AppCommand, SetUserLevel, SetInput, SetLevelPolling, ShutDown, Timer, PollLevels,
   WatchdogFires, HandleAck, AckSet, AckGetUnusable, AckGetLearned, AckPollHeals,
   AckPollReflects, AckGetNoted, AckPanicked, AckOpenFailed, AckSoftwareFallback,
   TakeReading, Receive

LEMMA AwaitEngine ==
  ASSUME Base, AwaitInv, EngineNext
  PROVE  AwaitInv'
<1>1. phase # "stopped"
  BY EngineRuns
<1>2. CASE Enumerates
  BY <1>1, <1>2, AwaitRefreshed DEF Enumerates, Startup, DebounceFires, RefreshNow
<1>3. CASE ShutDown
  BY <1>3 DEF ShutDown, AwaitInv
<1>4. CASE PlatformEvent \/ (HandleAck /\ ~(AckPanicked \/ AckOpenFailed))
           \/ (\E on \in BOOLEAN : SetLevelPolling(on))
  <2>1. UNCHANGED workers /\ pending_learn' \subseteq pending_learn /\ poll_gets' \subseteq poll_gets
    BY <1>4 DEF PlatformEvent, SetLevelPolling, healthVars, opVars,
       HandleAck, AckSet, AckGetUnusable, AckGetLearned, AckPollHeals, AckPollReflects,
       AckGetNoted, AckSoftwareFallback, TakeReading
  <2> QED
    BY <1>1, <2>1, AwaitKept DEF AwaitsReading
<1>5. CASE AckPanicked \/ AckOpenFailed
  BY <1>1, <1>5, AwaitSurfaced, AwaitKept
     DEF AckPanicked, AckOpenFailed, mark_stuck, AwaitsReading, opVars
<1>6. CASE \/ \E d \in Displays, pct \in Levels : SetUserLevel(d, pct)
           \/ \E d \in Displays, value \in Inputs : SetInput(d, value)
  <2>1. UNCHANGED workers /\ pending_learn' \subseteq pending_learn /\ poll_gets' \subseteq poll_gets
    BY <1>6 DEF SetUserLevel, SetInput, healthVars
  <2> QED
    BY <1>1, <2>1, AwaitKept DEF AwaitsReading
<1>7. CASE PollLevels
  <2>1. /\ UNCHANGED <<workers, pending_learn>>
        /\ poll_gets' = poll_gets \cup {d \in {d \in Displays : Pollable(d)} : Reachable(d)}
    BY <1>7 DEF PollLevels, healthVars
  <2>2. \A d \in Displays : d \in poll_gets' => d \in poll_gets \/ HasWorker(d)
    BY <2>1 DEF Reachable
  <2> QED
    BY <1>1, <2>1, <2>2, AwaitKept DEF AwaitsReading
<1>8. CASE \E aged \in SUBSET Displays : WatchdogFires(aged)
  BY <1>1, <1>8, AwaitSurfaced DEF WatchdogFires, mark_stuck
<1> QED
  BY <1>2, <1>3, <1>4, <1>5, <1>6, <1>7, <1>8 DEF EngineNext, AppCommand, Timer

-----------------------------------------------------------------------------
(* A step of the engine keeps it: what is asked, and where it leads.       *)

\* No number that was asked is newer than the newest handed out.
LEMMA AskedFew ==
  ASSUME TypeOK, NEW w \in Workers, Numbered(w), NEW s \in Nat, AskedOf(w, s)
  PROVE  s <= seq[w[1]]
BY DEF AskedOf, Asks, SetsIn, Keeps, Slot, Numbered, Few, Feature

\* A command that is not a write of the brightness asks for none.
LEMMA AsksAlike ==
  ASSUME NEW q \in Seq(WorkerCommand), NEW c, c.op # "Brightness"
  PROVE  LET r == Append(q, c) IN
         /\ \A s : SetsIn(r, s) <=> SetsIn(q, s)
         /\ \A pct : LastSet(q, pct) => LastSet(r, pct)
         /\ NoSets(q) => NoSets(r)
<1> DEFINE n == Len(q)
           r == Append(q, c)
<1>1. /\ DOMAIN q = 1 .. n /\ n \in Nat /\ DOMAIN r = 1 .. n + 1
      /\ r[n + 1] = c /\ \A i \in 1 .. n : r[i] = q[i]
  OBVIOUS
<1> HIDE DEF r
<1>2. ASSUME NEW i \in DOMAIN r, r[i].op = "Brightness"
      PROVE  i \in DOMAIN q /\ r[i] = q[i]
  <2>1. i # n + 1
    BY <1>1, <1>2
  <2>2. i \in 1 .. n
    BY <1>1, <2>1
  <2> QED
    BY <1>1, <2>2
<1>3. ASSUME NEW i \in DOMAIN q PROVE i \in DOMAIN r /\ r[i] = q[i]
  BY <1>1
<1> HIDE DEF n
<1>4. \A s : SetsIn(r, s) <=> SetsIn(q, s)
  BY <1>2, <1>3 DEF SetsIn
<1>5. ASSUME NEW pct, LastSet(q, pct) PROVE LastSet(r, pct)
  <2>1. PICK i \in DOMAIN q : /\ q[i].op = "Brightness" /\ q[i].raw = pct
                              /\ \A j \in DOMAIN q : q[j].op = "Brightness" => j <= i
    BY <1>5 DEF LastSet
  <2> QED
    BY <1>2, <1>3, <2>1 DEF LastSet
<1>6. NoSets(q) => NoSets(r)
  BY <1>2 DEF NoSets
<1> QED
  BY <1>4, <1>5, <1>6 DEF r

\* One that is, is asked last.
LEMMA AsksLast ==
  ASSUME NEW q \in Seq(WorkerCommand), NEW r, NEW c, r = Append(q, c) \/ r = <<c>>,
         c.op = "Brightness"
  PROVE  /\ \A s : SetsIn(r, s) => SetsIn(q, s) \/ s = c.seq
         /\ LastSet(r, c.raw)
<1>1. \A s : SetsIn(r, s) => SetsIn(q, s) \/ s = c.seq
  <2>1. \A i \in DOMAIN r : r[i] = c \/ (i \in DOMAIN q /\ r[i] = q[i])
    BY AppendedCases
  <2> QED
    BY <2>1 DEF SetsIn
<1>2. CASE r = <<c>>
  <2>1. DOMAIN r = {1} /\ r[1] = c
    BY <1>2
  <2> QED
    BY <1>1, <2>1 DEF LastSet
<1>3. CASE r = Append(q, c)
  <2>1. /\ Len(q) \in Nat /\ DOMAIN r = 1 .. Len(q) + 1 /\ r[Len(q) + 1] = c
    BY <1>3
  <2>2. Len(q) + 1 \in DOMAIN r /\ \A j \in DOMAIN r : j <= Len(q) + 1
    BY <2>1
  <2> QED
    BY <1>1, <2>1, <2>2 DEF LastSet
<1> QED
  BY <1>2, <1>3

\* An answer to the newest write means that nothing is asked any more.
LEMMA AnsweredIdle ==
  ASSUME NEW w \in Workers, Ordered(w), NEW m \in Unread, m.id = w[1], m.key = "Brightness",
         m.seq = inflight[w[1]]["Brightness"], m.seq \in Nat
  PROVE  Idle(w)
<1> SUFFICES ASSUME NEW s \in Nat, AskedOf(w, s)
             PROVE  FALSE
  BY DEF Idle
<1>1. m.seq < s /\ s \in 1 .. m.seq
  BY DEF Ordered
<1> QED
  BY <1>1

LEMMA UnwatchedIdle ==
  ASSUME NEW w \in Workers, Ordered(w), inflight[w[1]]["Brightness"] = NoSeq
  PROVE  Idle(w)
BY DEF Ordered, Idle, NoSeq

\* What a step that asks w for no more has left of the order.
LEMMA OrderedKept ==
  ASSUME NEW w \in Workers, Ordered(w), UNCHANGED local, Unread' \subseteq Unread,
         \A v \in Workers : v[1] = w[1] => \A s : SetsIn(inbox'[v], s) => SetsIn(inbox[v], s),
         inflight'[w[1]]["Brightness"] = inflight[w[1]]["Brightness"] \/ Idle(w)
  PROVE  Ordered(w)'
<1>1. \A v \in Workers : v[1] = w[1] => \A s \in Nat : AskedOf(v, s)' => AskedOf(v, s)
  BY DEF AskedOf, Asks
<1>2. \A s, t \in Nat : Keeps(local'[w], t) /\ SetsIn(inbox'[w], s) => t < s
  BY DEF Ordered
<1>3. ASSUME NEW v \in Workers, v # w, v[1] = w[1], NEW s \in Nat, NEW t \in Nat,
             AskedOf(v, t)', AskedOf(w, s)'
      PROVE  t < s
  BY <1>1, <1>3 DEF Ordered
<1>4. \A s \in Nat : AskedOf(w, s)' => s \in 1 .. inflight'[w[1]]["Brightness"]
  BY <1>1 DEF Ordered, Idle
<1>5. ASSUME NEW m \in Unread', m.id = w[1], m.key = "Brightness", NEW s \in Nat, AskedOf(w, s)'
      PROVE  m.seq < s
  BY <1>1, <1>5 DEF Ordered
<1> QED
  BY <1>2, <1>3, <1>4, <1>5 DEF Ordered

\* The engine leaves the level and the writes of the display as they are: it
\* hears of a write, starts a read when nothing is asked, or does something else.
LEMMA SteadyKept ==
  ASSUME TypeOK, NumberInv, NEW w \in Workers, Steady(w), UNCHANGED workerVars,
         Unread' \subseteq Unread, thread'[w] = thread[w],
         \A v \in Workers : v # w /\ v[1] = w[1] => inbox'[v] = inbox[v],
         \/ inbox'[w] = inbox[w]
         \/ \E c : c.op # "Brightness" /\ inbox'[w] = Append(inbox[w], c),
         records'[w[1]].level = records[w[1]].level,
         w[1] \in pending_learn' <=> w[1] \in pending_learn,
         inflight'[w[1]]["Brightness"] = inflight[w[1]]["Brightness"] \/ Idle(w),
         \/ /\ w[1] \in poll_gets' => w[1] \in poll_gets
            /\ inflight'[w[1]]["Get"] \in {NoSeq, inflight[w[1]]["Get"]}
         \/ /\ Receiving(w) /\ Idle(w)
            /\ inflight'[w[1]]["Get"] = seq[w[1]] + 1
  PROVE  Steady(w)'
<1> DEFINE d == w[1]
           p == inbox[w]
           q == inbox'[w]
<1>1. /\ UNCHANGED <<local, panel, disturbed>> /\ p \in Seq(WorkerCommand)
      /\ d \in Displays /\ seq[d] \in Nat
  BY ReadyTyped DEF workerVars
<1>2. /\ \A s : SetsIn(q, s) <=> SetsIn(p, s)
      /\ \A pct : LastSet(p, pct) => LastSet(q, pct)
      /\ NoSets(p) => NoSets(q)
  <2> HIDE DEF p, q
  <2>1. CASE q = p
    BY <2>1
  <2>2. CASE q # p
    <3>1. PICK c : c.op # "Brightness" /\ q = Append(p, c)
      BY <2>2 DEF p, q
    <3> QED
      BY <1>1, <3>1, AsksAlike
  <2> QED
    BY <2>1, <2>2
<1>3. Ordered(w)'
  BY <1>1, <1>2, OrderedKept DEF Steady
<1>4. Idle(w) => Idle(w)'
  BY <1>1, <1>2 DEF Idle, AskedOf, Asks
<1>5. Undisputed(w)'
  BY <1>4 DEF Steady, Undisputed, AwaitsReading
<1>6. Learned(w)'
  BY DEF Steady, Learned
<1>7. OnCourse(w)'
  <2> SUFFICES ASSUME d \notin disturbed, records[d].level # NoLevel,
                      Receiving(w)' \/ d \in poll_gets'
               PROVE  Follows(q, local[w], panel[d], records[d].level)
    BY <1>1 DEF OnCourse
  <2>1. Follows(p, local[w], panel[d], records[d].level)
    BY DEF Steady, OnCourse, Receiving
  <2> HIDE DEF p, q, d
  <2> QED
    BY <1>2, <2>1 DEF Follows
<1>8. ReadsTrue(w)'
  <2> SUFFICES ASSUME d \notin disturbed, AwaitsReading(d)', NEW m \in Unread,
                      m.outcome = "Get", m.ok, m.id = d, Fresh(d, "Get", m.seq)'
               PROVE  m.current = panel[d]
    BY <1>1 DEF ReadsTrue
  <2>1. inflight'[d]["Get"] = m.seq /\ m.seq # NoSeq /\ m.seq <= seq[d]
    BY DEF Fresh, NumberInv
  <2>2. inflight'[d]["Get"] = inflight[d]["Get"] /\ (d \in poll_gets' => d \in poll_gets)
    BY <1>1, <2>1
  <2>3. AwaitsReading(d) /\ Fresh(d, "Get", m.seq)
    BY <2>1, <2>2 DEF AwaitsReading, Fresh
  <2> QED
    BY <2>3 DEF Steady, ReadsTrue
<1> QED
  BY <1>3, <1>5, <1>6, <1>7, <1>8 DEF Steady

\* The user's write is the newest, and nothing is read any more.
LEMMA SteadySet ==
  ASSUME Base, NumberInv, ScaleInv, NEW w \in Workers, IsRegistered(w), Steady(w),
         UNCHANGED workerVars, NEW pct \in Levels, SetUserLevel(w[1], pct)
  PROVE  Steady(w)'
<1> DEFINE d == w[1]
           c == SetCommand("Brightness", pct, seq[d] + 1)
<1>1. /\ TypeOK /\ Numbered(w) /\ inbox[w] \in Seq(WorkerCommand) /\ local[w] \in Locals
      /\ d \in Displays /\ seq[d] \in Nat /\ pct \in 0 .. 100 /\ w[2] \in 1 .. MaxGen
  BY ReadyTyped, EngineAssumption DEF Base, NumberInv, Ready, Workers
<1>2. /\ UNCHANGED <<local, panel, disturbed, thread, acks>> /\ Unread' = Unread
      /\ pending_learn' = pending_learn \ {d} /\ poll_gets' = poll_gets \ {d}
  BY UnreadSame DEF workerVars, SetUserLevel
<1>3. Healthy(d) /\ HasWorker(d)
  BY <1>1, MaxGenAssumption
     DEF SetUserLevel, Base, HealthInv, IsRegistered, HasWorker, NoWorker
<1>4. IsResponsive(records[d]) /\ Known(records[d])
  BY <1>3 DEF Healthy, CanMarkUnresponsive, Connected, IsResponsive, Known
<1>5. records'[d].level = pct
  <2>1. records \in [Displays -> DisplayRecord]
    BY <1>1 DEF TypeOK, EngineTypeOK
  <2>2. records'[d] = [records[d] EXCEPT !.level = pct]
    BY <1>1, <1>4, <2>1 DEF SetUserLevel, RecordUserLevel
  <2> QED
    BY <1>1, <2>1, <2>2 DEF DisplayRecord
<1>6. Registered(d) = w
  BY DEF Registered, IsRegistered, Workers
<1>7. Dispatch(d, "Brightness", pct)
  <2>1. pct_to_raw(pct, brightness_max[d]) = pct
    BY <1>1, ToRaw DEF ScaleInv
  <2>2. dispatch_set(d, pct)
    BY DEF SetUserLevel
  <2> QED
    BY <1>4, <2>1, <2>2 DEF dispatch_set
<1>8. Undisputed(w)' /\ Learned(w)' /\ ReadsTrue(w)'
  <2>1. d \notin pending_learn' /\ d \notin poll_gets'
    BY <1>2
  <2>2. records'[d].level # NoLevel
    BY <1>1, <1>5 DEF NoLevel
  <2> QED
    BY <2>1, <2>2 DEF Undisputed, Learned, ReadsTrue, AwaitsReading
<1>9. CASE ~Receiving(w)
  <2>1. UNCHANGED <<inbox, inflight>>
    BY <1>6, <1>7, <1>9 DEF Dispatch, Reachable
  <2>2. Ordered(w)'
    BY <1>2, <2>1, OrderedKept DEF Steady
  <2>3. OnCourse(w)'
    BY <1>2, <1>9 DEF OnCourse, Receiving
  <2> QED
    BY <1>8, <2>2, <2>3 DEF Steady
<1>10. CASE Receiving(w)
  <2>1. /\ inbox' = [inbox EXCEPT ![w] = Append(@, c)]
        /\ inflight' = [inflight EXCEPT ![d]["Brightness"] = seq[d] + 1]
    BY <1>3, <1>6, <1>7, <1>10 DEF Dispatch, Reachable
  <2>2. /\ inbox'[w] = Append(inbox[w], c) /\ \A v \in Workers : v # w => inbox'[v] = inbox[v]
        /\ inflight'[d]["Brightness"] = seq[d] + 1
    BY <1>1, <2>1 DEF TypeOK, EngineTypeOK, ProtocolTypeOK, InflightKey, Feature
  <2>3. c.op = "Brightness" /\ c.raw = pct /\ c.seq = seq[d] + 1
    BY DEF SetCommand
  <2> HIDE DEF c
  <2>4. /\ \A s : SetsIn(inbox'[w], s) => SetsIn(inbox[w], s) \/ s = seq[d] + 1
        /\ LastSet(inbox'[w], pct)
    BY <1>1, <2>2, <2>3, AsksLast
  <2>5. OnCourse(w)'
    BY <1>5, <2>4 DEF OnCourse, Follows
  <2>6. \A s \in Nat : AskedOf(w, s)' => AskedOf(w, s) \/ s = seq[d] + 1
    BY <1>2, <2>4 DEF AskedOf, Asks
  <2>7. ASSUME NEW v \in Workers, v[1] = d, NEW t \in Nat, AskedOf(v, t) PROVE t <= seq[d]
    BY <1>1, <2>7, AskedFew DEF NumberInv, Ready
  <2>8. Ordered(w)'
    <3>1. ASSUME NEW s \in Nat, NEW t \in Nat, Keeps(local'[w], t), SetsIn(inbox'[w], s)
          PROVE  t < s
      <4>1. AskedOf(w, t) /\ Keeps(local[w], t)
        BY <1>2, <3>1 DEF AskedOf, Asks
      <4>2. t <= seq[d]
        BY <2>7, <4>1
      <4> QED
        BY <1>1, <2>4, <3>1, <4>1, <4>2 DEF Steady, Ordered
    <3>2. ASSUME NEW v \in Workers, v # w, v[1] = w[1], NEW s \in Nat, NEW t \in Nat,
                 AskedOf(v, t)', AskedOf(w, s)'
          PROVE  t < s
      <4>1. AskedOf(v, t)
        BY <1>2, <2>2, <3>2 DEF AskedOf
      <4>2. t <= seq[d]
        BY <2>7, <3>2, <4>1
      <4> QED
        BY <1>1, <2>6, <3>2, <4>1, <4>2 DEF Steady, Ordered
    <3>3. ASSUME NEW s \in Nat, AskedOf(w, s)'
          PROVE  s \in 1 .. inflight'[d]["Brightness"]
      <4>1. CASE AskedOf(w, s)
        <5>1. s <= seq[d]
          BY <2>7, <4>1
        <5>2. s >= 1
          BY <4>1 DEF Steady, Ordered
        <5> QED
          BY <1>1, <2>2, <5>1, <5>2
      <4> QED
        BY <1>1, <2>2, <2>6, <3>3, <4>1
    <3>4. ASSUME NEW m \in Unread', m.id = w[1], m.key = "Brightness", NEW s \in Nat, AskedOf(w, s)'
          PROVE  m.seq < s
      <4>1. m \in Unread /\ m.seq <= seq[d] /\ m.seq \in Nat
        BY <1>1, <1>2, <3>4, UnreadTyped DEF NumberInv, WorkerAck
      <4>2. CASE AskedOf(w, s)
        BY <3>4, <4>1, <4>2 DEF Steady, Ordered
      <4>3. CASE s = seq[d] + 1
        BY <1>1, <4>1, <4>3
      <4> QED
        BY <2>6, <3>4, <4>2, <4>3
    <3> QED
      BY <3>1, <3>2, <3>3, <3>4 DEF Ordered
  <2> QED
    BY <1>8, <2>5, <2>8 DEF Steady
<1> QED
  BY <1>9, <1>10

LEMMA SightedLevel ==
  ASSUME NEW r \in DisplayRecord, NEW seen \in BOOLEAN
  PROVE  ApplyEnumeration(r, seen).level = r.level
<1>1. (r.software_forced /\ r.state # "disconnected") \in BOOLEAN
  OBVIOUS
<1> QED
  BY <1>1 DEF DisplayRecord, ApplyEnumeration, Connected

\* A worker that is born is asked for the recorded level, or for a reading.
LEMMA SteadyBorn ==
  ASSUME Base, IdleInv, NumberInv, ScaleInv, AwaitInv, phase # "stopped", UNCHANGED workerVars,
         NEW seen \in SUBSET Displays, refresh(seen),
         NEW w \in Workers, w[1] \in Respawned(seen), w[2] = next_gen[w[1]] + 1
  PROVE  Steady(w)'
<1> DEFINE d       == w[1]
           c       == FirstCommand(d)
           level   == records[d].level
           dropped == Gone(seen) \cup Replugged(seen) \cup Recovered(seen)
<1>1. /\ TypeOK /\ d \in Displays /\ seq[d] \in Nat /\ UNCHANGED <<local, panel, disturbed, acks>>
      /\ Unread' = Unread /\ level \in -1 .. 100 /\ next_gen[d] \in 0 .. MaxGen
  BY ReadyTyped, UnreadSame, MaxGenAssumption
     DEF Base, TypeOK, EngineTypeOK, DisplayRecord, NoLevel, workerVars, refresh
<1>2. local'[w] = NewLocals /\ inbox'[w] = <<c>>
  <2>1. thread[w] = "none"
    BY <1>1, MaxGenAssumption DEF Base, ThreadInv
  <2>2. local[w] = NewLocals
    BY <2>1 DEF IdleInv
  <2> QED
    BY <1>1, <2>2 DEF refresh
<1>3. records'[d].level = level
  <2>1. records[d] \in DisplayRecord /\ (d \in seen) \in BOOLEAN
    BY <1>1 DEF TypeOK, EngineTypeOK
  <2>2. records'[d] = ApplyEnumeration(records[d], d \in seen)
    BY <1>1 DEF refresh
  <2> QED
    BY <2>1, <2>2, SightedLevel, Zenon
<1>4. ~AwaitsReading(d) \/ d \in dropped
  <2>1. CASE d \in Joined(seen)
    <3>1. ~CanMarkUnresponsive(records[d])
      BY <2>1 DEF Joined, Added, Known, CanMarkUnresponsive, Connected
    <3>2. ~HasWorker(d)
      BY <1>1, <3>1 DEF Base, HealthInv, Healthy
    <3> QED
      BY <1>1, <3>2 DEF AwaitInv
  <2>2. CASE d \notin Joined(seen)
    BY <2>2 DEF Respawned
  <2> QED
    BY <2>1, <2>2
<1>5. d \notin poll_gets' /\ (d \in pending_learn' <=> level = NoLevel)
  BY <1>1, <1>4 DEF refresh, AwaitsReading
<1>6. inflight'[d] = [NothingInFlight EXCEPT ![c.op] = seq[d] + 1]
  BY <1>1 DEF refresh
<1> HIDE DEF dropped
<1>7. \A s : ~Keeps(local'[w], s)
  BY <1>2, NewLocalsIdle
<1>8. CASE level = NoLevel
  <2>1. c.op = "Get" /\ inflight'[d]["Get"] = seq[d] + 1
    BY <1>6, <1>8 DEF FirstCommand, GetCommand, NothingInFlight, InflightKey
  <2>2. \A s : ~AskedOf(w, s)'
    BY <1>2, <1>7, <2>1 DEF AskedOf, Asks, SetsIn
  <2>3. Ordered(w)'
    BY <1>7, <2>2 DEF Ordered
  <2>4. Undisputed(w)' /\ Learned(w)' /\ OnCourse(w)'
    BY <1>3, <1>5, <1>8, <2>2 DEF Undisputed, Learned, OnCourse, Idle
  <2>5. \A m \in Unread' : m.id = d => ~Fresh(d, "Get", m.seq)'
    <3> SUFFICES ASSUME NEW m \in Unread, m.id = d, m.seq = seq[d] + 1
                 PROVE  FALSE
      BY <1>1, <2>1 DEF Fresh
    <3> QED
      BY <1>1 DEF NumberInv
  <2> QED
    BY <2>3, <2>4, <2>5 DEF Steady, ReadsTrue
<1>9. CASE level # NoLevel
  <2>1. level \in 0 .. 100 /\ brightness_max[d] = 100
    BY <1>1, <1>9 DEF NoLevel, ScaleInv
  <2>2. /\ c.op = "Brightness" /\ c.raw = level /\ c.seq = seq[d] + 1
        /\ inflight'[d]["Brightness"] = seq[d] + 1
    <3>1. c = SetCommand("Brightness", level, seq[d] + 1)
      BY <1>9, <2>1, ToRaw DEF FirstCommand
    <3> HIDE DEF level
    <3> QED
      BY <1>6, <3>1 DEF SetCommand, NothingInFlight, InflightKey, Feature
  <2> HIDE DEF c, level
  <2>3. \A s : SetsIn(inbox'[w], s) => s = seq[d] + 1
    BY <1>2, <2>2 DEF SetsIn
  <2>4. LastSet(inbox'[w], level)
    <3>1. inbox[w] \in Seq(WorkerCommand)
      BY <1>1, ReadyTyped
    <3> QED
      BY <1>2, <2>2, <3>1, AsksLast
  <2>5. \A s \in Nat : AskedOf(w, s)' => s = seq[d] + 1
    BY <1>7, <2>3 DEF AskedOf, Asks
  <2>6. Ordered(w)'
    <3>1. ASSUME NEW v \in Workers, v # w, v[1] = w[1], NEW s \in Nat, NEW t \in Nat,
                 AskedOf(v, t)', AskedOf(w, s)'
          PROVE  t < s
      <4>1. v[2] # w[2]
        BY <3>1 DEF Workers
      <4>2. inbox'[v] = inbox[v]
        BY <3>1, <4>1 DEF refresh
      <4>3. AskedOf(v, t)
        BY <1>1, <3>1, <4>2 DEF AskedOf
      <4>4. t <= seq[v[1]]
        BY <1>1, <4>3, AskedFew DEF NumberInv, Ready
      <4> QED
        BY <1>1, <2>5, <3>1, <4>4
    <3>2. \A s \in Nat : AskedOf(w, s)' => s \in 1 .. inflight'[d]["Brightness"]
      BY <1>1, <2>2, <2>5
    <3>3. ASSUME NEW m \in Unread', m.id = w[1], NEW s \in Nat, AskedOf(w, s)'
          PROVE  m.seq < s
      <4>1. m \in Unread /\ m.seq <= seq[d] /\ m.seq \in Nat
        BY <1>1, <3>3, UnreadTyped DEF NumberInv, WorkerAck
      <4> QED
        BY <1>1, <2>5, <3>3, <4>1
    <3> QED
      BY <1>7, <3>1, <3>2, <3>3 DEF Ordered
  <2>7. /\ ~AwaitsReading(d)' /\ records'[d].level = level /\ level # NoLevel
    BY <1>3, <1>5, <1>9 DEF AwaitsReading, level
  <2>8. Undisputed(w)' /\ Learned(w)' /\ OnCourse(w)' /\ ReadsTrue(w)'
    BY <2>4, <2>7 DEF Undisputed, Learned, OnCourse, ReadsTrue, Follows
  <2> QED
    BY <2>6, <2>8 DEF Steady
<1> QED
  BY <1>8, <1>9

LEMMA SteadyRefreshed ==
  ASSUME Base, IdleInv, NumberInv, ScaleInv, AwaitInv, SteadyInv, phase # "stopped",
         UNCHANGED workerVars, NEW seen \in SUBSET Displays, refresh(seen),
         NEW w \in Workers, IsRegistered(w)'
  PROVE  Steady(w)'
<1> DEFINE d       == w[1]
           dropped == Gone(seen) \cup Replugged(seen) \cup Recovered(seen)
<1>1. /\ TypeOK /\ d \in Displays /\ w[2] \in 1 .. MaxGen /\ UNCHANGED acks
      /\ inflight \in [Displays -> [InflightKey -> Nat]]
      /\ records \in [Displays -> DisplayRecord]
  BY DEF Base, TypeOK, EngineTypeOK, Workers, refresh
<1>2. CASE d \in Respawned(seen)
  <2>1. w[2] = next_gen[d] + 1
    BY <1>1, <1>2 DEF refresh, IsRegistered
  <2> QED
    BY <1>2, <2>1, SteadyBorn
<1>3. CASE d \notin Respawned(seen)
  <2>1. d \notin dropped /\ workers'[d] = workers[d]
    BY <1>1, <1>3, MaxGenAssumption DEF refresh, IsRegistered, NoWorker
  <2>2. Steady(w)
    BY <2>1 DEF SteadyInv, IsRegistered
  <2>3. /\ \A v \in Workers : v[1] = d => inbox'[v] = inbox[v] /\ thread'[v] = thread[v]
        /\ inflight'[d] = inflight[d]
        /\ d \in pending_learn' <=> d \in pending_learn
        /\ d \in poll_gets' <=> d \in poll_gets
    BY <1>1, <1>3, <2>1 DEF refresh, ForgetOps
  <2>4. records'[d].level = records[d].level
    <3>1. records[d] \in DisplayRecord /\ (d \in seen) \in BOOLEAN
      BY <1>1
    <3>2. records'[d] = ApplyEnumeration(records[d], d \in seen)
      BY <1>1 DEF refresh
    <3> QED
      BY <3>1, <3>2, SightedLevel, Zenon
  <2>5. Unread' = Unread
    BY <1>1, UnreadSame
  <2> HIDE DEF d, dropped
  <2> QED
    BY <1>1, <2>2, <2>3, <2>4, <2>5, SteadyKept DEF d
<1> QED
  BY <1>2, <1>3

\* A display that was given up has no worker to speak of.
LEMMA SteadySurfaced ==
  ASSUME Base, NumberInv, SteadyInv, UNCHANGED <<workerVars, inbox, thread>>,
         Unread' \subseteq Unread, NEW ids, surface_unresponsive(ids),
         NEW w \in Workers, IsRegistered(w)'
  PROVE  Steady(w)'
<1> DEFINE d == w[1]
<1>1. /\ TypeOK /\ d \in Displays /\ w[2] \in 1 .. MaxGen
  BY DEF Base, Workers
<1>2. d \notin ids /\ workers'[d] = workers[d]
  BY <1>1, MaxGenAssumption DEF surface_unresponsive, IsRegistered, NoWorker
<1>3. Steady(w)
  BY <1>2 DEF SteadyInv, IsRegistered
<1>4. /\ inflight'[d] = inflight[d] /\ records'[d] = records[d]
      /\ d \in pending_learn' <=> d \in pending_learn
      /\ d \in poll_gets' <=> d \in poll_gets
  BY <1>1, <1>2 DEF surface_unresponsive, ForgetOps
<1> HIDE DEF d
<1> QED
  BY <1>1, <1>3, <1>4, SteadyKept DEF d

\* An answer clears the operation it answers; a write that is answered was
\* the last one asked.
LEMMA SteadyHeard ==
  ASSUME TypeOK, NumberInv, NEW w \in Workers, Steady(w), UNCHANGED <<workerVars, inbox, thread>>,
         acks # <<>>, acks' = Tail(acks),
         \/ UNCHANGED inflight
         \/ \E key \in InflightKey : /\ key = "Brightness" => ack.key = "Brightness"
                                     /\ inflight' = ClearMatch(ack.id, key, ack.seq),
         records'[w[1]].level = records[w[1]].level,
         w[1] \in pending_learn' <=> w[1] \in pending_learn,
         w[1] \in poll_gets' => w[1] \in poll_gets
  PROVE  Steady(w)'
<1> DEFINE d == w[1]
<1>1. /\ inflight \in [Displays -> [InflightKey -> Nat]] /\ d \in Displays
      /\ acks \in Seq(WorkerAck) /\ ack.seq \in Nat /\ "Get" \in InflightKey
      /\ "Brightness" \in InflightKey
  BY AckType, ReadyTyped DEF TypeOK, EngineTypeOK, ProtocolTypeOK, InflightKey, Feature
<1>2. Unread' \subseteq Unread /\ ack \in Unread
  BY <1>1, UnreadReceived
<1>3. /\ inflight'[d]["Brightness"] = inflight[d]["Brightness"] \/ Idle(w)
      /\ inflight'[d]["Get"] \in {NoSeq, inflight[d]["Get"]}
  <2>1. CASE UNCHANGED inflight
    BY <2>1
  <2>2. ASSUME NEW key \in InflightKey, key = "Brightness" => ack.key = "Brightness",
               inflight' = ClearMatch(ack.id, key, ack.seq)
        PROVE  /\ inflight'[d]["Brightness"] = inflight[d]["Brightness"] \/ Idle(w)
               /\ inflight'[d]["Get"] \in {NoSeq, inflight[d]["Get"]}
    <3>1. CASE ~Fresh(ack.id, key, ack.seq)
      BY <2>2, <3>1 DEF ClearMatch
    <3>2. CASE Fresh(ack.id, key, ack.seq)
      <4>1. inflight' = [inflight EXCEPT ![ack.id][key] = NoSeq] /\ inflight[ack.id][key] = ack.seq
        BY <2>2, <3>2 DEF ClearMatch, Fresh
      <4>2. inflight'[d]["Get"] \in {NoSeq, inflight[d]["Get"]}
        BY <1>1, <4>1
      <4>3. CASE ack.id = d /\ key = "Brightness"
        BY <1>1, <1>2, <2>2, <4>1, <4>2, <4>3, AnsweredIdle DEF Steady
      <4>4. CASE ~(ack.id = d /\ key = "Brightness")
        BY <1>1, <4>1, <4>2, <4>4
      <4> QED
        BY <4>3, <4>4
    <3> QED
      BY <3>1, <3>2
  <2> QED
    BY <2>1, <2>2
<1> HIDE DEF d
<1> QED
  BY <1>2, <1>3, SteadyKept DEF d

\* The reading the engine waited for is where the panel is, and it is at rest:
\* the level it is recorded as is the level it is at.
LEMMA SteadyRead ==
  ASSUME Base, NumberInv, ScaleInv, NEW w \in Workers, IsRegistered(w), Steady(w),
         UNCHANGED workerVars, TakeReading, ack.id = w[1], AwaitsReading(w[1]),
         records' = [records EXCEPT ![ack.id] = RecordUserLevel(@, ReadingPct)]
  PROVE  Steady(w)'
<1> DEFINE d == w[1]
<1>1. /\ TypeOK /\ acks # <<>> /\ acks' = Tail(acks) /\ acks \in Seq(WorkerAck)
      /\ phase # "stopped" /\ d \in Displays /\ w[2] \in 1 .. MaxGen
      /\ UNCHANGED <<inbox, thread, local, panel, disturbed>>
      /\ ack.outcome = "Get" /\ ack.ok /\ Fresh(d, "Get", ack.seq)
  BY DEF Base, TypeOK, EngineTypeOK, ProtocolTypeOK, TakeReading, Receive, Workers, workerVars
<1>2. ack \in Unread /\ Unread' \subseteq Unread
  BY <1>1, UnreadReceived
<1>3. d \notin pending_learn' /\ d \notin poll_gets'
  BY DEF TakeReading
<1>4. Idle(w)
  BY DEF Steady, Undisputed
<1>5. HasWorker(d) /\ Known(records[d]) /\ records[d] \in DisplayRecord
      /\ records \in [Displays -> DisplayRecord] /\ ReadingPct \in 0 .. 100
  <2>1. HasWorker(d)
    BY <1>1, MaxGenAssumption DEF IsRegistered, HasWorker, NoWorker
  <2>2. CanMarkUnresponsive(records[d])
    BY <1>1, <2>1 DEF Base, HealthInv, Healthy
  <2> QED
    BY <1>1, <2>1, <2>2, ReadingType
       DEF CanMarkUnresponsive, Connected, Known, TypeOK, EngineTypeOK
<1>6. records'[d].level = ReadingPct /\ ReadingPct # NoLevel
  <2>1. records'[d] = [records[d] EXCEPT !.level = ReadingPct]
    BY <1>1, <1>5 DEF RecordUserLevel
  <2>2. -1 \notin 0 .. 100
    OBVIOUS
  <2> HIDE DEF ReadingPct
  <2> QED
    BY <1>5, <2>1, <2>2 DEF DisplayRecord, NoLevel
<1>7. inflight'[d]["Brightness"] = inflight[d]["Brightness"]
  <2>1. inflight \in [Displays -> [InflightKey -> Nat]] /\ "Brightness" \in InflightKey
    BY <1>1 DEF TypeOK, EngineTypeOK, InflightKey, Feature
  <2>2. inflight' = ClearMatch(ack.id, "Get", ack.seq)
    BY DEF TakeReading
  <2> QED
    BY <1>1, <2>1, <2>2 DEF ClearMatch
<1>8. Ordered(w)'
  BY <1>1, <1>2, <1>7, OrderedKept DEF Steady
<1>9. Undisputed(w)' /\ Learned(w)' /\ ReadsTrue(w)'
  BY <1>3, <1>6 DEF Undisputed, Learned, ReadsTrue, AwaitsReading
<1>10. OnCourse(w)'
  <2> SUFFICES ASSUME d \notin disturbed
               PROVE  Follows(inbox[w], local[w], panel[d], ReadingPct)
    BY <1>1, <1>6 DEF OnCourse
  <2>1. ack.current = panel[d] /\ ack.max = 100
    BY <1>1, <1>2 DEF Steady, ReadsTrue, ScaleInv
  <2>2. NoSets(inbox[w]) /\ Slot(local[w]) = NoPending /\ ~IsWriting(local[w])
    BY <1>1, <1>4, IdleHasNothing
  <2> QED
    BY <2>1, <2>2 DEF Follows, Heads, ReadingPct
<1> QED
  BY <1>8, <1>9, <1>10 DEF Steady

LEMMA SteadyAck ==
  ASSUME Base, NumberInv, ScaleInv, SteadyInv, UNCHANGED workerVars, HandleAck,
         NEW w \in Workers, IsRegistered(w)'
  PROVE  Steady(w)'
<1> DEFINE d == w[1]
<1>1. /\ TypeOK /\ acks # <<>> /\ acks' = Tail(acks) /\ acks \in Seq(WorkerAck)
      /\ UNCHANGED <<inbox, thread>> /\ phase # "stopped"
      /\ records \in [Displays -> DisplayRecord] /\ d \in Displays
      /\ ack.key \in InflightKey /\ "Get" \in InflightKey
  BY AckType DEF Base, TypeOK, EngineTypeOK, ProtocolTypeOK, Workers, InflightKey,
     HandleAck, AckSet, AckGetUnusable, AckGetLearned, AckPollHeals, AckPollReflects,
     AckGetNoted, AckPanicked, AckOpenFailed, AckSoftwareFallback, TakeReading, Receive
<1>2. Unread' \subseteq Unread
  BY <1>1, UnreadReceived
<1>3. UNCHANGED workers => IsRegistered(w) /\ Steady(w)
  BY DEF SteadyInv, IsRegistered
<1>4. CASE AckSet
  <2>1. UNCHANGED <<workers, records, pending_learn, poll_gets>>
        /\ inflight' = ClearMatch(ack.id, ack.key, ack.seq)
    BY <1>4 DEF AckSet, healthVars
  <2> QED
    BY <1>1, <1>3, <2>1, SteadyHeard
<1>5. CASE AckGetUnusable
  <2>1. UNCHANGED <<workers, records, pending_learn, poll_gets>>
        /\ inflight' = ClearMatch(ack.id, "Get", ack.seq)
    BY <1>5 DEF AckGetUnusable, healthVars
  <2> QED
    BY <1>1, <1>3, <2>1, SteadyHeard
<1>6. ASSUME TakeReading
      PROVE  /\ Steady(w) /\ IsRegistered(w)
             /\ inflight' = ClearMatch(ack.id, "Get", ack.seq)
             /\ pending_learn' = pending_learn \ {ack.id} /\ poll_gets' = poll_gets \ {ack.id}
  BY <1>3, <1>6 DEF TakeReading
<1>7. CASE AckGetLearned \/ AckPollReflects
  <2>1. /\ TakeReading /\ AwaitsReading(ack.id)
        /\ records' = [records EXCEPT ![ack.id] = RecordUserLevel(@, ReadingPct)]
    BY <1>7 DEF AckGetLearned, AckPollReflects, IsPollReading, AwaitsReading
  <2>2. CASE ack.id = d
    BY <1>6, <2>1, <2>2, SteadyRead
  <2>3. CASE ack.id # d
    <3>1. records'[d] = records[d]
      BY <1>1, <2>1, <2>3
    <3> HIDE DEF d
    <3> QED
      BY <1>1, <1>6, <2>1, <2>3, <3>1, SteadyHeard DEF d
  <2> QED
    BY <2>2, <2>3
<1>8. CASE AckPollHeals \/ AckGetNoted
  <2>1. TakeReading /\ ack.id \notin pending_learn
    BY <1>8 DEF AckPollHeals, AckGetNoted, IsPollReading
  <2>2. records'[d].level = records[d].level
    BY <1>1, <1>8 DEF AckPollHeals, AckGetNoted, ClearSoftwareForced, DisplayRecord
  <2> HIDE DEF d
  <2> QED
    BY <1>1, <1>6, <2>1, <2>2, SteadyHeard DEF d
<1>9. CASE AckPanicked
  <2>1. CASE FromRegistered /\ CanMarkUnresponsive(records[ack.id])
    <3>1. PICK ids : surface_unresponsive(ids)
      BY <1>9, <2>1 DEF AckPanicked, mark_stuck
    <3> QED
      BY <1>1, <1>2, <3>1, SteadySurfaced
  <2>2. CASE ~(FromRegistered /\ CanMarkUnresponsive(records[ack.id]))
    <3>1. /\ inflight' = ClearMatch(ack.id, ack.key, ack.seq)
          /\ UNCHANGED <<workers, records, pending_learn, poll_gets>>
      BY <1>9, <2>2 DEF AckPanicked
    <3> QED
      BY <1>1, <1>3, <3>1, SteadyHeard
  <2> QED
    BY <2>1, <2>2
<1>10. CASE AckOpenFailed
  <2>1. CASE FromRegistered
    BY <1>1, <1>2, <1>10, <2>1, SteadySurfaced DEF AckOpenFailed
  <2>2. CASE ~FromRegistered
    <3>1. UNCHANGED <<workers, records, inflight, pending_learn, poll_gets>>
      BY <1>10, <2>2 DEF AckOpenFailed, opVars
    <3> QED
      BY <1>1, <1>3, <3>1, SteadyHeard
  <2> QED
    BY <2>1, <2>2
<1>11. CASE AckSoftwareFallback
  <2>1. UNCHANGED <<workers, inflight, pending_learn, poll_gets>>
    BY <1>11 DEF AckSoftwareFallback, opVars
  <2>2. records'[d].level = records[d].level
    BY <1>1, <1>11 DEF AckSoftwareFallback, MarkSoftwareOnly, DisplayRecord
  <2> QED
    BY <1>1, <1>3, <2>1, <2>2, SteadyHeard
<1> QED
  BY <1>4, <1>5, <1>7, <1>8, <1>9, <1>10, <1>11 DEF HandleAck

\* A command to a worker, unless it is a write of this display's brightness.
LEMMA SteadySent ==
  ASSUME TypeOK, NumberInv, NEW w \in Workers, IsRegistered(w), Steady(w),
         UNCHANGED <<workerVars, thread, acks>>,
         NEW e \in Displays, NEW key \in Feature, NEW raw \in Nat, Dispatch(e, key, raw),
         e # w[1] \/ key # "Brightness",
         records'[w[1]].level = records[w[1]].level,
         w[1] \in pending_learn' <=> w[1] \in pending_learn,
         w[1] \in poll_gets' => w[1] \in poll_gets
  PROVE  Steady(w)'
<1> DEFINE d == w[1]
           c == SetCommand(key, raw, seq[e] + 1)
<1>1. /\ inflight \in [Displays -> [InflightKey -> Nat]] /\ d \in Displays
      /\ inbox \in [Workers -> Seq(WorkerCommand)]
      /\ "Get" \in InflightKey /\ "Brightness" \in InflightKey /\ key # "Get"
  BY ReadyTyped DEF TypeOK, EngineTypeOK, ProtocolTypeOK, InflightKey, Feature
<1>2. w = Registered(d)
  BY DEF Registered, IsRegistered, Workers
<1>3. Unread' = Unread /\ c.op = key
  BY UnreadSame DEF SetCommand
<1>4. \/ inbox' = inbox /\ inflight' = inflight
      \/ /\ inbox' = [inbox EXCEPT ![Registered(e)] = Append(@, c)]
         /\ inflight' = [inflight EXCEPT ![e][key] = seq[e] + 1]
  BY DEF Dispatch
<1> HIDE DEF c
<1>5. /\ inflight'[d]["Brightness"] = inflight[d]["Brightness"]
      /\ inflight'[d]["Get"] = inflight[d]["Get"]
  <2> DEFINE at == [inflight[e] EXCEPT ![key] = seq[e] + 1]
  <2>1. CASE inflight' = inflight
    BY <2>1
  <2>2. CASE inflight' = [inflight EXCEPT ![e] = at]
    <3>1. CASE e = d
      <4>1. key # "Brightness" /\ inflight[d] \in [InflightKey -> Nat]
        BY <1>1, <3>1
      <4>2. inflight'[d] = at
        BY <1>1, <2>2, <3>1
      <4>3. at["Brightness"] = inflight[d]["Brightness"] /\ at["Get"] = inflight[d]["Get"]
        BY <1>1, <3>1, <4>1
      <4> QED
        BY <4>2, <4>3
    <3>2. CASE e # d
      BY <1>1, <2>2, <3>2
    <3> QED
      BY <3>1, <3>2
  <2> QED
    BY <1>4, <2>1, <2>2
<1>6. \A v \in Workers : v # w /\ v[1] = w[1] => inbox'[v] = inbox[v]
  <2> SUFFICES ASSUME NEW v \in Workers, v # w, v[1] = d, v = Registered(e)
               PROVE  FALSE
    BY <1>1, <1>4
  <2>1. e = d
    BY DEF Registered
  <2> QED
    BY <1>2, <2>1
<1>7. inbox'[w] = inbox[w] \/ (c.op # "Brightness" /\ inbox'[w] = Append(inbox[w], c))
  <2>1. CASE Registered(e) = w
    <3>1. e = d
      BY <2>1 DEF Registered
    <3> QED
      BY <1>1, <1>3, <1>4, <2>1, <3>1
  <2>2. CASE Registered(e) # w
    BY <1>1, <1>4, <2>2
  <2> QED
    BY <2>1, <2>2
<1> HIDE DEF d
<1> QED
  BY <1>3, <1>5, <1>6, <1>7, SteadyKept DEF d

\* A display is polled when nothing is asked of it.
LEMMA SteadyPolled ==
  ASSUME TypeOK, NumberInv, NEW w \in Workers, IsRegistered(w), Steady(w),
         UNCHANGED workerVars, PollLevels
  PROVE  Steady(w)'
<1> DEFINE d    == w[1]
           sent == {e \in {e \in Displays : Pollable(e)} : Reachable(e)}
           c    == GetCommand(seq[d] + 1)
<1>1. /\ inflight \in [Displays -> [InflightKey -> Nat]] /\ d \in Displays
      /\ "Get" \in InflightKey /\ "Brightness" \in InflightKey
  BY ReadyTyped DEF TypeOK, EngineTypeOK, InflightKey, Feature
<1>2. w = Registered(d)
  BY DEF Registered, IsRegistered, Workers
<1>3. Unread' = Unread /\ UNCHANGED <<thread, records, pending_learn>> /\ c.op = "Get"
  BY UnreadSame DEF PollLevels, GetCommand
<1>4. \A v \in Workers : v # w /\ v[1] = w[1] => inbox'[v] = inbox[v]
  BY <1>2 DEF PollLevels
<1>5. CASE d \in sent
  <2>1. /\ inbox'[w] = Append(inbox[w], c)
        /\ inflight'[d] = [inflight[d] EXCEPT !["Get"] = seq[d] + 1]
    BY <1>1, <1>2, <1>5 DEF PollLevels
  <2>2. Receiving(w) /\ inflight[d]["Brightness"] = NoSeq
    BY <1>2, <1>5 DEF Reachable, Pollable
  <2>3. Idle(w)
    BY <2>2, UnwatchedIdle DEF Steady
  <2>4. /\ inflight'[d]["Brightness"] = inflight[d]["Brightness"]
        /\ inflight'[d]["Get"] = seq[d] + 1
    BY <1>1, <2>1
  <2>5. c.op # "Brightness"
    BY <1>3
  <2> HIDE DEF c, d
  <2> QED
    BY <1>3, <1>4, <2>1, <2>2, <2>3, <2>4, <2>5, SteadyKept DEF d
<1>6. CASE d \notin sent
  <2>1. inbox'[w] = inbox[w] /\ inflight'[d] = inflight[d] /\ (d \in poll_gets' => d \in poll_gets)
    BY <1>1, <1>6 DEF PollLevels
  <2> HIDE DEF d, sent
  <2> QED
    BY <1>3, <1>4, <2>1, SteadyKept DEF d
<1> QED
  BY <1>5, <1>6

LEMMA SteadyEngine ==
  ASSUME Base, IdleInv, NumberInv, ScaleInv, AwaitInv, SteadyInv, EngineNext,
         UNCHANGED workerVars, NEW w \in Workers, IsRegistered(w)'
  PROVE  Steady(w)'
<1> DEFINE d == w[1]
<1>1. /\ TypeOK /\ phase # "stopped" /\ d \in Displays /\ w[2] \in 1 .. MaxGen
      /\ records \in [Displays -> DisplayRecord]
  BY EngineRuns DEF Base, TypeOK, EngineTypeOK, Workers
<1>2. UNCHANGED workers => IsRegistered(w) /\ Steady(w)
  BY DEF SteadyInv, IsRegistered
<1>3. CASE Enumerates
  BY <1>1, <1>3, SteadyRefreshed DEF Enumerates, Startup, DebounceFires, RefreshNow
<1>4. ASSUME UNCHANGED <<workers, inflight, pending_learn, poll_gets, inbox, thread, acks>>,
             records'[d].level = records[d].level
      PROVE  Steady(w)'
  <2>1. Unread' = Unread /\ Steady(w)
    BY <1>2, <1>4, UnreadSame
  <2> HIDE DEF d
  <2> QED
    BY <1>1, <1>4, <2>1, SteadyKept DEF d
<1>5. CASE PlatformEvent \/ \E on \in BOOLEAN : SetLevelPolling(on)
  <2>1. UNCHANGED <<workers, inflight, pending_learn, poll_gets, inbox, thread, acks, records>>
    BY <1>5 DEF PlatformEvent, SetLevelPolling, opVars, healthVars, channels
  <2> QED
    BY <1>4, <2>1
<1>6. ASSUME NEW e \in Displays, NEW pct \in Levels, SetUserLevel(e, pct)
      PROVE  Steady(w)'
  <2>1. /\ UNCHANGED <<workers, thread, acks>> /\ dispatch_set(e, pct)
        /\ pending_learn' = pending_learn \ {e} /\ poll_gets' = poll_gets \ {e}
        /\ records' = [records EXCEPT ![e] = RecordUserLevel(@, pct)]
    BY <1>6 DEF SetUserLevel
  <2>2. CASE e = d
    BY <1>2, <1>6, <2>1, <2>2, SteadySet
  <2>3. CASE e # d
    <3>1. records'[d] = records[d]
      BY <1>1, <2>1, <2>3
    <3>2. CASE IsResponsive(records[e])
      <4>1. pct_to_raw(pct, brightness_max[e]) \in Nat
        BY <1>1, EngineAssumption, PctToRawType DEF TypeOK, EngineTypeOK
      <4>2. Dispatch(e, "Brightness", pct_to_raw(pct, brightness_max[e]))
        BY <2>1, <3>2 DEF dispatch_set
      <4> HIDE DEF d
      <4> QED
        BY <1>1, <1>2, <2>1, <2>3, <3>1, <4>1, <4>2, SteadySent DEF Feature, d
    <3>3. CASE ~IsResponsive(records[e])
      <4>1. UNCHANGED <<inbox, inflight>>
        BY <2>1, <3>3 DEF dispatch_set
      <4>2. Unread' = Unread
        BY <2>1, UnreadSame
      <4> HIDE DEF d
      <4> QED
        BY <1>1, <1>2, <2>1, <2>3, <3>1, <4>1, <4>2, SteadyKept DEF d
    <3> QED
      BY <3>2, <3>3
  <2> QED
    BY <2>2, <2>3
<1>7. ASSUME NEW e \in Displays, NEW value \in Inputs, SetInput(e, value)
      PROVE  Steady(w)'
  <2>1. /\ UNCHANGED <<workers, thread, acks, records, pending_learn, poll_gets>>
        /\ Dispatch(e, "InputSource", value)
    BY <1>7 DEF SetInput, healthVars
  <2>2. value \in Nat /\ "InputSource" \in Feature
    BY EngineAssumption DEF Feature
  <2> QED
    BY <1>1, <1>2, <2>1, <2>2, SteadySent
<1>8. CASE ShutDown
  BY <1>1, <1>8, MaxGenAssumption DEF ShutDown, IsRegistered, NoWorker
<1>9. CASE PollLevels
  BY <1>1, <1>2, <1>9, SteadyPolled DEF PollLevels, healthVars
<1>10. ASSUME NEW aged \in SUBSET Displays, WatchdogFires(aged)
       PROVE  Steady(w)'
  <2>1. UNCHANGED <<inbox, thread, acks>> /\ Unread' = Unread
    BY <1>10, UnreadSame DEF WatchdogFires
  <2>2. PICK ids : surface_unresponsive(ids)
    BY <1>10 DEF WatchdogFires, mark_stuck
  <2> QED
    BY <1>1, <2>1, <2>2, SteadySurfaced
<1>11. CASE HandleAck
  BY <1>11, SteadyAck
<1> QED
  BY <1>3, <1>5, <1>6, <1>7, <1>8, <1>9, <1>10, <1>11 DEF EngineNext, AppCommand, Timer

-----------------------------------------------------------------------------
(* The two promises.                                                       *)

FollowInv ==
  Base /\ IdleInv /\ NumberInv /\ ScaleInv /\ AwaitInv /\ SteadyInv

\* Nobody but the display's own writes matter to it, nor does a call that hangs.
LEMMA FollowKept ==
  ASSUME FollowInv, UNCHANGED <<engineVars, channels, local>>,
         disturbed \subseteq disturbed',
         \A d \in Displays : panel'[d] = panel[d] \/ d \in disturbed'
  PROVE  NumberInv' /\ ScaleInv' /\ AwaitInv' /\ SteadyInv'
<1>1. /\ UNCHANGED <<phase, records, workers, seq, inflight, brightness_max, pending_learn,
                     poll_gets>>
      /\ UNCHANGED <<inbox, acks, thread, local>>
      /\ Unread' = Unread
  BY UnreadSame DEF engineVars, loopVars, opVars, healthVars, scaleVars, channels
<1>2. NumberInv' /\ ScaleInv' /\ AwaitInv'
  BY <1>1 DEF FollowInv, NumberInv, Ready, Numbered, ScaleInv, AwaitInv, AwaitsReading, HasWorker
<1>3. ASSUME NEW w \in Workers, IsRegistered(w)'
      PROVE  Steady(w)'
  <2>1. Steady(w) /\ w[1] \in Displays
    BY <1>1, <1>3 DEF FollowInv, SteadyInv, IsRegistered, Workers
  <2>2. Ordered(w)'
    BY <1>1, <2>1 DEF Steady, Ordered, AskedOf
  <2>3. Undisputed(w)' /\ Learned(w)'
    BY <1>1, <2>1 DEF Steady, Undisputed, Learned, AwaitsReading, Idle, AskedOf
  <2>4. OnCourse(w)'
    BY <1>1, <2>1 DEF Steady, OnCourse, Receiving
  <2>5. ReadsTrue(w)'
    BY <1>1, <2>1 DEF Steady, ReadsTrue, AwaitsReading, Fresh
  <2> QED
    BY <2>2, <2>3, <2>4, <2>5 DEF Steady
<1> QED
  BY <1>2, <1>3 DEF SteadyInv

LEMMA FollowInit ==
  ASSUME Init
  PROVE  FollowInv
<1>1. /\ Unread = {}
      /\ \A w \in Workers : local[w] = NewLocals /\ inbox[w] = <<>> /\ ~IsRegistered(w)
      /\ \A d \in Displays : ~AwaitsReading(d) /\ brightness_max[d] = 100 /\ seq[d] = 0
  BY MaxGenAssumption
     DEF Init, EngineInit, ProtocolInit, WorkerInit, Unread, IsRegistered, NoWorker, Workers,
         AwaitsReading
<1>2. Base
  BY SystemInit, HealthInit, ThreadInit DEF Init, Base
<1>3. IdleInv
  BY <1>1 DEF IdleInv
<1>4. NumberInv
  <2>1. ASSUME NEW w \in Workers PROVE Ready(w)
    <3>1. w[1] \in Displays /\ 0 \in Nat
      BY DEF Workers
    <3>2. Tidy(local[w]) /\ Few(local[w], seq[w[1]])
      BY <1>1, <3>1, NewLocalsIdle
    <3> QED
      BY <1>1, <3>2 DEF Ready, Numbered
  <2> QED
    BY <1>1, <2>1 DEF NumberInv
<1>5. ScaleInv /\ AwaitInv /\ SteadyInv
  BY <1>1 DEF ScaleInv, AwaitInv, SteadyInv
<1> QED
  BY <1>2, <1>3, <1>4, <1>5 DEF FollowInv

LEMMA FollowStep ==
  ASSUME DefaultRange, FollowInv, [Next]_systemVars
  PROVE  FollowInv'
<1>1. Base' /\ IdleInv' /\ TypeOK /\ panel \in [Displays -> Nat]
  BY BaseStep, IdleStep DEF FollowInv, Base, TypeOK, WorkerTypeOK
<1>2. CASE EngineNext /\ UNCHANGED workerVars
  <2>1. NumberInv'
    BY <1>1, <1>2, NumberEngine DEF FollowInv
  <2>2. ScaleInv'
    BY <1>1, <1>2, ScaleEngine DEF FollowInv
  <2>3. AwaitInv'
    BY <1>2, AwaitEngine DEF FollowInv
  <2>4. SteadyInv'
    BY <1>2, SteadyEngine DEF FollowInv, SteadyInv
  <2> QED
    BY <1>1, <2>1, <2>2, <2>3, <2>4 DEF FollowInv
<1>3. ASSUME NEW v \in Workers, WorkerStep(v), UNCHANGED engineVars
      PROVE  FollowInv'
  <2>1. NumberInv' /\ ScaleInv'
    BY <1>1, <1>3, NumberWorker, ScaleWorker DEF FollowInv
  <2>2. UNCHANGED <<phase, workers, pending_learn, poll_gets>>
    BY <1>3 DEF engineVars, loopVars, opVars, healthVars
  <2>3. AwaitInv'
    BY <2>2 DEF FollowInv, AwaitInv, AwaitsReading, HasWorker
  <2>4. SteadyInv'
    BY <1>3, <2>2, SteadyWorker DEF FollowInv, SteadyInv, IsRegistered
  <2> QED
    BY <1>1, <2>1, <2>3, <2>4 DEF FollowInv
<1>4. ASSUME NEW e \in Displays, OutsideChange(e), UNCHANGED engineVars
      PROVE  FollowInv'
  <2>1. UNCHANGED <<channels, local>> /\ disturbed' = disturbed \cup {e}
    BY <1>4 DEF OutsideChange
  <2>2. \A d \in Displays : panel'[d] = panel[d] \/ d \in disturbed'
    BY <1>1, <1>4 DEF OutsideChange
  <2> QED
    BY <1>1, <1>4, <2>1, <2>2, FollowKept DEF FollowInv
<1>5. CASE UNCHANGED <<engineVars, channels, local, panel, disturbed>>
  BY <1>1, <1>5, FollowKept DEF FollowInv
<1> QED
  BY <1>2, <1>3, <1>4, <1>5
     DEF Next, WorkerNext, Terminated, Hang, systemVars, vars, workerVars

LEMMA FollowInvCorrect ==
  ASSUME DefaultRange
  PROVE  Spec => []FollowInv
BY FollowInit, FollowStep, PTL DEF Spec

\* Where a display that is asked nothing is: at its recorded level.
LEMMA ArrivedAt ==
  ASSUME FollowInv, NEW w \in Workers, IsRegistered(w), w[1] \notin disturbed,
         records[w[1]].level # NoLevel, Receiving(w) \/ w[1] \in poll_gets,
         NoSets(inbox[w]), Slot(local[w]) = NoPending, ~IsWriting(local[w])
  PROVE  raw_to_pct(panel[w[1]], 100) = records[w[1]].level
<1>1. Follows(inbox[w], local[w], panel[w[1]], records[w[1]].level)
  BY DEF FollowInv, SteadyInv, Steady, OnCourse
<1> QED
  BY <1>1 DEF Follows, LastSet, NoSets, Heads

\* A panel follows the level the engine recorded: whatever the commands, the
\* replugs, the hung and the retired workers, once nothing is queued, under way
\* or unread for a display, its panel is where the last level asked for puts it.
\* For panels of the default range: a level set before the first reading is
\* scaled by the default maximum, which is what another panel would not want.
THEOREM PanelsFollowTheLevel == DefaultRange => (Spec => []PanelFollowsLevel)
<1> SUFFICES ASSUME DefaultRange
             PROVE  Spec => []PanelFollowsLevel
  OBVIOUS
<1>1. FollowInv => PanelFollowsLevel
  <2> SUFFICES ASSUME FollowInv,
                      NEW d \in Displays, Quiet(d), d \notin disturbed, records[d].level # NoLevel
               PROVE  raw_to_pct(panel[d], PanelMax[d]) = records[d].level
    BY DEF PanelFollowsLevel
  <2> DEFINE w == Registered(d)
  <2>1. HasWorker(d) /\ Receiving(w)
    BY DEF Quiet, Reachable
  <2>2. w \in Workers /\ w[1] = d /\ IsRegistered(w)
    <3>1. workers[d] \in 1 .. MaxGen
      BY <2>1, MaxGenAssumption DEF HasWorker, NoWorker, FollowInv, Base, TypeOK, EngineTypeOK
    <3> QED
      BY <3>1 DEF Registered, Workers, IsRegistered
  <2>3. NoSets(inbox[w]) /\ ~IsWriting(local[w])
    BY DEF Quiet, At, NoSets, IsWriting
  <2>4. Slot(local[w]) = NoPending
    BY DEF Quiet, Queued, Slot, Feature, At
  <2> HIDE DEF w
  <2> QED
    BY <2>1, <2>2, <2>3, <2>4, ArrivedAt DEF DefaultRange
<1> QED
  BY <1>1, FollowInvCorrect, PTL

\* A panel nobody disturbed is within its range: every controller clamps.
RangeInv == \A d \in Displays : d \notin disturbed => panel[d] <= PanelMax[d]

\* A worker moves its own panel only, to what it writes.
LEMMA PanelLands ==
  ASSUME TypeOK, NEW v \in Workers, WorkerStep(v), NEW d \in Displays
  PROVE  \/ panel'[d] = panel[d]
         \/ /\ d = v[1] /\ IsWriting(local[v])
            /\ panel'[d] = Clamped(d, local[v].write.raw)
<1>1. panel \in [Displays -> Nat]
  BY DEF TypeOK, WorkerTypeOK
<1>2. CASE FinishWrite(v)
  <2>1. local[v].pc = "writing" /\ \E result : Lands(v, result)
    BY <1>2 DEF FinishWrite, At
  <2>2. \/ panel' = panel
        \/ /\ local[v].feature = "Brightness"
           /\ panel' = [panel EXCEPT ![v[1]] = Clamped(v[1], local[v].write.raw)]
    BY <2>1 DEF Lands
  <2> QED
    BY <1>1, <2>1, <2>2 DEF IsWriting
<1>3. FinishWrite(v) \/ UNCHANGED panel
  BY DEF WorkerStep, Starts, Waits, Performs, Verifies, Open, OpenFails, Absorb, GapElapses,
     Disconnected, PerformRead, BeginWrites, VerifyMoot, VerifyRead, WorkerFrame
<1> QED
  BY <1>2, <1>3

LEMMA ClampedInRange ==
  ASSUME NEW d \in Displays, NEW raw \in Nat
  PROVE  Clamped(d, raw) <= PanelMax[d] /\ (raw <= PanelMax[d] => Clamped(d, raw) = raw)
BY WorkerAssumption DEF Clamped

LEMMA RangeStep ==
  ASSUME TypeOK, RangeInv, [Next]_systemVars
  PROVE  RangeInv'
<1>1. panel \in [Displays -> Nat]
  BY DEF TypeOK, WorkerTypeOK
<1>2. ASSUME NEW v \in Workers, WorkerStep(v)
      PROVE  RangeInv'
  <2>1. ASSUME NEW d \in Displays PROVE panel'[d] = panel[d] \/ panel'[d] <= PanelMax[d]
    <3>1. local[v].write.raw \in Nat
      BY ReadyTyped, LatestTyped
    <3> QED
      BY <1>2, <3>1, PanelLands, ClampedInRange
  <2> QED
    BY <1>2, <2>1, PanelMoves DEF RangeInv
<1>3. ASSUME NEW e \in Displays, OutsideChange(e)
      PROVE  RangeInv'
  BY <1>1, <1>3 DEF OutsideChange, RangeInv
<1>4. CASE UNCHANGED <<panel, disturbed>>
  BY <1>4 DEF RangeInv
<1> QED
  BY <1>2, <1>3, <1>4 DEF Next, WorkerNext, Terminated, Hang, systemVars, workerVars

LEMMA RangeCorrect ==
  ASSUME StartInRange
  PROVE  Spec => []RangeInv
<1>1. Init => RangeInv
  BY DEF Init, WorkerInit, RangeInv, StartInRange
<1> QED
  BY <1>1, SystemTypeCorrect, RangeStep, PTL DEF Spec

\* What a user sees move in the panel was never moved by Duja: a polled reading
\* about to be reported as LevelRead, and recorded over the user's own level, is
\* of a panel that something else moved -- never a reading taken half way
\* through Duja's own writes, of a retired worker, or from before a replug.
THEOREM OwnWritesAreNeverEchoed == DefaultRange /\ StartInRange => (Spec => []NoEcho)
<1> SUFFICES ASSUME DefaultRange, StartInRange
             PROVE  Spec => []NoEcho
  OBVIOUS
<1>1. FollowInv /\ RangeInv => NoEcho
  <2> SUFFICES ASSUME FollowInv, RangeInv, AboutToReflect, ack.id \notin disturbed
               PROVE  FALSE
    BY DEF NoEcho
  <2> DEFINE d == ack.id
             w == Registered(d)
             level == records[d].level
  <2>1. /\ TypeOK /\ phase = "running" /\ ack.outcome = "Get" /\ ack.ok /\ IsPollReading
        /\ Fresh(d, "Get", ack.seq) /\ ~AtWrittenLevel
    BY DEF FollowInv, Base, AboutToReflect, Reflects
  <2>2. ack \in Unread /\ ack \in WorkerAck /\ d \in Displays
    <3>1. acks \in Seq(WorkerAck) /\ acks # <<>>
      BY <2>1 DEF TypeOK, EngineTypeOK, ProtocolTypeOK, AboutToReflect
    <3>2. 1 \in DOMAIN acks /\ ack = acks[1]
      BY <3>1 DEF ack
    <3>3. acks[1] \in WorkerAck /\ acks[1] \in Unread
      BY <3>1, <3>2 DEF Unread
    <3> QED
      BY <3>2, <3>3 DEF WorkerAck
  <2>3. HasWorker(d)
    <3>1. d \in Watched
      BY <2>1, <2>2 DEF Watched, Fresh, InflightKey
    <3> QED
      BY <2>1, <2>2, <3>1 DEF FollowInv, Base, HealthInv, Healthy
  <2>4. w \in Workers /\ w[1] = d /\ IsRegistered(w)
    BY <2>1, <2>2, <2>3, MaxGenAssumption
       DEF TypeOK, EngineTypeOK, HasWorker, NoWorker, Registered, Workers, IsRegistered
  <2>5. d \notin pending_learn /\ d \in poll_gets /\ AwaitsReading(d)
    BY <2>1 DEF IsPollReading, AwaitsReading
  <2>6. Steady(w)
    BY <2>4 DEF FollowInv, SteadyInv
  <2>7. /\ level # NoLevel /\ Idle(w) /\ ack.current = panel[d]
    BY <2>1, <2>2, <2>4, <2>5, <2>6 DEF Steady, Learned, Undisputed, ReadsTrue
  <2>8. raw_to_pct(panel[d], 100) = level
    BY <2>1, <2>4, <2>5, <2>7, IdleHasNothing, ArrivedAt
  <2>9. /\ panel[d] \in Nat /\ panel[d] <= 100 /\ ack.max = 100
    BY <2>1, <2>2 DEF FollowInv, ScaleInv, RangeInv, DefaultRange, TypeOK, WorkerTypeOK
  <2>10. raw_to_pct(panel[d], 100) = panel[d] /\ pct_to_raw(panel[d], 100) = panel[d]
    BY <2>9, ToRaw
  <2>11. Distance(ack.current, pct_to_raw(level, ack.max)) = 0
    BY <2>7, <2>8, <2>9, <2>10 DEF Distance
  <2> QED
    BY <2>1, <2>7, <2>11 DEF AtWrittenLevel
<1> QED
  BY <1>1, FollowInvCorrect, RangeCorrect, PTL

-----------------------------------------------------------------------------
(* Where a value comes from.  A reading becomes a level, a level a write,  *)
(* and a write the next reading: on panels of the default range no value   *)
(* is lost or made up on the way.                                          *)

\* What a panel starts at, what somebody sets it to, what a user picks.
Origins == {PanelStart[d] : d \in Displays} \cup OutsideLevels \cup Levels

OriginsInRange == DefaultRange /\ Origins \subseteq 0 .. 100

AsksOrigins(w) ==
  /\ \A i \in DOMAIN inbox[w] : inbox[w][i].op = "Brightness" => inbox[w][i].raw \in Origins
  /\ Slot(local[w]) # NoPending => Slot(local[w]).raw \in Origins
  /\ IsWriting(local[w]) => local[w].write.raw \in Origins

OriginInv ==
  /\ \A d \in Displays :
       panel[d] \in Origins /\ (records[d].level # NoLevel => records[d].level \in Origins)
  /\ \A w \in Workers : AsksOrigins(w)
  /\ \A m \in Unread : m.outcome = "Get" /\ m.ok => m.current \in Origins

\* A recorded level was there before, or a user picked it, or it was read.
LEMMA LevelMoves ==
  ASSUME TypeOK, EngineNext, NEW d \in Displays, records'[d].level # records[d].level
  PROVE  \/ records'[d].level \in Levels
         \/ \E m \in Unread : /\ m.outcome = "Get" /\ m.ok
                              /\ records'[d].level = raw_to_pct(m.current, m.max)
<1>1. records \in [Displays -> DisplayRecord] /\ acks \in Seq(WorkerAck)
  BY DEF TypeOK, EngineTypeOK, ProtocolTypeOK
<1>2. ASSUME NEW r \in DisplayRecord
      PROVE  /\ \A pct : RecordUserLevel(r, pct).level \in {r.level, pct}
             /\ MarkUnresponsive(r).level = r.level
             /\ ClearSoftwareForced(r).level = r.level
             /\ MarkSoftwareOnly(r).level = r.level
  BY DEF DisplayRecord, RecordUserLevel, MarkUnresponsive, ClearSoftwareForced, MarkSoftwareOnly
<1>3. ASSUME NEW ids, surface_unresponsive(ids) PROVE FALSE
  BY <1>1, <1>2, <1>3 DEF surface_unresponsive
<1>4. CASE Enumerates
  <2>1. PICK seen : refresh(seen)
    BY <1>4 DEF Enumerates, Startup, DebounceFires, RefreshNow
  <2>2. records'[d] = ApplyEnumeration(records[d], d \in seen) /\ (d \in seen) \in BOOLEAN
    BY <2>1 DEF refresh
  <2>3. ApplyEnumeration(records[d], d \in seen).level = records[d].level
    BY <1>1, <2>2, SightedLevel, Zenon
  <2> QED
    BY <2>2, <2>3
<1>5. CASE PlatformEvent \/ AppCommand
  <2>1. \/ UNCHANGED records
        \/ \E e \in Displays, pct \in Levels : SetUserLevel(e, pct)
    BY <1>5 DEF PlatformEvent, AppCommand, SetInput, SetLevelPolling, ShutDown
  <2>2. \/ UNCHANGED records
        \/ \E e \in Displays, pct \in Levels :
             records' = [records EXCEPT ![e] = RecordUserLevel(@, pct)]
    BY <2>1 DEF SetUserLevel
  <2> QED
    BY <1>1, <1>2, <2>2
<1>6. CASE Timer
  BY <1>3, <1>6 DEF Timer, PollLevels, WatchdogFires, mark_stuck
<1>7. CASE AckPanicked \/ AckOpenFailed
  BY <1>3, <1>7 DEF AckPanicked, AckOpenFailed, mark_stuck
<1>8. CASE AckSet \/ AckGetUnusable \/ AckGetNoted
  BY <1>8 DEF AckSet, AckGetUnusable, AckGetNoted
<1>9. CASE AckGetLearned \/ AckPollReflects
  <2>1. /\ acks # <<>> /\ acks' = Tail(acks) /\ ack.outcome = "Get" /\ ack.ok
        /\ records' = [records EXCEPT ![ack.id] = RecordUserLevel(@, ReadingPct)]
    BY <1>9 DEF AckGetLearned, AckPollReflects, TakeReading, Receive
  <2>2. ack \in Unread
    BY <1>1, <2>1, UnreadReceived
  <2>3. records'[d].level = ReadingPct
    BY <1>1, <1>2, <2>1
  <2> QED
    BY <2>1, <2>2, <2>3 DEF ReadingPct
<1>10. CASE AckPollHeals
  <2>1. records' = [records EXCEPT ![ack.id] = ClearSoftwareForced(@)]
    BY <1>10 DEF AckPollHeals
  <2> QED
    BY <1>1, <1>2, <2>1
<1>11. CASE AckSoftwareFallback
  BY <1>1, <1>2, <1>11 DEF AckSoftwareFallback
<1> QED
  BY <1>4, <1>5, <1>6, <1>7, <1>8, <1>9, <1>10, <1>11 DEF EngineNext, HandleAck

LEMMA OriginEngine ==
  ASSUME OriginsInRange, TypeOK, ScaleInv, OriginInv, EngineNext, UNCHANGED workerVars
  PROVE  OriginInv'
<1>1. /\ records \in [Displays -> DisplayRecord]
      /\ inbox \in [Workers -> Seq(WorkerCommand)]
      /\ panel' = panel /\ local' = local
  BY DEF TypeOK, EngineTypeOK, ProtocolTypeOK, workerVars
<1>2. \A m \in Unread' : m.outcome = "Get" /\ m.ok => m.current \in Origins
  BY EngineReads DEF OriginInv
<1>3. ASSUME NEW d \in Displays
      PROVE  panel'[d] \in Origins /\ (records'[d].level # NoLevel => records'[d].level \in Origins)
  <2>1. ASSUME NEW m \in Unread, m.outcome = "Get", m.ok
        PROVE  raw_to_pct(m.current, m.max) \in Origins
    <3>1. m.current \in Origins /\ m.current \in 0 .. 100 /\ m.max = 100
      BY <2>1 DEF OriginInv, OriginsInRange, ScaleInv
    <3> QED
      BY <3>1, ToRaw
  <2>2. Levels \subseteq Origins
    BY DEF Origins
  <2> QED
    BY <1>1, <2>1, <2>2, LevelMoves DEF OriginInv
<1>4. ASSUME NEW raw, NEW d \in Displays, IsScaled(raw, d)
      PROVE  raw \in Origins
  <2>1. PICK pct \in 0 .. 100 : /\ pct \in Levels \/ pct = records[d].level
                                /\ raw = pct_to_raw(pct, 100)
    BY <1>4 DEF IsScaled, ScaleInv
  <2>2. pct \in Origins
    BY <2>1 DEF OriginInv, Origins, NoLevel
  <2> QED
    BY <2>1, <2>2, ToRaw
<1>5. ASSUME NEW w \in Workers
      PROVE  AsksOrigins(w)'
  <2>1. w[1] \in Displays /\ AsksOrigins(w) /\ inbox[w] \in Seq(WorkerCommand)
    BY <1>1 DEF Workers, OriginInv
  <2>2. \A i \in DOMAIN inbox'[w] : inbox'[w][i].op = "Brightness" => inbox'[w][i].raw \in Origins
    <3>1. CASE inbox'[w] = inbox[w]
      BY <2>1, <3>1 DEF AsksOrigins
    <3>2. CASE inbox'[w] # inbox[w]
      <4>1. PICK c : /\ inbox'[w] = <<c>> \/ inbox'[w] = Append(inbox[w], c)
                     /\ c.op = "Brightness" => c.raw \in Origins
        BY <1>4, <2>1, <3>2, EngineAsks
      <4>2. \A i \in DOMAIN inbox'[w] :
              inbox'[w][i] = c \/ (i \in DOMAIN inbox[w] /\ inbox'[w][i] = inbox[w][i])
        BY <2>1, <4>1, AppendedCases
      <4> QED
        BY <2>1, <4>1, <4>2 DEF AsksOrigins
    <3> QED
      BY <3>1, <3>2
  <2> QED
    BY <1>1, <2>1, <2>2 DEF AsksOrigins
<1> QED
  BY <1>2, <1>3, <1>5 DEF OriginInv

LEMMA OriginTurn ==
  ASSUME TypeOK, NEW w \in Workers, Turns(w), AsksOrigins(w)
  PROVE  AsksOrigins(w)'
<1>1. inbox[w] \in Seq(WorkerCommand) /\ "Brightness" \in Feature
  BY ReadyTyped DEF Feature
<1>2. CASE Leaves(w)
  BY <1>2, NewLocalsIdle DEF Leaves, AsksOrigins, NewLocals, Slot, IsWriting, Feature
<1>3. CASE Drains(w)
  <2>1. Slot(local'[w]) = Slot(local[w])
        \/ \E i \in DOMAIN inbox[w] : /\ inbox[w][i].op = "Brightness"
                                      /\ Slot(local'[w]).raw = inbox[w][i].raw
    BY <1>1, <1>3, NewestCases DEF Drains
  <2> QED
    BY <1>3, <2>1 DEF Drains, AsksOrigins
<1>4. CASE GoesOn(w)
  BY <1>4 DEF GoesOn, Rests, Takes, AsksOrigins
<1>5. CASE Writes(w)
  BY <1>5 DEF Writes, Rests, AsksOrigins
<1> QED
  BY <1>2, <1>3, <1>4, <1>5 DEF Turns

LEMMA OriginWorker ==
  ASSUME OriginsInRange, TypeOK, NumberInv, OriginInv, NEW v \in Workers, WorkerStep(v),
         UNCHANGED engineVars
  PROVE  OriginInv'
<1>1. Turns(v) /\ Typed(v) /\ UNCHANGED records /\ v[1] \in Displays
  BY WorkerTurns, WorkerStepType, ReadyTyped DEF NumberInv, engineVars
<1>2. ASSUME NEW d \in Displays
      PROVE  panel'[d] \in Origins
  <2>1. CASE panel'[d] = panel[d]
    BY <2>1 DEF OriginInv
  <2>2. CASE IsWriting(local[v]) /\ panel'[d] = Clamped(d, local[v].write.raw)
    <3>1. local[v].write.raw \in Origins
      BY <2>2 DEF OriginInv, AsksOrigins
    <3>2. local[v].write.raw \in 0 .. 100 /\ PanelMax[d] = 100
      BY <3>1, Zenon DEF OriginsInRange, DefaultRange
    <3> QED
      BY <2>2, <3>1, <3>2, ClampedInRange
  <2> QED
    BY <2>1, <2>2, PanelLands
<1>3. ASSUME NEW w \in Workers
      PROVE  AsksOrigins(w)'
  <2>1. CASE w = v
    BY <1>1, <2>1, OriginTurn DEF OriginInv
  <2>2. CASE w # v
    <3>1. inbox'[w] = inbox[w] /\ local'[w] = local[w]
      BY <1>1, <2>2, WorkerWire
    <3> QED
      BY <3>1 DEF OriginInv, AsksOrigins
  <2> QED
    BY <2>1, <2>2
<1>4. ASSUME NEW m \in Unread', m.outcome = "Get", m.ok
      PROVE  m.current \in Origins
  BY <1>1, <1>4 DEF Turns, Says, OriginInv
<1> QED
  BY <1>1, <1>2, <1>3, <1>4 DEF OriginInv

LEMMA OriginStep ==
  ASSUME OriginsInRange, FollowInv, OriginInv, [Next]_systemVars
  PROVE  OriginInv'
<1>1. TypeOK /\ ScaleInv /\ NumberInv /\ panel \in [Displays -> Nat]
  BY DEF FollowInv, Base, TypeOK, WorkerTypeOK
<1>2. CASE EngineNext /\ UNCHANGED workerVars
  BY <1>1, <1>2, OriginEngine
<1>3. ASSUME NEW v \in Workers, WorkerStep(v), UNCHANGED engineVars
      PROVE  OriginInv'
  BY <1>1, <1>3, OriginWorker
<1>4. ASSUME UNCHANGED <<engineVars, channels, local>>,
             \A d \in Displays : panel'[d] \in Origins
      PROVE  OriginInv'
  <2>1. UNCHANGED <<records, inbox, local, acks>> /\ Unread' = Unread
    BY <1>4, UnreadSame DEF engineVars, channels
  <2> QED
    BY <1>4, <2>1 DEF OriginInv, AsksOrigins
<1>5. ASSUME NEW e \in Displays, OutsideChange(e), UNCHANGED engineVars
      PROVE  OriginInv'
  <2>1. UNCHANGED <<channels, local>>
    BY <1>5 DEF OutsideChange
  <2>2. PICK raw \in OutsideLevels : panel' = [panel EXCEPT ![e] = raw]
    BY <1>5 DEF OutsideChange
  <2>3. \A d \in Displays : panel'[d] \in Origins
    BY <1>1, <2>2 DEF OriginInv, Origins
  <2> QED
    BY <1>4, <1>5, <2>1, <2>3
<1>6. CASE UNCHANGED <<engineVars, channels, local, panel>>
  BY <1>4, <1>6 DEF OriginInv
<1> QED
  BY <1>2, <1>3, <1>5, <1>6
     DEF Next, WorkerNext, Terminated, Hang, systemVars, vars, workerVars

\* No driver is asked for a value that is made up: on panels of the default
\* range every brightness that is written, that a panel takes and that is
\* recorded is one that a user picked, that somebody set, or that a panel had
\* when it came, whichever way it went round through readings and levels.
THEOREM NoValueIsMadeUp == OriginsInRange => (Spec => []OriginInv)
<1> SUFFICES ASSUME OriginsInRange
             PROVE  Spec => []OriginInv
  OBVIOUS
<1>1. DefaultRange
  BY DEF OriginsInRange
<1>2. Init => OriginInv
  <2> SUFFICES ASSUME Init PROVE OriginInv
    OBVIOUS
  <2>1. /\ Unread = {} /\ panel = PanelStart
        /\ \A d \in Displays : records[d].level = NoLevel
        /\ \A w \in Workers : local[w] = NewLocals /\ inbox[w] = <<>>
    BY DEF Init, EngineInit, ProtocolInit, WorkerInit, Unread, Unknown
  <2>2. \A w \in Workers : AsksOrigins(w)
    BY <2>1, NewLocalsIdle DEF AsksOrigins, NewLocals, Slot, IsWriting, Feature
  <2> QED
    BY <2>1, <2>2 DEF OriginInv, Origins
<1>3. Spec => []FollowInv
  BY <1>1, FollowInvCorrect
<1>4. FollowInv /\ OriginInv /\ [Next]_systemVars => OriginInv'
  BY OriginStep
<1> QED
  BY <1>2, <1>3, <1>4, PTL DEF Spec

=============================================================================
