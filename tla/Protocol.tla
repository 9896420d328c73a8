------------------------------ MODULE Protocol ------------------------------
(***************************************************************************)
(* The wire between the engine thread and its per-monitor worker threads   *)
(* (crates/duja-app/src/protocol.rs, and WorkerHandle in worker.rs): one   *)
(* FIFO command channel per worker, one FIFO ack channel shared by all of  *)
(* them, and the "retired" flag the engine flips when it detaches one.     *)
(*                                                                         *)
(* A worker is named by its display and its generation.  The engine's      *)
(* counters of generations and sequence numbers are global in the code;    *)
(* they are only ever compared within one display, so they count per       *)
(* display here.                                                           *)
(***************************************************************************)
EXTENDS Integers, Sequences

CONSTANTS
  Displays,   \* the stable display ids, in any state of connection
  MaxGen      \* bound: generations of worker a display may have

ASSUME MaxGenAssumption == MaxGen \in Nat \ {0}

Workers == Displays \X (1 .. MaxGen)

\* VCP features the app writes; Brightness is also read.
Feature == {"Brightness", "InputSource"}

\* Set(f) is named by its feature: no other operation shares the name.
InflightKey == Feature \cup {"Get"}

NoSeq == 0                   \* "no entry": sequence numbers start at 1
SeqNo == Nat \ {NoSeq}

-----------------------------------------------------------------------------

\* WorkerCommand.  raw is meaningful for a Set only; key tells Set(f) from Get.
WorkerCommand == [op : InflightKey \cup {"Shutdown"}, raw : Nat, seq : Nat]

SetCommand(feature, raw, seq) == [op |-> feature, raw |-> raw, seq |-> seq]
GetCommand(seq)               == [op |-> "Get", raw |-> 0, seq |-> seq]
ShutdownCommand               == [op |-> "Shutdown", raw |-> 0, seq |-> NoSeq]

\* WorkerAck: who sent it (display and generation) and the outcome.  The
\* generation of a Set or a Get ack is never looked at: seq matches those.
WorkerAck ==
  [id : Displays, generation : 1 .. MaxGen,
   outcome : {"Set", "Get", "Panicked", "OpenFailed", "SoftwareFallback"},
   key : InflightKey, seq : Nat, ok : BOOLEAN, current : Nat, max : Nat]

Ack(w, outcome, key, seq) ==
  [id |-> w[1], generation |-> w[2], outcome |-> outcome,
   key |-> key, seq |-> seq, ok |-> TRUE, current |-> 0, max |-> 0]

SetAck(w, feature, seq)      == Ack(w, "Set", feature, seq)
\* Seeded bug: a panic that does not say which worker it was (as the protocol
\* once did not).
PanickedUntagged(w, key, seq) == [Ack(w, "Panicked", key, seq) EXCEPT !.generation = 0]

Panicked(w, key, seq)        == Ack(w, "Panicked", key, seq)
OpenFailed(w)                == Ack(w, "OpenFailed", "Get", NoSeq)
SoftwareFallback(w)          == Ack(w, "SoftwareFallback", "Get", NoSeq)
GetFailed(w, seq)            == [Ack(w, "Get", "Get", seq) EXCEPT !.ok = FALSE]
GetAck(w, seq, current, max) ==
  [Ack(w, "Get", "Get", seq) EXCEPT !.current = current, !.max = max]

-----------------------------------------------------------------------------

VARIABLES
  inbox,     \* the command channel of each worker
  acks,      \* the ack channel into the engine
  retired,   \* the flag the engine flips when it drops a worker's handle
  thread     \* the worker's thread: "none", "running" or "exited"

channels == <<inbox, acks, retired, thread>>

ProtocolTypeOK ==
  /\ inbox \in [Workers -> Seq(WorkerCommand)]
  /\ acks \in Seq(WorkerAck)
  /\ retired \in [Workers -> BOOLEAN]
  /\ thread \in [Workers -> {"none", "running", "exited"}]

ProtocolInit ==
  /\ inbox   = [w \in Workers |-> <<>>]
  /\ acks    = <<>>
  /\ retired = [w \in Workers |-> FALSE]
  /\ thread  = [w \in Workers |-> "none"]

\* A send reaches the worker only while its thread holds the receiver.
Receiving(w) == thread[w] = "running"

=============================================================================
