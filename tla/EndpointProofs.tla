--------------------------- MODULE EndpointProofs ---------------------------
(***************************************************************************)
(* The endpoint of the application for any number of processes and of      *)
(* inodes: the instance guard covers the socket whatever fails, and where  *)
(* a full backlog is not mistaken for a dead socket and an inode can be    *)
(* pinned, a serving endpoint is reachable and only the dead are unlinked. *)
(***************************************************************************)
EXTENDS IpcEndpoint, TLAPS

TypeInv ==
  /\ pc \in [Proc -> Labels]
  /\ entry \in Ino \union {NoIno}
  /\ sock \in [Proc -> Ino \union {NoIno}]
  /\ listening \in SUBSET Proc
  /\ identity \in [Proc -> Ino \union {NoIno}]
  /\ pin \in [Proc -> Ino \union {NoIno}]
  /\ bindLock \in Proc \union {NoProc} /\ guard \in Proc \union {NoProc}
  /\ unguarded \in SUBSET Proc /\ quitting \in SUBSET Proc

\* The bind lock is held exactly by the process that binds or unlinks.
LockInv == \A p \in Proc : bindLock = p <=> pc[p] \in Binding \union Unlinking

\* A process at work holds the guard or was let in without it, and only such a
\* process has a socket, which it has closed before it leaves.
Active == Labels \ {"off", "guard", "await", "handoff"}

Holding == {"listen", "identify", "setup", "serving", "retract", "compare", "unlink"}

GuardInv ==
  \A p \in Proc :
    /\ pc[p] \in Active => guard = p \/ p \in unguarded
    /\ sock[p] # NoIno => pc[p] \in Holding
    /\ p \in listening \/ pc[p] = "listen" => sock[p] # NoIno

LEMMA TypeInit == Init => TypeInv
PROOF BY DEF Init, TypeInv, Labels

LEMMA LockInit == Init => LockInv
PROOF BY EndpointAssumption DEF Init, LockInv, Binding, Unlinking

LEMMA GuardInit == Init => GuardInv
PROOF BY EndpointAssumption DEF Init, GuardInv, Active

LEMMA TypeNext == TypeInv /\ [Next]_vars => TypeInv'
PROOF
<1> SUFFICES ASSUME TypeInv, [Next]_vars PROVE TypeInv'
  OBVIOUS
<1> USE DEF TypeInv
<1>1. CASE UNCHANGED vars
  BY <1>1 DEF vars
<1>2. ASSUME NEW p \in Proc, Launch(p) \/ Second(p) \/ HandOff(p) \/ Serve(p)
      PROVE  TypeInv'
  BY <1>2 DEF Launch, Second, HandOff, Serve, kernelVars, processVars, Labels, Running
<1>3. ASSUME NEW p \in Proc, First(p) \/ Takeover(p)
      PROVE  TypeInv'
  BY <1>3 DEF First, Takeover, TakesGuard, Labels
<1>4. ASSUME NEW p \in Proc, GiveUp(p), entry' \in {entry, NoIno}
      PROVE  TypeInv'
  BY <1>4 DEF GiveUp, After, Labels, Running
<1>5. ASSUME NEW p \in Proc, TakeLock(p)
      PROVE  TypeInv'
  BY <1>5 DEF TakeLock, processVars, Labels, Binding, Unlinking
<1>6. ASSUME NEW p \in Proc, BindInode(p)
      PROVE  TypeInv'
  BY <1>6 DEF BindInode, Free, processVars, Labels, Binding
<1>7. ASSUME NEW p \in Proc, Bind(p) \/ Probe(p) \/ Inspect(p) \/ Compare(p),
             ~BindInode(p), ~GiveUp(p)
      PROVE  TypeInv'
  BY <1>7 DEF Bind, Probe, Inspect, Compare, kernelVars, processVars, Labels, Binding, Unlinking
<1>8. ASSUME NEW p \in Proc, Listen(p) \/ Remove(p) \/ Identify(p)
      PROVE  TypeInv'
  BY <1>8 DEF Listen, Remove, Identify, Pinned, processVars, Labels, Binding
<1>9. ASSUME NEW p \in Proc, SetupFails(p) \/ HandlersDie(p)
      PROVE  TypeInv'
  BY <1>9 DEF SetupFails, HandlersDie, Closed, processVars, Labels, Running
<1>10. ASSUME NEW p \in Proc, Quit(p)
       PROVE  TypeInv'
  BY <1>10 DEF Quit, Quits, Closed, Stopped, Labels, Running
<1>11. ASSUME NEW p \in Proc, NEW q \in Proc, Restart(p, q)
       PROVE  TypeInv'
  BY <1>11 DEF Restart, Quits, Closed, Stopped, Labels, Running
<1>12. ASSUME NEW p \in Proc, Leave(p) \/ Die(p)
       PROVE  TypeInv'
  BY <1>12 DEF Leave, Die, Closed, Released, Labels
<1>13. ASSUME NEW p \in Proc, NoLock(p) \/ BindFails(p) \/ Unlink(p)
       PROVE  GiveUp(p) /\ entry' \in {entry, NoIno}
  BY <1>13 DEF NoLock, BindFails, Unlink
<1>14. ASSUME NEW p \in Proc, Bind(p) \/ Probe(p) \/ Inspect(p) \/ Compare(p), GiveUp(p)
       PROVE  entry' = entry \/ BindInode(p)
  BY <1>14 DEF Bind, Probe, Inspect, Compare, kernelVars
<1> QED
  BY <1>1, <1>2, <1>3, <1>4, <1>5, <1>6, <1>7, <1>8, <1>9, <1>10, <1>11, <1>12, <1>13, <1>14
     DEF Next, Advance, Rebind

LEMMA LockNext == TypeInv /\ LockInv /\ [Next]_vars => LockInv'
PROOF
<1> SUFFICES ASSUME TypeInv, LockInv, [Next]_vars PROVE LockInv'
  OBVIOUS
<1> USE EndpointAssumption DEF TypeInv, LockInv
<1>1. CASE UNCHANGED vars
  BY <1>1 DEF vars
<1>2. ASSUME NEW p \in Proc, Launch(p) \/ Second(p) \/ HandOff(p) \/ Serve(p)
      PROVE  LockInv'
  BY <1>2 DEF Launch, Second, HandOff, Serve, kernelVars, Binding, Unlinking
<1>3. ASSUME NEW p \in Proc, First(p) \/ Takeover(p)
      PROVE  LockInv'
  BY <1>3 DEF First, Takeover, Binding, Unlinking
<1>4. ASSUME NEW p \in Proc, GiveUp(p)
      PROVE  LockInv'
  BY <1>4 DEF GiveUp, After, Binding, Unlinking
<1>5. ASSUME NEW p \in Proc, TakeLock(p)
      PROVE  LockInv'
  BY <1>5 DEF TakeLock, Binding, Unlinking
<1>6. ASSUME NEW p \in Proc, Bind(p) \/ Rebind(p) \/ Probe(p) \/ Inspect(p) \/ Compare(p),
             ~GiveUp(p)
      PROVE  LockInv'
  BY <1>6 DEF Bind, Rebind, BindInode, Probe, Inspect, Compare, kernelVars, Binding, Unlinking
<1>7. ASSUME NEW p \in Proc, Listen(p) \/ Remove(p) \/ Identify(p)
      PROVE  LockInv'
  BY <1>7 DEF Listen, Remove, Identify, Binding, Unlinking
<1>8. ASSUME NEW p \in Proc, SetupFails(p) \/ HandlersDie(p)
      PROVE  LockInv'
  BY <1>8 DEF SetupFails, HandlersDie, Binding, Unlinking
<1>9. ASSUME NEW p \in Proc, Quit(p)
      PROVE  LockInv'
  BY <1>9 DEF Quit, Quits, Stopped, Running, Binding, Unlinking
<1>10. ASSUME NEW p \in Proc, NEW q \in Proc, Restart(p, q)
       PROVE  LockInv'
  BY <1>10 DEF Restart, Quits, Stopped, Running, Binding, Unlinking
<1>11. ASSUME NEW p \in Proc, Leave(p) \/ Die(p)
       PROVE  LockInv'
  BY <1>11 DEF Leave, Die, Binding, Unlinking
<1>12. ASSUME NEW p \in Proc, NoLock(p) \/ BindFails(p) \/ Unlink(p)
       PROVE  GiveUp(p)
  BY <1>12 DEF NoLock, BindFails, Unlink
<1> QED
  BY <1>1, <1>2, <1>3, <1>4, <1>5, <1>6, <1>7, <1>8, <1>9, <1>10, <1>11, <1>12
     DEF Next, Advance

LEMMA GuardNext == TypeInv /\ GuardInv /\ [Next]_vars => GuardInv'
PROOF
<1> SUFFICES ASSUME TypeInv, GuardInv, [Next]_vars PROVE GuardInv'
  OBVIOUS
<1> USE EndpointAssumption DEF TypeInv, GuardInv, Active, Holding, Labels, Running, Binding,
        Unlinking
<1>1. CASE UNCHANGED vars
  BY <1>1 DEF vars
<1>2. ASSUME NEW p \in Proc, Launch(p) \/ Second(p) \/ HandOff(p) \/ Serve(p)
      PROVE  GuardInv'
  BY <1>2 DEF Launch, Second, HandOff, Serve, kernelVars, processVars
<1>3. ASSUME NEW p \in Proc, First(p) \/ Takeover(p)
      PROVE  GuardInv'
  BY <1>3 DEF First, Takeover, TakesGuard
<1>4. ASSUME NEW p \in Proc, GiveUp(p), pc[p] \in Active
      PROVE  GuardInv'
  BY <1>4 DEF GiveUp, After
<1>5. ASSUME NEW p \in Proc, TakeLock(p)
      PROVE  GuardInv'
  BY <1>5 DEF TakeLock, processVars
<1>6. ASSUME NEW p \in Proc, Probe(p) \/ Inspect(p) \/ Compare(p), ~GiveUp(p)
      PROVE  GuardInv'
  BY <1>6 DEF Probe, Inspect, Compare, kernelVars, processVars
<1>7. ASSUME NEW p \in Proc, Bind(p) \/ Rebind(p)
      PROVE  GuardInv'
  BY <1>7 DEF Bind, Rebind, BindInode, Free, kernelVars, processVars
<1>8. ASSUME NEW p \in Proc, Remove(p) \/ Identify(p)
      PROVE  GuardInv'
  BY <1>8 DEF Remove, Identify, processVars
<1>9. ASSUME NEW p \in Proc, Listen(p)
      PROVE  GuardInv'
  BY <1>9 DEF Listen, processVars
<1>10. ASSUME NEW p \in Proc, SetupFails(p) \/ HandlersDie(p)
       PROVE  GuardInv'
  BY <1>10 DEF SetupFails, HandlersDie, Closed, processVars
<1>11. ASSUME NEW p \in Proc, Quit(p)
       PROVE  GuardInv'
  BY <1>11 DEF Quit, Quits, Closed, Stopped
<1>12. ASSUME NEW p \in Proc, NEW q \in Proc, Restart(p, q)
       PROVE  GuardInv'
  BY <1>12 DEF Restart, Quits, Closed, Stopped
<1>13. ASSUME NEW p \in Proc, Leave(p) \/ Die(p)
       PROVE  GuardInv'
  BY <1>13 DEF Leave, Die, Closed, Released
<1> QED
  BY <1>1, <1>2, <1>3, <1>4, <1>5, <1>6, <1>7, <1>8, <1>9, <1>10, <1>11, <1>12, <1>13
     DEF Next, Advance, NoLock, BindFails, Unlink, Probe, Inspect, Compare

LEMMA EndpointInductive == Spec => [](TypeInv /\ LockInv /\ GuardInv)
PROOF
<1>1. Init => TypeInv /\ LockInv /\ GuardInv
  BY TypeInit, LockInit, GuardInit
<1>2. TypeInv /\ LockInv /\ GuardInv /\ [Next]_vars => (TypeInv /\ LockInv /\ GuardInv)'
  BY TypeNext, LockNext, GuardNext
<1> QED
  BY <1>1, <1>2, PTL DEF Spec

\* Every variable keeps its type, only open sockets listen, and the bind lock is
\* never left behind by a process that neither binds nor unlinks.
THEOREM EndpointTypeCorrect == Spec => []EndpointTypeOK
PROOF
<1>1. TypeInv /\ LockInv /\ GuardInv => EndpointTypeOK
  BY DEF TypeInv, LockInv, GuardInv, EndpointTypeOK
<1> QED
  BY <1>1, EndpointInductive, PTL

\* Whatever dies and whichever lock cannot be had, a process holding the instance
\* guard shares the socket path only with those that were let in without it.
THEOREM GuardIsLastToGo == Spec => []GuardCoversEndpoint
PROOF
<1>1. TypeInv /\ GuardInv => GuardCoversEndpoint
  BY EndpointAssumption DEF TypeInv, GuardInv, GuardCoversEndpoint, Active, Holding, Labels,
     Binding, Unlinking
<1> QED
  BY <1>1, EndpointInductive, PTL

-----------------------------------------------------------------------------
(* Reachability.  The four parts need each other: the path of a serving      *)
(* socket is removed neither by a takeover, which found that nobody listens, *)
(* nor by a departing server, whose inode is pinned and so is nobody else's. *)

\* A socket is bound once, and named by the path while its server lives.
Bound ==
  \A p \in Proc :
    /\ pc[p] \in {"listen", "identify", "setup", "serving"} => entry = sock[p] /\ sock[p] # NoIno
    /\ pc[p] \in {"identify", "setup", "serving"} => p \in listening
    /\ sock[p] \notin Alien
    /\ \A q \in Proc : sock[p] = sock[q] /\ sock[p] # NoIno => p = q

\* What a takeover has found out stays true until it acts.
Dead ==
  \A p \in Proc :
    /\ pc[p] \in {"inspect", "remove"} => entry # NoIno /\ ~Listens(entry)
    /\ pc[p] = "remove" => entry \notin Alien

\* The inode a server remembers is its own and cannot become another's.
Remembered ==
  \A p \in Proc : identity[p] # NoIno =>
    /\ pin[p] = identity[p] /\ identity[p] \notin Alien
    /\ \A q \in Proc \ {p} : sock[q] # identity[p]

Confirmed == \A p \in Proc : pc[p] = "unlink" => identity[p] # NoIno /\ entry = identity[p]

ReachInv == TypeInv /\ LockInv /\ GuardInv /\ Bound /\ Dead /\ Remembered /\ Confirmed

LEMMA ReachInit == Init => Bound /\ Dead /\ Remembered /\ Confirmed
PROOF BY EndpointAssumption DEF Init, Bound, Dead, Remembered, Confirmed

\* Two processes never are in the sections the bind lock protects.
LEMMA Exclusive ==
  ASSUME LockInv, NEW p \in Proc, NEW q \in Proc,
         pc[p] \in Binding \union Unlinking, pc[q] \in Binding \union Unlinking
  PROVE  p = q
PROOF BY DEF LockInv

LEMMA BoundNext == ReachInv /\ [Next]_vars => Bound'
PROOF
<1> SUFFICES ASSUME ReachInv, [Next]_vars PROVE Bound'
  OBVIOUS
<1> USE EndpointAssumption DEF ReachInv, TypeInv, Bound, Labels, Binding, Unlinking, Running
<1>1. CASE UNCHANGED vars
  BY <1>1 DEF vars
<1>2. ASSUME NEW p \in Proc, Launch(p) \/ Second(p) \/ HandOff(p) \/ Serve(p) \/ First(p)
             \/ Takeover(p) \/ TakeLock(p) \/ Identify(p) \/ Leave(p)
      PROVE  Bound'
  BY <1>2 DEF Launch, Second, HandOff, Serve, First, Takeover, TakeLock, Identify, Leave,
              kernelVars, processVars
<1>3. ASSUME NEW p \in Proc, GiveUp(p), UNCHANGED entry
      PROVE  Bound'
  BY <1>3 DEF GiveUp, After
<1>4. ASSUME NEW p \in Proc, Probe(p) \/ Inspect(p) \/ Compare(p), ~GiveUp(p)
      PROVE  Bound'
  BY <1>4 DEF Probe, Inspect, Compare, kernelVars, processVars
<1>5. ASSUME NEW p \in Proc, BindInode(p), pc[p] \in Binding
      PROVE  Bound'
  BY <1>5 DEF BindInode, Free
<1>6. ASSUME NEW p \in Proc, Bind(p), ~BindInode(p)
      PROVE  Bound'
  BY <1>6 DEF Bind, kernelVars, processVars
<1>7. ASSUME NEW p \in Proc, Listen(p)
      PROVE  Bound'
  BY <1>7 DEF Listen, processVars
<1>8. ASSUME NEW p \in Proc, Remove(p)
      PROVE  Bound'
  <2>1. \A q \in Proc : pc[q] \notin {"listen", "identify", "setup", "serving"}
    BY <1>8, Exclusive DEF Remove, Dead, Listens
  <2> QED
    BY <1>8, <2>1 DEF Remove, processVars
<1>9. ASSUME NEW p \in Proc, Unlink(p)
      PROVE  Bound'
  <2>1. \A q \in Proc : pc[q] \notin {"listen", "identify", "setup", "serving"}
    BY <1>9, Exclusive DEF Unlink, Confirmed, Remembered
  <2> QED
    BY <1>9, <2>1 DEF Unlink, GiveUp, After
<1>10. ASSUME NEW p \in Proc, SetupFails(p) \/ HandlersDie(p)
       PROVE  Bound'
  BY <1>10 DEF SetupFails, HandlersDie, Closed, processVars
<1>11. ASSUME NEW p \in Proc, Quit(p)
       PROVE  Bound'
  BY <1>11 DEF Quit, Quits, Closed, Stopped
<1>12. ASSUME NEW p \in Proc, NEW q \in Proc, Restart(p, q)
       PROVE  Bound'
  BY <1>12 DEF Restart, Quits, Closed, Stopped
<1>13. ASSUME NEW p \in Proc, Die(p)
       PROVE  Bound'
  BY <1>13 DEF Die, Closed
<1>14. ASSUME NEW p \in Proc, NoLock(p) \/ BindFails(p)
       PROVE  GiveUp(p) /\ UNCHANGED entry
  BY <1>14 DEF NoLock, BindFails
<1>15. ASSUME NEW p \in Proc, Probe(p) \/ Inspect(p) \/ Compare(p), GiveUp(p)
       PROVE  UNCHANGED entry
  BY <1>15 DEF Probe, Inspect, Compare, kernelVars
<1>16. ASSUME NEW p \in Proc, Bind(p) \/ Rebind(p)
       PROVE  pc[p] \in Binding /\ (Rebind(p) => BindInode(p))
  BY <1>16 DEF Bind, Rebind
<1> QED
  BY <1>1, <1>2, <1>3, <1>4, <1>5, <1>6, <1>7, <1>8, <1>9, <1>10, <1>11, <1>12, <1>13,
     <1>14, <1>15, <1>16, Zenon DEF Next, Advance

\* Only the holder of the bind lock changes the path or begins to listen.
LEMMA Quiet ==
  ASSUME ReachInv, [Next]_vars, NEW p \in Proc, pc[p] \in Binding \union Unlinking,
         pc'[p] = pc[p]
  PROVE  /\ entry' = entry
         /\ \A q \in listening' : q \in listening /\ sock'[q] = sock[q]
PROOF
<1> USE EndpointAssumption DEF ReachInv, TypeInv, GuardInv, Labels, Binding, Unlinking, Running,
        Active, Holding
<1>1. CASE UNCHANGED vars
  BY <1>1 DEF vars
<1>2. ASSUME NEW q \in Proc, q # p, pc[q] \in Binding \union Unlinking
      PROVE  FALSE
  BY <1>2, Exclusive
<1>3. ASSUME NEW q \in Proc, Advance(q), q # p
      PROVE  /\ entry' = entry
             /\ \A r \in listening' : r \in listening /\ sock'[r] = sock[r]
  BY <1>2, <1>3 DEF Advance, First, Second, HandOff, Takeover, TakeLock, NoLock, Bind, Listen,
     Probe, Inspect, Remove, Rebind, BindFails, Identify, Serve, SetupFails, Closed, Compare,
     Unlink, Leave, GiveUp, kernelVars
<1>4. ASSUME NEW q \in Proc, Launch(q) \/ Quit(q) \/ HandlersDie(q) \/ Die(q)
      PROVE  /\ entry' = entry
             /\ \A r \in listening' : r \in listening /\ sock'[r] = sock[r]
  BY <1>4 DEF Launch, Quit, HandlersDie, Die, Closed, kernelVars
<1>5. ASSUME NEW q \in Proc, NEW r \in Proc, Restart(q, r)
      PROVE  /\ entry' = entry
             /\ \A t \in listening' : t \in listening /\ sock'[t] = sock[t]
  BY <1>5 DEF Restart, Closed
<1>6. ASSUME Advance(p)
      PROVE  FALSE
  BY <1>6 DEF Advance, First, Second, HandOff, Takeover, TakeLock, NoLock, Bind, BindInode, Listen,
     Probe, Inspect, Remove, Rebind, BindFails, Identify, Serve, SetupFails, Compare,
     Unlink, Leave, GiveUp, After
<1> QED
  BY <1>1, <1>3, <1>4, <1>5, <1>6, Zenon DEF Next

\* A process moves through its critical sections on its own.
LEMMA OwnStep ==
  ASSUME TypeInv, [Next]_vars, NEW p \in Proc, pc'[p] # pc[p],
         pc'[p] \in {"inspect", "remove", "unlink"}
  PROVE  Probe(p) \/ Inspect(p) \/ Compare(p)
PROOF
<1> USE DEF TypeInv
<1>1. ASSUME NEW q \in Proc, Advance(q), q # p
      PROVE  FALSE
  BY <1>1 DEF Advance, First, Second, HandOff, Takeover, TakeLock, NoLock, Bind, BindInode,
     Listen, Probe, Inspect, Remove, Rebind, BindFails, Identify, Serve, SetupFails, Compare,
     Unlink, Leave, GiveUp
<1>2. ASSUME NEW q \in Proc, Launch(q) \/ Quit(q) \/ HandlersDie(q) \/ Die(q)
      PROVE  FALSE
  BY <1>2 DEF Launch, Quit, Stopped, HandlersDie, Die
<1>3. ASSUME NEW q \in Proc, NEW r \in Proc, Restart(q, r)
      PROVE  FALSE
  BY <1>3 DEF Restart, Stopped
<1>4. ASSUME GiveUp(p)
      PROVE  FALSE
  BY <1>4 DEF GiveUp, After
<1>5. ASSUME First(p) \/ Second(p) \/ HandOff(p) \/ Takeover(p) \/ TakeLock(p) \/ Serve(p)
             \/ Leave(p) \/ SetupFails(p)
      PROVE  FALSE
  BY <1>5 DEF First, Second, HandOff, Takeover, TakeLock, Serve, Leave, SetupFails
<1>6. ASSUME Bind(p) \/ Listen(p) \/ Remove(p) \/ Rebind(p) \/ Identify(p)
      PROVE  FALSE
  BY <1>6 DEF Bind, BindInode, Listen, Remove, Rebind, Identify
<1>7. ASSUME NoLock(p) \/ BindFails(p) \/ Unlink(p)
      PROVE  GiveUp(p)
  BY <1>7 DEF NoLock, BindFails, Unlink
<1>8. CASE UNCHANGED vars
  BY <1>8 DEF vars
<1> QED
  BY <1>1, <1>2, <1>3, <1>4, <1>5, <1>6, <1>7, <1>8, Zenon DEF Next, Advance

LEMMA DeadNext ==
  ASSUME ~FullRefuses
  PROVE  ReachInv /\ [Next]_vars => Dead'
PROOF
<1> SUFFICES ASSUME ReachInv, [Next]_vars, NEW p \in Proc, pc'[p] \in {"inspect", "remove"}
             PROVE  /\ entry' # NoIno /\ ~Listens(entry)'
                    /\ pc'[p] = "remove" => entry' \notin Alien
  BY DEF Dead
<1>1. CASE pc'[p] = pc[p]
  <2>1. pc[p] \in Binding
    BY <1>1 DEF Binding
  <2> QED
    BY <1>1, <2>1, Quiet DEF ReachInv, Dead, Listens
<1>2. CASE pc'[p] # pc[p]
  <2> USE EndpointAssumption DEF ReachInv, TypeInv
  <2>1. Probe(p) \/ Inspect(p)
    BY <1>2, OwnStep DEF Compare, GiveUp, After
  <2>2. UNCHANGED <<entry, sock, listening>>
    BY <1>2, <2>1 DEF Probe, Inspect, GiveUp, After, kernelVars
  <2>3. CASE Probe(p)
    <3>1. pc[p] = "probe" /\ \E attempt \in Attempts : Settle(attempt) = "Stale"
      BY <1>2, <2>3 DEF Probe, GiveUp, After
    <3>2. entry # NoIno /\ ~Listens(entry)
      BY <3>1 DEF Attempts, Settle
    <3>3. pc'[p] = "inspect"
      BY <1>2, <2>3 DEF Probe, GiveUp, After
    <3> QED
      BY <2>2, <3>2, <3>3 DEF Listens
  <2>4. CASE Inspect(p)
    <3>1. pc[p] = "inspect" /\ entry \notin Alien
      BY <1>2, <2>4 DEF Inspect, GiveUp, After
    <3> QED
      BY <2>2, <3>1 DEF Listens, Dead
  <2> QED
    BY <2>1, <2>3, <2>4
<1> QED
  BY <1>1, <1>2

LEMMA ConfirmedNext == ReachInv /\ [Next]_vars => Confirmed'
PROOF
<1> SUFFICES ASSUME ReachInv, [Next]_vars, NEW p \in Proc, pc'[p] = "unlink"
             PROVE  identity'[p] # NoIno /\ entry' = identity'[p]
  BY DEF Confirmed
<1> USE EndpointAssumption DEF ReachInv, TypeInv
<1>1. CASE pc'[p] = pc[p]
  <2>1. pc[p] \in Unlinking
    BY <1>1 DEF Unlinking
  <2>2. identity'[p] = identity[p]
    BY <1>1 DEF Next, vars, Advance, First, Second, HandOff, Takeover, TakeLock, NoLock, Bind,
       BindInode, Listen, Probe, Inspect, Remove, Rebind, BindFails, Identify, Serve, SetupFails,
       Compare, Unlink, Leave, GiveUp, After, Launch, Quit, HandlersDie, Die, Restart, processVars
  <2> QED
    BY <1>1, <2>1, <2>2, Quiet DEF Confirmed
<1>2. CASE pc'[p] # pc[p]
  <2>1. Compare(p)
    BY <1>2, OwnStep DEF Probe, Inspect, GiveUp, After
  <2> QED
    BY <1>2, <2>1 DEF Compare, GiveUp, After, StillOurs, kernelVars, processVars
<1> QED
  BY <1>1, <1>2

LEMMA RememberedNext ==
  ASSUME ~PinFails
  PROVE  ReachInv /\ [Next]_vars => Remembered'
PROOF
<1> SUFFICES ASSUME ReachInv, [Next]_vars PROVE Remembered'
  OBVIOUS
<1> USE EndpointAssumption DEF ReachInv, TypeInv, Remembered
<1>1. CASE UNCHANGED <<sock, identity, pin>>
  BY <1>1
<1>2. ASSUME NEW p \in Proc, identity' \in {identity, [identity EXCEPT ![p] = NoIno]},
             pin' \in {pin, [pin EXCEPT ![p] = NoIno]},
             sock' \in {sock, [sock EXCEPT ![p] = NoIno]},
             identity' = identity => pin' = pin
      PROVE  Remembered'
  BY <1>2
<1>3. ASSUME NEW p \in Proc, BindInode(p)
      PROVE  Remembered'
  BY <1>3 DEF BindInode, Free, processVars
<1>4. ASSUME NEW p \in Proc, Identify(p)
      PROVE  Remembered'
  <2>1. entry = sock[p] /\ sock[p] # NoIno /\ sock[p] \notin Alien
    BY <1>4 DEF Identify, Bound
  <2>2. \A q \in Proc \ {p} : sock[q] # entry
    BY <2>1 DEF Bound
  <2> QED
    BY <1>4, <2>1, <2>2 DEF Identify, Pinned
<1>5. ASSUME NEW p \in Proc, GiveUp(p) \/ Quit(p) \/ SetupFails(p) \/ HandlersDie(p) \/ Die(p)
      PROVE  Remembered'
  BY <1>2, <1>5 DEF GiveUp, Quit, SetupFails, HandlersDie, Die, Closed, processVars
<1>6. ASSUME NEW p \in Proc, NEW q \in Proc, Restart(p, q)
      PROVE  Remembered'
  BY <1>2, <1>6 DEF Restart, Closed
<1>7. ASSUME NEW p \in Proc, Launch(p) \/ First(p) \/ Second(p) \/ HandOff(p) \/ Takeover(p)
             \/ TakeLock(p) \/ Listen(p) \/ Remove(p) \/ Serve(p) \/ Leave(p)
      PROVE  UNCHANGED <<sock, identity, pin>>
  BY <1>7 DEF Launch, First, Second, HandOff, Takeover, TakeLock, Listen, Remove, Serve, Leave,
              kernelVars, processVars
<1>8. ASSUME NEW p \in Proc, Bind(p) \/ Rebind(p) \/ Probe(p) \/ Inspect(p) \/ Compare(p)
             \/ NoLock(p) \/ BindFails(p) \/ Unlink(p)
      PROVE  GiveUp(p) \/ BindInode(p) \/ UNCHANGED <<sock, identity, pin>>
  BY <1>8 DEF Bind, Rebind, Probe, Inspect, Compare, NoLock, BindFails, Unlink,
              kernelVars, processVars
<1>9. CASE UNCHANGED vars
  BY <1>1, <1>9 DEF vars
<1> QED
  BY <1>1, <1>3, <1>4, <1>5, <1>6, <1>7, <1>8, <1>9, Zenon DEF Next, Advance

LEMMA ReachInductive ==
  ASSUME ~FullRefuses, ~PinFails
  PROVE  Spec => []ReachInv
PROOF
<1>1. Init => ReachInv
  BY TypeInit, LockInit, GuardInit, ReachInit DEF ReachInv
<1>2. ReachInv /\ [Next]_vars => ReachInv'
  BY TypeNext, LockNext, GuardNext, BoundNext, DeadNext, RememberedNext, ConfirmedNext
     DEF ReachInv
<1> QED
  BY <1>1, <1>2, PTL DEF Spec

\* Where the kernel tells a full backlog from a dead socket and grants the pin, a
\* process that believes it is serving is the one the path leads to, however
\* launches, takeovers, deaths and departures interleave.
THEOREM ServersStayReachable ==
  ASSUME ~FullRefuses, ~PinFails
  PROVE  Spec => []ServerReachable
PROOF
<1>1. ReachInv => ServerReachable
  BY DEF ReachInv, Bound, ServerReachable
<1> QED
  BY <1>1, ReachInductive, PTL

\* There too, no unlink removes anything but a socket of this program whose owner
\* is gone or is the one that unlinks it.
THEOREM UnlinksSpareTheLiving ==
  ASSUME ~FullRefuses, ~PinFails
  PROVE  Spec => OnlyTheDeadAreUnlinked
PROOF
<1>1. ASSUME ReachInv, [Next]_vars, entry # NoIno, entry' = NoIno
      PROVE  entry \notin Alien /\ \A q \in listening : sock[q] = entry => pc[q] = "unlink"
  <2> USE EndpointAssumption DEF ReachInv, TypeInv
  <2>1. PICK p \in Proc : Remove(p) \/ Unlink(p)
    BY <1>1 DEF Next, vars, Advance, First, Second, HandOff, Takeover, TakeLock, NoLock, Bind,
       BindInode, Free, Listen, Probe, Inspect, Rebind, BindFails, Identify, Serve, SetupFails,
       Compare, Leave, Launch, Quit, HandlersDie, Die, Restart, kernelVars
  <2>2. CASE Remove(p)
    BY <1>1, <2>2 DEF Remove, Dead, Listens
  <2>3. CASE Unlink(p)
    BY <1>1, <2>3 DEF Unlink, Confirmed, Remembered
  <2> QED
    BY <2>1, <2>2, <2>3
<1>2. ReachInv /\ [Next]_vars =>
        [ entry # NoIno /\ entry' = NoIno =>
            /\ entry \notin Alien
            /\ \A q \in listening : sock[q] = entry => pc[q] = "unlink" ]_vars
  BY <1>1
<1> QED
  BY <1>2, ReachInductive, PTL DEF Spec, OnlyTheDeadAreUnlinked

=============================================================================
