---------------------------- MODULE IpcEndpoint ----------------------------
(***************************************************************************)
(* Who owns the unix endpoint of the application                           *)
(* (crates/duja-platform/src/ipc/unix_socket.rs): several processes bind,  *)
(* probe, take over and unlink one socket path under one advisory lock,    *)
(* while the single-instance guard (single_instance.rs) and the relaunch   *)
(* of the tray (duja-app/src/bin_support/tray.rs, tray/state.rs) decide    *)
(* which of them run at all.  A process may die between any two calls: the *)
(* kernel then closes its sockets and releases its locks, and the inode it *)
(* bound stays behind.                                                     *)
(***************************************************************************)
EXTENDS Naturals

CONSTANTS
  Proc,         \* the processes of one user
  Ino,          \* the inode numbers of the socket directory
  Alien,        \* those that belong to something that is not our socket
  NoProc, NoIno,
  FullRefuses,  \* connecting to a full backlog is refused (the BSDs)
  PinFails      \* the kernel may refuse the descriptor that pins an inode

ASSUME EndpointAssumption ==
  /\ NoProc \notin Proc /\ NoIno \notin Ino /\ Alien \subseteq Ino
  /\ FullRefuses \in BOOLEAN /\ PinFails \in BOOLEAN

VARIABLES
  pc,          \* where each process is
  entry,       \* the inode the socket path names
  sock,        \* the inode the process's own open socket is bound to
  listening,   \* processes whose open socket listens
  identity,    \* PipeServer.socket_identity: the inode it believes it bound
  pin,         \* PipeServer._pin: the inode it keeps from being freed
  bindLock,    \* who holds the flock beside the socket
  guard,       \* who holds the single-instance flock
  unguarded,   \* processes that run without the guard
  quitting     \* processes whose event loop was told to quit

kernelVars  == <<entry, sock, listening, bindLock, guard>>
processVars == <<identity, pin, unguarded, quitting>>
vars == <<pc, entry, sock, listening, identity, pin, bindLock, guard, unguarded,
          quitting>>

\* The process runs the application: with its server, with a server whose
\* handlers are gone, or without one.
Running == {"serving", "deaf", "bare"}

\* The steps of bind_listener, which run under the bind lock, and the end of
\* unlink_if_ours, which does too.
Binding    == {"bind", "listen", "probe", "inspect", "remove", "rebind", "identify"}
Unlinking  == {"compare", "unlink"}
Labels == {"off", "guard", "await", "handoff", "lock", "setup", "retract", "leave"}
            \union Running \union Binding \union Unlinking

Init ==
  /\ pc = [p \in Proc |-> "off"]
  /\ entry \in Ino \union {NoIno}
  /\ sock = [p \in Proc |-> NoIno]
  /\ listening = {}
  /\ identity = [p \in Proc |-> NoIno]
  /\ pin = [p \in Proc |-> NoIno]
  /\ bindLock = NoProc /\ guard = NoProc
  /\ unguarded = {} /\ quitting = {}

-----------------------------------------------------------------------------
(* The kernel. *)

\* Inode numbers a new socket may get: a number is free once no name, no open
\* socket and no descriptor refers to it, and is then handed out again.
Free == {i \in Ino \ Alien : /\ i # entry
                             /\ \A p \in Proc : sock[p] # i /\ pin[p] # i}

Listens(i) == \E q \in listening : sock[q] = i

\* attempt_connect: what one connect to the path may answer.
Attempts ==
  IF entry = NoIno THEN {"Vanished"}
  ELSE {"Undecidable"} \union
       IF Listens(entry)
       THEN {"Connected", IF FullRefuses THEN "Refused" ELSE "BacklogFull"}
       ELSE {"Refused"}

\* Seeded bug: EAGAIN is taken for a refusal.
SettleFullAsStale(attempt) ==
  CASE attempt = "Connected" -> "Live"
    [] attempt \in {"Refused", "BacklogFull"} -> "Stale"
    [] attempt = "Vanished" -> "Vanished"
    [] OTHER -> "Undecidable"

\* settle: what an attempt says about the endpoint.
Settle(attempt) ==
  CASE attempt \in {"Connected", "BacklogFull"} -> "Live"
    [] attempt = "Refused"  -> "Stale"
    [] attempt = "Vanished" -> "Vanished"
    [] OTHER -> "Undecidable"

-----------------------------------------------------------------------------
(* Launching: acquire_single_instance and the head of tray::run. *)

Launch(p) ==
  /\ pc[p] = "off"
  /\ pc' = [pc EXCEPT ![p] = "guard"]
  /\ UNCHANGED <<kernelVars, processVars>>

\* SingleInstance::acquire: take the flock, or degrade to "first" when the
\* directory or the file cannot be trusted or opened.
TakesGuard(p) ==
  \/ /\ guard = NoProc /\ guard' = p
     /\ UNCHANGED unguarded
  \/ /\ unguarded' = unguarded \union {p}
     /\ UNCHANGED guard

First(p) ==
  /\ pc[p] = "guard"
  /\ TakesGuard(p)
  /\ pc' = [pc EXCEPT ![p] = "lock"]
  /\ UNCHANGED <<entry, sock, listening, bindLock, identity, pin, quitting>>

\* A second launch asks the running instance to show itself, then exits.
Second(p) ==
  /\ pc[p] = "guard" /\ guard # NoProc
  /\ pc' = [pc EXCEPT ![p] = "handoff"]
  /\ UNCHANGED <<kernelVars, processVars>>

HandOff(p) ==
  /\ pc[p] = "handoff"
  /\ pc' = [pc EXCEPT ![p] = "off"]
  /\ UNCHANGED <<kernelVars, processVars>>

\* Seeded bug: the wait for the outgoing instance has no deadline.
TakeoverUnbounded(p) ==
  /\ pc[p] = "await"
  /\ guard = NoProc /\ guard' = p
  /\ pc' = [pc EXCEPT ![p] = "lock"]
  /\ UNCHANGED <<entry, sock, listening, bindLock, processVars>>

\* A replacement polls for the guard, and starts anyway after RELAUNCH_WAIT.
Takeover(p) ==
  /\ pc[p] = "await"
  /\ TakesGuard(p)
  /\ pc' = [pc EXCEPT ![p] = "lock"]
  /\ UNCHANGED <<entry, sock, listening, bindLock, identity, pin, quitting>>

-----------------------------------------------------------------------------
(* bind_listener *)

\* BindLock::acquire: polled, never blocking.
TakeLock(p) ==
  /\ pc[p] \in {"lock", "retract"}
  /\ pc[p] = "retract" => identity[p] # NoIno
  /\ bindLock = NoProc
  /\ bindLock' = p
  /\ pc' = [pc EXCEPT ![p] = IF @ = "lock" THEN "bind" ELSE "compare"]
  /\ UNCHANGED <<entry, sock, listening, guard, processVars>>

\* Where a process goes that has put its server away: on with the
\* application, or on with its exit.
After(p) == IF p \in quitting THEN "leave" ELSE "bare"

\* Seeded bug: the error paths keep the lock.
GiveUpLocked(p) ==
  /\ pc' = [pc EXCEPT ![p] = After(p)]
  /\ sock' = [sock EXCEPT ![p] = NoIno]
  /\ listening' = listening \ {p}
  /\ identity' = [identity EXCEPT ![p] = NoIno]
  /\ pin' = [pin EXCEPT ![p] = NoIno]
  /\ UNCHANGED <<bindLock, guard, unguarded, quitting>>

\* The guard of every error path: the lock goes, and so does what the process
\* held of a socket.
GiveUp(p) ==
  /\ pc' = [pc EXCEPT ![p] = After(p)]
  /\ bindLock' = IF bindLock = p THEN NoProc ELSE bindLock
  /\ sock' = [sock EXCEPT ![p] = NoIno]
  /\ listening' = listening \ {p}
  /\ identity' = [identity EXCEPT ![p] = NoIno]
  /\ pin' = [pin EXCEPT ![p] = NoIno]
  /\ UNCHANGED <<guard, unguarded, quitting>>

\* The directory is refused, the lock file cannot be opened, or LOCK_WAIT has
\* passed: the application runs without its server, or leaves its socket.
NoLock(p) ==
  /\ pc[p] \in {"lock", "retract"}
  /\ GiveUp(p)
  /\ UNCHANGED entry

\* The bind half of UnixListener::bind makes the inode ...
BindInode(p) ==
  \E i \in Free :
    /\ entry = NoIno
    /\ entry' = i
    /\ sock' = [sock EXCEPT ![p] = i]
    /\ pc' = [pc EXCEPT ![p] = "listen"]
    /\ UNCHANGED <<listening, bindLock, guard, processVars>>

Bind(p) ==
  /\ pc[p] = "bind"
  /\ \/ BindInode(p)
     \/ /\ entry # NoIno                              \* AddrInUse
        /\ pc' = [pc EXCEPT ![p] = "probe"]
        /\ UNCHANGED <<kernelVars, processVars>>

\* ... and the listen half makes it answer.
Listen(p) ==
  /\ pc[p] = "listen"
  /\ listening' = listening \union {p}
  /\ pc' = [pc EXCEPT ![p] = "identify"]
  /\ UNCHANGED <<entry, sock, bindLock, guard, processVars>>

\* takeover_bind: the verdict of one connect.
Probe(p) ==
  /\ pc[p] = "probe"
  /\ \E attempt \in Attempts :
       \/ /\ Settle(attempt) \in {"Stale", "Vanished"}
          /\ pc' = [pc EXCEPT ![p] = IF Settle(attempt) = "Stale" THEN "inspect"
                                                                   ELSE "rebind"]
          /\ UNCHANGED <<kernelVars, processVars>>
       \/ /\ Settle(attempt) \in {"Live", "Undecidable"}
          /\ GiveUp(p)
          /\ UNCHANGED entry

\* unlink_target_is_ours: the inode must be a socket and belong to this user.
Inspect(p) ==
  /\ pc[p] = "inspect"
  /\ \/ /\ entry \notin Alien
        /\ pc' = [pc EXCEPT ![p] = "remove"]
        /\ UNCHANGED <<kernelVars, processVars>>
     \/ /\ entry \in Alien
        /\ GiveUp(p)
        /\ UNCHANGED entry

Remove(p) ==
  /\ pc[p] = "remove"
  /\ entry' = NoIno
  /\ pc' = [pc EXCEPT ![p] = "rebind"]
  /\ UNCHANGED <<sock, listening, bindLock, guard, processVars>>

Rebind(p) == pc[p] = "rebind" /\ BindInode(p)

\* A bind, a listen or an unlink fails.
BindFails(p) ==
  /\ pc[p] \in {"bind", "listen", "remove", "rebind"}
  /\ GiveUp(p)
  /\ UNCHANGED entry

\* Seeded bug: the inode is remembered by its number alone.
PinsNothing(p) == {NoIno}

\* What pin_inode holds on to.
Pinned(p) == {entry} \union (IF PinFails THEN {NoIno} ELSE {})

\* socket_identity and pin_inode, still under the lock, which this releases.
Identify(p) ==
  /\ pc[p] = "identify"
  /\ \E id \in {entry, NoIno} : identity' = [identity EXCEPT ![p] = id]
  /\ \E held \in Pinned(p) : pin' = [pin EXCEPT ![p] = held]
  /\ bindLock' = NoProc
  /\ pc' = [pc EXCEPT ![p] = "setup"]
  /\ UNCHANGED <<entry, sock, listening, guard, unguarded, quitting>>

-----------------------------------------------------------------------------
(* The server's life: serve_named, stop_and_join, unlink_if_ours. *)

Closed(p) == /\ sock' = [sock EXCEPT ![p] = NoIno]
             /\ listening' = listening \ {p}

Serve(p) ==
  /\ pc[p] = "setup"
  /\ pc' = [pc EXCEPT ![p] = "serving"]
  /\ UNCHANGED <<kernelVars, processVars>>

\* A mode or a thread is refused: the socket is unlinked with the listener
\* still open, or after the listener went with the thread that never ran.
SetupFails(p) ==
  /\ pc[p] = "setup"
  /\ \/ UNCHANGED <<sock, listening>>
     \/ Closed(p)
  /\ pc' = [pc EXCEPT ![p] = "retract"]
  /\ UNCHANGED <<entry, bindLock, guard, processVars>>

\* Both handler threads died, so the listener's hand-over fails and it exits.
HandlersDie(p) ==
  /\ pc[p] = "serving"
  /\ Closed(p)
  /\ pc' = [pc EXCEPT ![p] = "deaf"]
  /\ UNCHANGED <<entry, bindLock, guard, processVars>>

\* The instance guard is the last thing to go.
Released(p) == IF guard = p THEN NoProc ELSE guard

\* begin_quit, then the teardown of tray::run: the server first.
Quits(p) ==
  /\ pc[p] \in Running
  /\ quitting' = quitting \union {p}

\* The label a quitting process continues at, its listener joined.
Stopped(p) == IF pc[p] = "bare" THEN "leave" ELSE "retract"

\* Seeded bug: the guard goes before the server.
QuitUnguarding(p) ==
  /\ Quits(p)
  /\ guard' = Released(p)
  /\ pc' = [pc EXCEPT ![p] = Stopped(p)]
  /\ UNCHANGED <<entry, sock, listening, bindLock, identity, pin, unguarded>>

Quit(p) ==
  /\ Quits(p)
  /\ Closed(p)
  /\ pc' = [pc EXCEPT ![p] = Stopped(p)]
  /\ UNCHANGED <<entry, bindLock, guard, identity, pin, unguarded>>

\* "Restart": the replacement is spawned first.
Restart(p, q) ==
  /\ pc[q] = "off"
  /\ Quits(p)
  /\ Closed(p)
  /\ pc' = [pc EXCEPT ![p] = Stopped(p), ![q] = "await"]
  /\ UNCHANGED <<entry, bindLock, guard, identity, pin, unguarded>>

\* unlink_if_ours: the path still names the inode this server bound.
StillOurs(p) == identity[p] # NoIno /\ entry = identity[p]

Compare(p) ==
  /\ pc[p] = "compare"
  /\ \/ /\ StillOurs(p)
        /\ pc' = [pc EXCEPT ![p] = "unlink"]
        /\ UNCHANGED <<kernelVars, processVars>>
     \/ /\ ~ StillOurs(p)
        /\ GiveUp(p)
        /\ UNCHANGED entry

Unlink(p) ==
  /\ pc[p] = "unlink"
  /\ entry' = NoIno
  /\ GiveUp(p)

Leave(p) ==
  /\ pc[p] = "leave"
  /\ guard' = Released(p)
  /\ unguarded' = unguarded \ {p}
  /\ quitting' = quitting \ {p}
  /\ pc' = [pc EXCEPT ![p] = "off"]
  /\ UNCHANGED <<entry, sock, listening, bindLock, identity, pin>>

\* The process dies anywhere: the kernel closes and unlocks.
Die(p) ==
  /\ pc[p] # "off"
  /\ pc' = [pc EXCEPT ![p] = "off"]
  /\ Closed(p)
  /\ identity' = [identity EXCEPT ![p] = NoIno]
  /\ pin' = [pin EXCEPT ![p] = NoIno]
  /\ bindLock' = IF bindLock = p THEN NoProc ELSE bindLock
  /\ guard' = Released(p)
  /\ unguarded' = unguarded \ {p}
  /\ quitting' = quitting \ {p}
  /\ UNCHANGED entry

-----------------------------------------------------------------------------
\* What a process does on its own once it was started.
Advance(p) ==
  \/ First(p) \/ Second(p) \/ HandOff(p) \/ Takeover(p)
  \/ TakeLock(p) \/ NoLock(p) \/ Bind(p) \/ Listen(p) \/ Probe(p) \/ Inspect(p)
  \/ Remove(p) \/ Rebind(p) \/ BindFails(p) \/ Identify(p)
  \/ Serve(p) \/ SetupFails(p) \/ Compare(p) \/ Unlink(p) \/ Leave(p)

Next ==
  \E p \in Proc :
    \/ Advance(p)
    \/ Launch(p) \/ Quit(p) \/ HandlersDie(p) \/ Die(p)
    \/ \E q \in Proc : Restart(p, q)

Spec == Init /\ [][Next]_vars

\* Every wait of a started process is bounded by LOCK_WAIT, PROBE_BUDGET or
\* RELAUNCH_WAIT, so its next step comes.
FairSpec == Spec /\ \A p \in Proc : WF_vars(Advance(p))

-----------------------------------------------------------------------------
(* Properties. *)

\* Type correctness: also, what listens is an open socket, and nobody keeps the
\* bind lock but while it binds or unlinks.
EndpointTypeOK ==
  /\ pc \in [Proc -> Labels]
  /\ entry \in Ino \union {NoIno}
  /\ sock \in [Proc -> Ino \union {NoIno}]
  /\ listening \subseteq Proc
  /\ identity \in [Proc -> Ino \union {NoIno}]
  /\ pin \in [Proc -> Ino \union {NoIno}]
  /\ bindLock \in Proc \union {NoProc} /\ guard \in Proc \union {NoProc}
  /\ unguarded \subseteq Proc /\ quitting \subseteq Proc
  /\ \A p \in listening : sock[p] # NoIno
  /\ bindLock # NoProc => pc[bindLock] \in Binding \union Unlinking

\* A server that believes it is serving is the one the path leads to: nobody
\* takes its endpoint over while it lives, and nobody that departs takes the
\* endpoint of its successor along, even when the successor's inode got the
\* number of the departed one.
ServerReachable ==
  \A p \in Proc : pc[p] \in {"setup", "serving"} =>
    /\ p \in listening
    /\ sock[p] # NoIno /\ entry = sock[p]

\* What an unlink removes is a socket, and no process but the one that unlinks
\* its own is listening on it.
OnlyTheDeadAreUnlinked ==
  [][ entry # NoIno /\ entry' = NoIno =>
        /\ entry \notin Alien
        /\ \A q \in listening : sock[q] = entry => pc[q] = "unlink" ]_vars

\* While a process holds the instance guard, nobody else has a socket open but
\* one that was let in without the guard: a replacement that waited for its
\* predecessor never finds the predecessor's server in its way.
GuardCoversEndpoint ==
  \A p, q \in Proc : guard = p /\ q # p /\ sock[q] # NoIno => q \in unguarded

\* A restart does not leave the user without the application: the replacement
\* gets to run whatever its predecessor and other launches do, or it died.
ReplacementRuns ==
  \A p \in Proc : pc[p] = "await" ~> pc[p] \in Running \union {"off"}

=============================================================================
