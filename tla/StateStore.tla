----------------------------- MODULE StateStore -----------------------------
(***************************************************************************)
(* The user levels on disk: the store of                                   *)
(* crates/duja-app/src/bin_support/state_store.rs, which loads state.toml, *)
(* moves a file aside that it will never be able to read, writes at most   *)
(* once in two seconds and flushes on a clean exit, over the atomic write  *)
(* of crates/duja-core/src/config/persist.rs.  The process may be killed   *)
(* and the machine may lose power between any two system calls; between    *)
(* sessions the user may edit, spoil or remove the file.                   *)
(***************************************************************************)
EXTENDS Naturals

CONSTANTS
  MaxEdits,   \* bound: versions of the levels, whoever wrote them
  Names       \* the quarantine names free_quarantine_path tries, in order

ASSUME StoreAssumption == MaxEdits \in Nat \ {0} /\ Names \subseteq Nat

\* What a file holds: one version of the levels, in a form the program can
\* read or not, of which all bytes reached the disk or not.
Content == [version : 0 .. MaxEdits, valid : BOOLEAN, synced : BOOLEAN]

\* No file.
None == [version |-> 0, valid |-> FALSE, synced |-> FALSE]

VARIABLES
  dir,        \* the directory: state.toml and the files moved aside
  durable,    \* the directories a power loss may leave behind
  up,         \* a session runs
  quitting,   \* ... and was told to quit
  file,       \* StateStore.file: the version in memory, 0 for the default
  dirty, blocked,
  recent,     \* last_write is less than STATE_WRITE_DEBOUNCE ago
  writing,    \* where write_atomic is
  temp,       \* its temporary file
  owed,       \* the version a quitting session has to leave in the file
  edits       \* the versions given out so far

memVars == <<file, dirty, blocked, recent>>
vars == <<dir, durable, up, quitting, file, dirty, blocked, recent, writing, temp,
          owed, edits>>

Directory == [state : Content, aside : [Names -> Content]]

Fresh(version) == [version |-> version, valid |-> TRUE, synced |-> FALSE]

Init ==
  /\ \E valid \in BOOLEAN, version \in {0, 1} :
       /\ dir = [state |-> IF version = 0 THEN None
                           ELSE [version |-> version, valid |-> valid, synced |-> TRUE],
                 aside |-> [n \in Names |-> None]]
       /\ edits = version
  /\ durable = {dir}
  /\ up = FALSE /\ quitting = FALSE
  /\ file = 0 /\ dirty = FALSE /\ blocked = FALSE /\ recent = FALSE
  /\ writing = "no" /\ temp = None /\ owed = 0

-----------------------------------------------------------------------------
(* Loading. *)

\* A session starts with what StateStore::load makes of the file.
Started(version, refuses) ==
  /\ up' = TRUE
  /\ file' = version
  /\ blocked' = refuses
  /\ dirty' = FALSE /\ recent' = FALSE
  /\ UNCHANGED <<quitting, writing, temp, owed, edits>>

Load ==
  /\ ~up
  /\ dir.state = None \/ dir.state.valid
  /\ Started(dir.state.version, FALSE)
  /\ UNCHANGED <<dir, durable>>

\* A failure that may pass: the file is left alone, and so is its name.
LoadFailsForNow ==
  /\ ~up
  /\ Started(0, TRUE)
  /\ UNCHANGED <<dir, durable>>

\* Seeded bug: the first name, whether it is taken or not.
FirstName == {n \in Names : \A m \in Names : n =< m}

\* free_quarantine_path: the first name nothing uses.
FreeName ==
  LET free == {n \in Names : dir.aside[n] = None}
  IN {n \in free : \A m \in free : n =< m}

\* A failure that repeats: the file is moved aside, or, when no name is free
\* or the rename fails, stays where it is for good.
Quarantine ==
  /\ ~up /\ dir.state # None /\ ~dir.state.valid
  /\ \/ \E n \in FreeName :
          /\ dir' = [state |-> None, aside |-> [dir.aside EXCEPT ![n] = dir.state]]
          /\ durable' = durable \union {dir'}
          /\ Started(0, FALSE)
     \/ /\ Started(0, TRUE)
        /\ UNCHANGED <<dir, durable>>

-----------------------------------------------------------------------------
(* The session. *)

\* What begins a write: write() refuses while blocked.
Begins(wanted) == writing' = IF wanted /\ ~blocked THEN "temp" ELSE "no"

\* maybe_flush of a dirty store
ShouldWrite == ~recent

\* A handler records a level, a changed one or the one it had, and ends with
\* maybe_flush.  Those already queued run even when the session was told to quit.
Handle ==
  /\ up /\ writing = "no"
  /\ \/ UNCHANGED <<file, edits>>
     \/ /\ edits < MaxEdits
        /\ edits' = edits + 1 /\ file' = edits'
  /\ dirty' = TRUE
  /\ Begins(ShouldWrite)
  /\ UNCHANGED <<dir, durable, up, quitting, blocked, recent, temp, owed>>

\* The debounce window closes.
Tick ==
  /\ recent /\ writing = "no"
  /\ recent' = FALSE
  /\ UNCHANGED <<dir, durable, up, quitting, file, dirty, blocked, writing, temp,
                 owed, edits>>

\* Seeded bug: the last write waits for the debounce like any other.
QuitDebounced ==
  /\ up /\ ~quitting /\ writing = "no"
  /\ quitting' = TRUE
  /\ Begins(dirty /\ ShouldWrite)
  /\ owed' = file
  /\ UNCHANGED <<dir, durable, up, memVars, temp, edits>>

\* begin_quit: flush ignores the debounce.
Quit ==
  /\ up /\ ~quitting /\ writing = "no"
  /\ quitting' = TRUE
  /\ Begins(dirty)
  /\ owed' = file
  /\ UNCHANGED <<dir, durable, up, memVars, temp, edits>>

\* Seeded bug: the process does not wait for its write.
ExitAtOnce ==
  /\ quitting
  /\ up' = FALSE /\ quitting' = FALSE /\ recent' = FALSE /\ owed' = 0
  /\ UNCHANGED <<dir, durable, file, dirty, blocked, writing, temp, edits>>

\* The event loop ends, and the process.
Exit ==
  /\ quitting /\ writing = "no"
  /\ up' = FALSE /\ quitting' = FALSE /\ recent' = FALSE /\ owed' = 0
  /\ UNCHANGED <<dir, durable, file, dirty, blocked, writing, temp, edits>>

-----------------------------------------------------------------------------
(* write_atomic *)

\* The temporary file is written ...
WriteTemp ==
  /\ writing = "temp"
  /\ temp' = Fresh(file)
  /\ writing' = "sync"
  /\ UNCHANGED <<dir, durable, up, quitting, memVars, owed, edits>>

\* Seeded bug: the bytes are left to the page cache.
SyncNothing ==
  /\ writing = "sync"
  /\ writing' = "rename"
  /\ UNCHANGED <<dir, durable, up, quitting, memVars, temp, owed, edits>>

\* ... synced ...
Sync ==
  /\ writing = "sync"
  /\ temp' = [temp EXCEPT !.synced = TRUE]
  /\ writing' = "rename"
  /\ UNCHANGED <<dir, durable, up, quitting, memVars, owed, edits>>

\* ... and renamed over the old one.
Rename ==
  /\ writing = "rename"
  /\ dir' = [dir EXCEPT !.state = temp]
  /\ durable' = durable \union {dir'}
  /\ temp' = None
  /\ writing' = "directory"
  /\ UNCHANGED <<up, quitting, memVars, owed, edits>>

\* The directory is synced if the system can, and the write is done.
SyncDirectory ==
  /\ writing = "directory"
  /\ durable' \in {durable, {dir}}
  /\ dirty' = FALSE /\ recent' = TRUE
  /\ writing' = "no"
  /\ UNCHANGED <<dir, up, quitting, file, blocked, temp, owed, edits>>

\* Seeded bug: a write counts as done whether it was or not.
WriteForgotten ==
  /\ writing \in {"temp", "sync", "rename"}
  /\ temp' = None /\ writing' = "no"
  /\ dirty' = FALSE
  /\ owed' = IF dir.state.version < owed THEN 0 ELSE owed
  /\ UNCHANGED <<dir, durable, up, quitting, file, blocked, recent, edits>>

\* Too much to write, no room, no right: the store stays dirty, and after a flush
\* that failed nothing is owed any more.
WriteFails ==
  /\ writing \in {"temp", "sync", "rename"}
  /\ temp' = None /\ writing' = "no"
  /\ owed' = IF dir.state.version < owed THEN 0 ELSE owed
  /\ UNCHANGED <<dir, durable, up, quitting, memVars, edits>>

-----------------------------------------------------------------------------
(* Crashes and the user. *)

\* The session is gone, with its temporary file.
Down ==
  /\ up' = FALSE /\ quitting' = FALSE
  /\ writing' = "no" /\ temp' = None
  /\ recent' = FALSE /\ owed' = 0
  /\ UNCHANGED <<file, dirty, blocked, edits>>

Kill ==
  /\ up
  /\ Down
  /\ UNCHANGED <<dir, durable>>

\* What a file reads like after a power loss: bytes that were not synced are
\* missing.
Left(content) ==
  IF content = None \/ content.synced THEN content
  ELSE [content EXCEPT !.valid = FALSE, !.synced = TRUE]

PowerLoss ==
  /\ \E d \in durable : dir' = [d EXCEPT !.state = Left(d.state)]
  /\ durable' = {dir'}
  /\ Down

\* Between sessions the user puts another file in place, or none.
Edit ==
  /\ ~up /\ edits < MaxEdits
  /\ edits' = edits + 1
  /\ \E state \in {None} \union [version : {edits'}, valid : BOOLEAN, synced : {TRUE}] :
       dir' = [dir EXCEPT !.state = state]
  /\ durable' = {dir'}
  /\ UNCHANGED <<up, quitting, memVars, writing, temp, owed>>

Next ==
  \/ Load \/ LoadFailsForNow \/ Quarantine
  \/ Handle \/ Tick \/ Quit \/ Exit
  \/ WriteTemp \/ Sync \/ Rename \/ SyncDirectory \/ WriteFails
  \/ Kill \/ PowerLoss \/ Edit

Spec == Init /\ [][Next]_vars

-----------------------------------------------------------------------------
(* Properties. *)

\* Type correctness.
StoreTypeOK ==
  /\ dir \in Directory /\ durable \subseteq Directory /\ dir \in durable
  /\ temp \in Content
  /\ writing \in {"no", "temp", "sync", "rename", "directory"}
  /\ writing # "no" => up
  /\ temp # None => writing \in {"sync", "rename"}
  /\ file \in 0 .. edits /\ owed \in 0 .. file /\ edits \in 0 .. MaxEdits

\* Whenever the machine stops, the levels can be read again: what is found is
\* a version some write completed, the newest or the one before, never a part.
NeverTorn ==
  \A d \in durable : d.state # None => d.state.synced

\* A file no session could read is never lost: the file in place keeps its
\* name or is moved aside, and what was moved aside stays there, also when the
\* machine stops.  Only the user, between sessions, may take it away.
UnreadFilesSurvive ==
  [][ LET Kept(content) == content \in {dir'.state} \union {dir'.aside[n] : n \in Names}
      IN /\ \A n \in Names : dir.aside[n] # None => Kept(dir.aside[n])
         /\ /\ dir.state # None /\ (blocked \/ ~up)
            /\ ~Edit /\ (PowerLoss => ~dir.state.valid)
            => Kept(dir.state) ]_vars

\* A session that quits leaves the levels it had then in the file, or newer ones,
\* unless that flush failed or the file must not be touched: no failure before,
\* no debounce and no crash of another session keeps them from it.
QuitSaves ==
  [][ Exit /\ ~blocked => dir.state.version >= owed ]_vars

=============================================================================
