-------------------------- MODULE StateStoreProofs --------------------------
(***************************************************************************)
(* The state store never tears its file, never loses one it could not      *)
(* read, and saves on a clean quit: for any number of versions and of      *)
(* quarantine names.                                                       *)
(***************************************************************************)
EXTENDS StateStore, TLAPS

\* What the disk may come back with: whole files only.  A file the program
\* cannot read was not written by it, so nothing is in flux while it lies there.
DiskOK ==
  /\ dir \in Directory /\ durable \in SUBSET Directory /\ dir \in durable
  /\ \A d \in durable : /\ d.state.version =< edits
                        /\ d.state # None => d.state.synced
  /\ dir.state # None /\ ~dir.state.valid => durable = {dir}

\* Where a session is in writing, and what it writes.
WritingOK ==
  /\ writing \in {"no", "temp", "sync", "rename", "directory"}
  /\ writing # "no" => up /\ ~blocked
  /\ temp \in Content
  /\ temp # None => writing \in {"sync", "rename"}
  /\ writing \in {"sync", "rename"} => temp.version = file /\ temp.valid
  /\ writing = "rename" => temp.synced

NumbersOK == edits \in 0 .. MaxEdits /\ file \in 0 .. edits /\ owed \in 0 .. file

FlagsOK == (~up => owed = 0) /\ (quitting => up)

MemoryOK == NumbersOK /\ FlagsOK

StoreInv == DiskOK /\ WritingOK /\ MemoryOK

\* What was moved aside can be found in every directory a power loss may leave:
\* under a name of its own or, if the rename is not on disk yet, still in place.
Backed ==
  \A d \in durable : \A n \in Names :
    dir.aside[n] # None => dir.aside[n] \in {Left(d.state)} \union {d.aside[m] : m \in Names}

\* A clean store is one whose file is on disk, and a session that quits and
\* writes no more has left there what it owed.
Saved ==
  up /\ ~blocked =>
    /\ ~dirty => dir.state.version = file
    /\ writing = "directory" => dir.state.version = file
    /\ quitting /\ writing = "no" => dir.state.version >= owed

-----------------------------------------------------------------------------
(* Records and files. *)

LEMMA Versions ==
  ASSUME NEW d \in Directory
  PROVE  d.state.version \in Nat
PROOF BY StoreAssumption DEF Directory, Content

\* A power loss takes nothing from a file that is whole.
LEMMA WholeFilesStay ==
  ASSUME NEW d \in Directory, d.state # None => d.state.synced
  PROVE  Left(d.state) = d.state /\ [d EXCEPT !.state = Left(d.state)] = d
PROOF BY DEF Left, Directory

LEMMA FreshIsContent ==
  ASSUME NEW v \in 0 .. MaxEdits
  PROVE  Fresh(v) \in Content /\ Fresh(v).version = v /\ Fresh(v).valid
PROOF BY DEF Fresh, Content

LEMMA NoneIsContent == None \in Content
PROOF BY StoreAssumption DEF None, Content

-----------------------------------------------------------------------------
(* The disk and the writer. *)

LEMMA StoreInvInit == Init => StoreInv
PROOF
<1> SUFFICES ASSUME Init PROVE StoreInv
  OBVIOUS
<1> USE StoreAssumption
<1>1. PICK valid \in BOOLEAN, version \in {0, 1} :
        /\ dir = [state |-> IF version = 0 THEN None
                            ELSE [version |-> version, valid |-> valid, synced |-> TRUE],
                  aside |-> [n \in Names |-> None]]
        /\ edits = version
  BY DEF Init
<1>2. version \in 0 .. MaxEdits
  OBVIOUS
<1>3. DiskOK
  BY <1>1, <1>2 DEF Init, DiskOK, Directory, Content, None
<1>4. WritingOK
  BY NoneIsContent DEF Init, WritingOK
<1>5. NumbersOK
  BY <1>1, <1>2 DEF Init, NumbersOK
<1>6. FlagsOK
  BY DEF Init, FlagsOK
<1> QED
  BY <1>3, <1>4, <1>5, <1>6 DEF StoreInv, MemoryOK

LEMMA DiskNext == StoreInv /\ [Next]_vars => DiskOK'
PROOF
<1> SUFFICES ASSUME StoreInv, [Next]_vars PROVE DiskOK'
  OBVIOUS
<1>1. DiskOK /\ WritingOK /\ MemoryOK
  BY DEF StoreInv
<1>2. \A d \in durable : d \in Directory /\ d.state.version \in Nat
  BY <1>1, Versions DEF DiskOK
<1>3. CASE UNCHANGED <<dir, durable>> /\ edits' \in Nat /\ edits' >= edits
  <2>1. \A d \in durable : d.state.version =< edits'
    BY <1>1, <1>2, <1>3, StoreAssumption DEF DiskOK, MemoryOK, NumbersOK, FlagsOK
  <2> QED
    BY <1>1, <1>3, <2>1 DEF DiskOK
<1>4. CASE Quarantine /\ dir' # dir
  <2>1. PICK n \in FreeName :
          /\ dir' = [state |-> None, aside |-> [dir.aside EXCEPT ![n] = dir.state]]
          /\ durable' = durable \union {dir'}
    BY <1>4 DEF Quarantine
  <2>2. dir' \in Directory
    BY <1>1, <2>1, NoneIsContent DEF DiskOK, Directory
  <2>3. dir'.state = None /\ None.version = 0 /\ edits' = edits
    BY <1>4, <2>1 DEF None, Quarantine, Started
  <2>4. edits \in Nat
    BY <1>1, StoreAssumption DEF MemoryOK, NumbersOK, FlagsOK
  <2> QED
    BY <1>1, <2>1, <2>2, <2>3, <2>4 DEF DiskOK
<1>5. CASE Rename
  <2>1. /\ temp.version = file /\ temp.valid /\ temp.synced /\ temp \in Content
        /\ dir' = [dir EXCEPT !.state = temp] /\ durable' = durable \union {dir'}
        /\ edits' = edits
    BY <1>1, <1>5 DEF Rename, WritingOK
  <2>2. dir' \in Directory /\ dir'.state = temp
    BY <1>1, <2>1 DEF DiskOK, Directory
  <2>3. temp.version =< edits
    BY <1>1, <2>1, StoreAssumption DEF MemoryOK, NumbersOK, FlagsOK
  <2> QED
    BY <1>1, <2>1, <2>2, <2>3 DEF DiskOK
<1>6. CASE SyncDirectory
  BY <1>1, <1>6 DEF SyncDirectory, DiskOK
<1>7. CASE PowerLoss
  <2>1. PICK d \in durable : dir' = [d EXCEPT !.state = Left(d.state)]
    BY <1>7 DEF PowerLoss
  <2>2. dir' = d
    BY <1>1, <2>1, WholeFilesStay DEF DiskOK
  <2> QED
    BY <1>1, <1>7, <2>2 DEF DiskOK, PowerLoss, Down
<1>8. CASE Edit
  <2>1. PICK state \in {None} \union [version : {edits'}, valid : BOOLEAN, synced : {TRUE}] :
          dir' = [dir EXCEPT !.state = state]
    BY <1>8 DEF Edit
  <2>2. edits' \in 0 .. MaxEdits /\ durable' = {dir'}
    BY <1>1, <1>8, StoreAssumption DEF Edit, MemoryOK, NumbersOK, FlagsOK
  <2>3. state \in Content /\ state.version \in {0, edits'} /\ (state # None => state.synced)
    <3>1. CASE state = None
      BY <3>1, NoneIsContent DEF None
    <3>2. CASE state \in [version : {edits'}, valid : BOOLEAN, synced : {TRUE}]
      BY <2>2, <3>2 DEF Content
    <3> QED
      BY <3>1, <3>2
  <2>4. dir' \in Directory /\ dir'.state = state
    BY <1>1, <2>1, <2>3 DEF DiskOK, Directory
  <2>5. dir'.state.version =< edits'
    BY <2>2, <2>3, <2>4, StoreAssumption
  <2> QED
    BY <2>2, <2>3, <2>4, <2>5 DEF DiskOK
<1>9. edits \in Nat
  BY <1>1, StoreAssumption DEF MemoryOK, NumbersOK, FlagsOK
<1>10. CASE Handle
  BY <1>3, <1>9, <1>10 DEF Handle
<1>11. CASE Quarantine /\ dir' = dir
  <2>1. UNCHANGED <<dir, durable, edits>>
    <3>1. CASE \E n \in FreeName :
             /\ dir' = [state |-> None, aside |-> [dir.aside EXCEPT ![n] = dir.state]]
             /\ durable' = durable \union {dir'}
             /\ Started(0, FALSE)
      BY <1>1, <1>11, <3>1 DEF DiskOK, Started
    <3> QED
      BY <1>11, <3>1 DEF Quarantine, Started
  <2> QED
    BY <1>3, <1>9, <2>1
<1>12. CASE \/ Load \/ LoadFailsForNow \/ Tick \/ Quit \/ Exit
            \/ WriteTemp \/ Sync \/ WriteFails \/ Kill \/ UNCHANGED vars
  <2>1. UNCHANGED <<dir, durable, edits>>
    BY <1>12 DEF Load, LoadFailsForNow, Started, Tick, Quit, Exit, WriteTemp, Sync,
                 WriteFails, Kill, Down, vars
  <2> QED
    BY <1>3, <1>9, <2>1
<1> QED
  BY <1>4, <1>5, <1>6, <1>7, <1>8, <1>10, <1>11, <1>12 DEF Next

LEMMA FlagsNext == StoreInv /\ [Next]_vars => FlagsOK'
PROOF
<1> SUFFICES ASSUME StoreInv, [Next]_vars PROVE FlagsOK'
  OBVIOUS
<1>1. FlagsOK /\ WritingOK
  BY DEF StoreInv, MemoryOK
<1>2. CASE Load \/ LoadFailsForNow \/ Quarantine
  <2>1. up' /\ owed' = owed
    BY <1>2 DEF Load, LoadFailsForNow, Quarantine, Started
  <2> QED
    BY <2>1 DEF FlagsOK
<1>3. CASE Quit
  BY <1>3 DEF Quit, FlagsOK
<1>4. CASE Exit \/ Kill \/ PowerLoss
  <2>1. ~up' /\ ~quitting' /\ owed' = 0
    BY <1>4 DEF Exit, Kill, PowerLoss, Down
  <2> QED
    BY <2>1 DEF FlagsOK
<1>5. CASE WriteFails
  <2>1. up /\ UNCHANGED <<up, quitting>>
    BY <1>1, <1>5 DEF WriteFails, WritingOK
  <2> QED
    BY <1>1, <2>1 DEF FlagsOK
<1>6. CASE \/ Handle \/ Tick \/ WriteTemp \/ Sync \/ Rename \/ SyncDirectory \/ Edit
           \/ UNCHANGED vars
  <2>1. UNCHANGED <<up, quitting, owed>>
    BY <1>6 DEF Handle, Tick, WriteTemp, Sync, Rename, SyncDirectory, Edit, vars
  <2> QED
    BY <1>1, <2>1 DEF FlagsOK
<1> QED
  BY <1>2, <1>3, <1>4, <1>5, <1>6 DEF Next

LEMMA NumbersNext == StoreInv /\ [Next]_vars => NumbersOK'
PROOF
<1> SUFFICES ASSUME StoreInv, [Next]_vars PROVE NumbersOK'
  OBVIOUS
<1>1. DiskOK /\ NumbersOK /\ FlagsOK
  BY DEF StoreInv, MemoryOK
<1>2. /\ edits \in Nat /\ file \in Nat /\ owed \in Nat /\ MaxEdits \in Nat
      /\ owed =< file /\ file =< edits /\ edits =< MaxEdits
  BY <1>1, StoreAssumption DEF NumbersOK
<1>3. dir.state.version \in Nat /\ dir.state.version =< edits
  BY <1>1, Versions DEF DiskOK
<1>4. CASE Load \/ LoadFailsForNow \/ Quarantine
  <2>1. owed' = 0 /\ edits' = edits /\ file' \in {0, dir.state.version}
    BY <1>1, <1>4 DEF Load, LoadFailsForNow, Quarantine, Started, FlagsOK
  <2> QED
    BY <1>2, <1>3, <2>1 DEF NumbersOK
<1>5. CASE Handle
  <2>1. CASE UNCHANGED <<file, edits>>
    BY <1>1, <1>5, <2>1 DEF Handle, NumbersOK
  <2>2. CASE edits < MaxEdits /\ edits' = edits + 1 /\ file' = edits'
    BY <1>2, <1>5, <2>2 DEF Handle, NumbersOK
  <2> QED
    BY <1>5, <2>1, <2>2 DEF Handle
<1>6. CASE Quit \/ Exit \/ Kill \/ PowerLoss \/ WriteFails
  <2>1. UNCHANGED <<file, edits>> /\ owed' \in {0, owed, file}
    BY <1>6 DEF Quit, Exit, Kill, PowerLoss, Down, WriteFails, memVars
  <2> QED
    BY <1>2, <2>1 DEF NumbersOK
<1>7. CASE Edit
  <2>1. edits < MaxEdits /\ edits' = edits + 1 /\ UNCHANGED <<file, owed>>
    BY <1>7 DEF Edit, memVars
  <2> QED
    BY <1>2, <2>1 DEF NumbersOK
<1>8. CASE Tick \/ WriteTemp \/ Sync \/ Rename \/ SyncDirectory \/ UNCHANGED vars
  <2>1. UNCHANGED <<file, owed, edits>>
    BY <1>8 DEF Tick, WriteTemp, Sync, Rename, SyncDirectory, vars, memVars
  <2> QED
    BY <1>1, <2>1 DEF NumbersOK
<1> QED
  BY <1>4, <1>5, <1>6, <1>7, <1>8 DEF Next

LEMMA WritingNext == StoreInv /\ [Next]_vars => WritingOK'
PROOF
<1> SUFFICES ASSUME StoreInv, [Next]_vars PROVE WritingOK'
  OBVIOUS
<1>1. WritingOK /\ MemoryOK
  BY DEF StoreInv
<1>2. file \in 0 .. MaxEdits
  BY <1>1, StoreAssumption DEF MemoryOK, NumbersOK, FlagsOK
<1>3. CASE Load \/ LoadFailsForNow \/ Quarantine
  <2>1. ~up /\ UNCHANGED <<writing, temp>>
    BY <1>3 DEF Load, LoadFailsForNow, Quarantine, Started
  <2> QED
    BY <1>1, <2>1 DEF WritingOK
<1>4. CASE Handle \/ Quit
  <2>1. /\ writing = "no" /\ writing' \in {"no", "temp"} /\ (writing' = "temp" => ~blocked)
        /\ up /\ UNCHANGED <<up, blocked, temp>>
    BY <1>4 DEF Handle, Quit, Begins, memVars
  <2> QED
    BY <1>1, <2>1 DEF WritingOK
<1>5. CASE Tick \/ Edit \/ UNCHANGED vars
  <2>1. UNCHANGED <<up, blocked, file, writing, temp>>
    BY <1>5 DEF Tick, Edit, vars, memVars
  <2> QED
    BY <1>1, <2>1 DEF WritingOK
<1>10. CASE Exit
  BY <1>1, <1>10 DEF Exit, WritingOK
<1>6. CASE WriteTemp
  BY <1>1, <1>2, <1>6, FreshIsContent DEF WriteTemp, WritingOK, memVars
<1>7. CASE Sync
  BY <1>1, <1>7 DEF Sync, WritingOK, memVars, Content, None
<1>8. CASE Rename \/ WriteFails \/ Kill \/ PowerLoss
  <2>1. /\ temp' = None
        /\ \/ writing' = "no"
           \/ writing' = "directory" /\ writing # "no" /\ UNCHANGED <<up, blocked>>
    BY <1>8 DEF Rename, WriteFails, Kill, PowerLoss, Down, memVars
  <2> QED
    BY <1>1, <2>1, NoneIsContent DEF WritingOK
<1>9. CASE SyncDirectory
  BY <1>1, <1>9 DEF SyncDirectory, WritingOK
<1> QED
  BY <1>3, <1>4, <1>5, <1>6, <1>7, <1>8, <1>9, <1>10 DEF Next

LEMMA StoreInductive == Spec => []StoreInv
PROOF
<1>1. StoreInv /\ [Next]_vars => StoreInv'
  BY DiskNext, FlagsNext, NumbersNext, WritingNext DEF StoreInv, MemoryOK
<1> QED
  BY <1>1, StoreInvInit, PTL DEF Spec

\* Every variable of the store keeps its type, and a temporary file exists only
\* while a session writes one.
THEOREM StoreTypeCorrect == Spec => []StoreTypeOK
PROOF
<1>1. StoreInv => StoreTypeOK
  BY DEF StoreInv, DiskOK, WritingOK, MemoryOK, NumbersOK, StoreTypeOK
<1> QED
  BY <1>1, StoreInductive, PTL

\* Whenever the machine stops, the file is whole: write_atomic renames nothing
\* that was not synced before.
THEOREM FilesAreWhole == Spec => []NeverTorn
PROOF
<1>1. StoreInv => NeverTorn
  BY DEF StoreInv, DiskOK, NeverTorn
<1> QED
  BY <1>1, StoreInductive, PTL

-----------------------------------------------------------------------------
(* Saving. *)

LEMMA SavedNext == StoreInv /\ Saved /\ [Next]_vars => Saved'
PROOF
<1> SUFFICES ASSUME StoreInv, Saved, [Next]_vars PROVE Saved'
  OBVIOUS
<1>1. DiskOK /\ WritingOK /\ MemoryOK
  BY DEF StoreInv
<1>2. file \in Nat /\ owed \in Nat /\ owed =< file
  BY <1>1, StoreAssumption DEF MemoryOK, NumbersOK, FlagsOK
<1>3. CASE Load \/ LoadFailsForNow \/ Quarantine
  <2>1. ~quitting' /\ writing' # "directory"
    BY <1>1, <1>3 DEF Load, LoadFailsForNow, Quarantine, Started, MemoryOK, NumbersOK, FlagsOK, WritingOK
  <2>2. ~blocked' => dir'.state.version = file'
    BY <1>3 DEF Load, LoadFailsForNow, Quarantine, Started, None
  <2> QED
    BY <2>1, <2>2 DEF Saved
<1>4. CASE Handle
  <2>1. /\ up /\ writing = "no" /\ writing' # "directory" /\ dirty' = TRUE
        /\ UNCHANGED <<dir, up, quitting, blocked, owed>>
    BY <1>4 DEF Handle, Begins
  <2> QED
    BY <2>1 DEF Saved
<1>5. CASE Quit
  <2>1. /\ up /\ writing = "no" /\ writing' # "directory" /\ owed' = file
        /\ ~blocked /\ dirty => writing' = "temp"
        /\ UNCHANGED <<dir, up, file, dirty, blocked>>
    BY <1>5 DEF Quit, Begins, memVars
  <2> QED
    BY <1>2, <2>1 DEF Saved
<1>6. CASE Exit \/ Kill \/ PowerLoss \/ Edit
  BY <1>6 DEF Exit, Kill, PowerLoss, Edit, Down, Saved
<1>7. CASE WriteTemp \/ Sync \/ Tick \/ UNCHANGED vars
  <2>1. /\ UNCHANGED <<dir, up, quitting, file, dirty, blocked, owed>>
        /\ writing' = writing \/ writing' \in {"sync", "rename"}
    BY <1>7 DEF WriteTemp, Sync, Tick, vars, memVars
  <2> QED
    BY <2>1 DEF Saved
<1>8. CASE Rename
  <2>1. /\ dir'.state = temp /\ temp.version = file /\ writing' = "directory"
        /\ UNCHANGED <<up, quitting, file, dirty, blocked, owed>>
    BY <1>1, <1>8 DEF Rename, DiskOK, WritingOK, Directory, memVars
  <2> QED
    BY <2>1 DEF Saved
<1>9. CASE SyncDirectory
  BY <1>2, <1>9 DEF SyncDirectory, Saved
<1>10. CASE WriteFails
  <2>1. /\ UNCHANGED <<dir, up, file, dirty, blocked>> /\ writing' = "no"
        /\ owed' = IF dir.state.version < owed THEN 0 ELSE owed
    BY <1>10 DEF WriteFails, memVars
  <2>2. dir.state.version \in Nat
    BY <1>1, Versions DEF DiskOK
  <2>3. dir.state.version >= owed'
    BY <1>2, <2>1, <2>2
  <2> QED
    BY <2>1, <2>3 DEF Saved
<1> QED
  BY <1>3, <1>4, <1>5, <1>6, <1>7, <1>8, <1>9, <1>10 DEF Next

\* A clean quit saves: when the process exits, the file holds the levels the
\* session had when it was told to quit, or newer ones.
THEOREM CleanQuitsSave == Spec => QuitSaves
PROOF
<1>1. Init => Saved
  BY DEF Init, Saved
<1>2. StoreInv /\ Saved /\ [Next]_vars => [Exit /\ ~blocked => dir.state.version >= owed]_vars
  <2>1. ASSUME StoreInv, Saved, Exit, ~blocked PROVE dir.state.version >= owed
    BY <2>1 DEF StoreInv, MemoryOK, FlagsOK, Exit, Saved
  <2> QED
    BY <2>1
<1> QED
  BY <1>1, <1>2, SavedNext, StoreInductive, PTL DEF Spec, QuitSaves

-----------------------------------------------------------------------------
(* Files that could not be read. *)

LEMMA BackedNext == StoreInv /\ Backed /\ [Next]_vars => Backed'
PROOF
<1> SUFFICES ASSUME StoreInv, Backed, [Next]_vars PROVE Backed'
  OBVIOUS
<1>1. DiskOK /\ WritingOK /\ MemoryOK
  BY DEF StoreInv
<1>2. CASE Quarantine /\ UNCHANGED dir
  BY <1>1, <1>2 DEF Quarantine, Backed, DiskOK
<1>3. CASE Quarantine /\ ~UNCHANGED dir
  <2>1. PICK n \in FreeName :
          /\ dir' = [state |-> None, aside |-> [dir.aside EXCEPT ![n] = dir.state]]
          /\ durable' = durable \union {dir'}
    BY <1>3 DEF Quarantine
  <2>2. durable = {dir} /\ Left(dir.state) = dir.state
    BY <1>1, <1>3, WholeFilesStay DEF Quarantine, DiskOK
  <2>3. n \in Names /\ dir'.aside = [dir.aside EXCEPT ![n] = dir.state]
    BY <2>1 DEF FreeName
  <2>4. dir.aside \in [Names -> Content]
    BY <1>1 DEF DiskOK, Directory
  <2>5. ASSUME NEW d \in durable', NEW m \in Names, dir'.aside[m] # None
        PROVE  dir'.aside[m] \in {Left(d.state)} \union {d.aside[k] : k \in Names}
    <3>1. CASE d = dir'
      BY <3>1
    <3>2. CASE d = dir
      BY <2>2, <2>3, <2>4, <3>2
    <3> QED
      BY <2>1, <2>2, <2>5, <3>1, <3>2
  <2> QED
    BY <2>5 DEF Backed
<1>4. CASE Rename
  <2>1. dir'.aside = dir.aside /\ durable' = durable \union {dir'}
    BY <1>1, <1>4 DEF Rename, DiskOK, Directory
  <2> QED
    BY <2>1 DEF Backed
<1>5. CASE SyncDirectory
  BY <1>5 DEF SyncDirectory, Backed
<1>6. CASE PowerLoss \/ Edit
  BY <1>6 DEF PowerLoss, Edit, Backed
<1>7. CASE UNCHANGED <<dir, durable>>
  BY <1>7 DEF Backed
<1>8. CASE \/ Load \/ LoadFailsForNow \/ Handle \/ Tick \/ Quit \/ Exit
           \/ WriteTemp \/ Sync \/ WriteFails \/ Kill \/ UNCHANGED vars
  BY <1>7, <1>8 DEF Load, LoadFailsForNow, Handle, Tick, Quit, Exit, WriteTemp, Sync,
                    WriteFails, Kill, vars
<1> QED
  BY <1>2, <1>3, <1>4, <1>5, <1>6, <1>8 DEF Next

\* The files of a directory.
Kept(content) == content \in {dir'.state} \union {dir'.aside[n] : n \in Names}

LEMMA FilesKept ==
  ASSUME StoreInv, Backed, [Next]_vars
  PROVE  /\ \A n \in Names : dir.aside[n] # None => Kept(dir.aside[n])
         /\ /\ dir.state # None /\ (blocked \/ ~up)
            /\ ~Edit /\ (PowerLoss => ~dir.state.valid)
            => Kept(dir.state)
PROOF
<1>1. DiskOK /\ WritingOK
  BY DEF StoreInv
<1>2. CASE UNCHANGED dir
  BY <1>2 DEF Kept
<1>3. CASE Quarantine /\ ~UNCHANGED dir
  <2>1. PICK n \in FreeName :
          dir' = [state |-> None, aside |-> [dir.aside EXCEPT ![n] = dir.state]]
    BY <1>3 DEF Quarantine
  <2>2. dir.aside \in [Names -> Content] /\ n \in Names /\ dir.aside[n] = None
    BY <1>1 DEF DiskOK, Directory, FreeName
  <2>3. \A m \in Names : dir'.aside[m] = IF m = n THEN dir.state ELSE dir.aside[m]
    BY <2>1, <2>2
  <2> QED
    BY <2>2, <2>3 DEF Kept
<1>4. CASE Rename
  <2>1. dir'.aside = dir.aside /\ up /\ ~blocked
    BY <1>1, <1>4 DEF Rename, DiskOK, WritingOK, Directory
  <2> QED
    BY <2>1 DEF Kept
<1>5. CASE PowerLoss
  <2>1. PICK d \in durable : dir' = [d EXCEPT !.state = Left(d.state)]
    BY <1>5 DEF PowerLoss
  <2>2. dir'.aside = d.aside /\ dir'.state = Left(d.state)
    BY <1>1, <2>1 DEF DiskOK, Directory
  <2>3. dir.state # None /\ ~dir.state.valid => dir'.state = dir.state
    BY <1>1, <2>1, <2>2, WholeFilesStay DEF DiskOK
  <2> QED
    BY <1>5, <2>2, <2>3 DEF Backed, Kept
<1>6. CASE Edit
  <2>1. dir'.aside = dir.aside
    BY <1>1, <1>6 DEF Edit, DiskOK, Directory
  <2> QED
    BY <1>6, <2>1 DEF Kept
<1>7. CASE \/ Load \/ LoadFailsForNow \/ Handle \/ Tick \/ Quit \/ Exit
           \/ WriteTemp \/ Sync \/ SyncDirectory \/ WriteFails \/ Kill \/ UNCHANGED vars
  BY <1>2, <1>7 DEF Load, LoadFailsForNow, Handle, Tick, Quit, Exit, WriteTemp, Sync,
                    SyncDirectory, WriteFails, Kill, vars
<1> QED
  BY <1>2, <1>3, <1>4, <1>5, <1>6, <1>7 DEF Next

\* No file a session could not read is lost, whatever fails and whenever the
\* machine stops: a name that is taken is never taken again, a store that could
\* not read its file never writes, and a rename that was not on disk leaves the
\* file under its first name.
THEOREM UnreadFilesAreKept == Spec => UnreadFilesSurvive
PROOF
<1>1. Init => Backed
  BY DEF Init, Backed
<1>2. StoreInv /\ Backed /\ [Next]_vars =>
        [ LET KeptIn(content) == content \in {dir'.state} \union {dir'.aside[n] : n \in Names}
          IN /\ \A n \in Names : dir.aside[n] # None => KeptIn(dir.aside[n])
             /\ /\ dir.state # None /\ (blocked \/ ~up)
                /\ ~Edit /\ (PowerLoss => ~dir.state.valid)
                => KeptIn(dir.state) ]_vars
  BY FilesKept DEF Kept
<1> QED
  BY <1>1, <1>2, BackedNext, StoreInductive, PTL DEF Spec, UnreadFilesSurvive

=============================================================================
