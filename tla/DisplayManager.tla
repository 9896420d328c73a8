--------------------------- MODULE DisplayManager ---------------------------
(***************************************************************************)
(* The pure hot-plug state of crates/duja-core/src/manager.rs: one record  *)
(* per resolved display id, the decisions an enumeration pass derives from *)
(* it, and the record after each call.  The manager handles each id on its *)
(* own, so its functions are stated about one record.                      *)
(*                                                                         *)
(* A record the manager does not hold yet is the record Unknown.  Names,   *)
(* kinds and capabilities are metadata no decision here depends on.        *)
(***************************************************************************)
EXTENDS Integers

NoLevel == -1      \* last_user_level: None

DisplayRecord ==
  [state : {"unknown", "connected", "disconnected"},
   responsive : BOOLEAN, level : NoLevel .. 100, software_forced : BOOLEAN]

Unknown ==
  [state |-> "unknown", responsive |-> TRUE, level |-> NoLevel,
   software_forced |-> FALSE]

Known(r)     == r.state # "unknown"
Connected(r) == r.state = "connected"

\* is_responsive(id) == Some(true)
IsResponsive(r) == Known(r) /\ r.responsive

\* The decisions of one enumeration pass: existence first, then health.
Added(r, seen)      == seen /\ ~Known(r)
Reattached(r, seen) == seen /\ r.state = "disconnected"
Responsive(r, seen) == seen /\ Known(r) /\ ~r.responsive
Removed(r, seen)    == ~seen /\ Connected(r)

\* The record after the pass: a replug drops the software-only verdict, a
\* removal keeps everything for the replug to restore.
ApplyEnumeration(r, seen) ==
  IF seen
    THEN [r EXCEPT !.state = "connected", !.responsive = TRUE,
                   !.software_forced = @ /\ r.state # "disconnected"]
    ELSE IF Connected(r) THEN [r EXCEPT !.state = "disconnected"] ELSE r

RecordUserLevel(r, pct) == IF Known(r) THEN [r EXCEPT !.level = pct] ELSE r

\* mark_unresponsive acts, and reports, once per connected responsive display.
CanMarkUnresponsive(r) == Connected(r) /\ r.responsive
MarkUnresponsive(r) ==
  IF CanMarkUnresponsive(r) THEN [r EXCEPT !.responsive = FALSE] ELSE r

MarkSoftwareOnly(r)    == [r EXCEPT !.software_forced = Known(r)]
ClearSoftwareForced(r) == [r EXCEPT !.software_forced = FALSE]

=============================================================================
