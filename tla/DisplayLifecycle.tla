-------------------------- MODULE DisplayLifecycle --------------------------
(***************************************************************************)
(* What the engine promises of each display, without channels, threads or  *)
(* operations in flight: when it can be controlled, when it is greyed, and *)
(* when it is given up.  Engine implements it.                             *)
(***************************************************************************)
EXTENDS Naturals

CONSTANTS Displays, MaxStrikes

VARIABLES
  status,    \* "absent": not connected; "live": has a worker; "greyed": its
             \* driver failed; "abandoned": greyed until it is replugged;
             \* "off": the engine has stopped
  strikes    \* how often its driver got stuck

lifecycleVars == <<status, strikes>>

Init ==
  /\ status = [d \in Displays |-> "absent"]
  /\ strikes = [d \in Displays |-> 0]

\* d goes from one status to another with the given number of new strikes.
Goes(d, from, to, more) ==
  /\ status[d] = from /\ status'[d] = to
  /\ strikes'[d] = strikes[d] + more

Plug(d)   == Goes(d, "absent", "live", 0)
Unplug(d) == status[d] # "off" /\ Goes(d, status[d], "absent", 0)
Fail(d)   == Goes(d, "live", "greyed", 0)
Strike(d) == Goes(d, "live", "greyed", 1)
Recover(d) == strikes[d] < MaxStrikes /\ Goes(d, "greyed", "live", 0)
GiveUp(d)  == strikes[d] >= MaxStrikes /\ Goes(d, "greyed", "abandoned", 0)
Stay(d)   == Goes(d, status[d], status[d], 0)

\* One step may concern several displays: an enumeration, or a watchdog pass.
Live ==
  \A d \in Displays :
    \/ Plug(d) \/ Unplug(d) \/ Fail(d) \/ Strike(d)
    \/ Recover(d) \/ GiveUp(d) \/ Stay(d)

Stop == \A d \in Displays : Goes(d, status[d], "off", 0)

Next == Live \/ Stop

Spec == Init /\ [][Next]_lifecycleVars

=============================================================================
