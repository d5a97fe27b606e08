----------------------------- MODULE MCBootLogic -----------------------------
(***************************************************************************)
(* BootLogic under the environments of its runs: the .cfg files bl_*.cfg   *)
(* choose the build options, what the OS and the firmware may do and which *)
(* parts of the platform may fail.                                         *)
(***************************************************************************)
EXTENDS BootLogic

\* The user turns the device on, and the hardware watchdog (tco_watchdog) is
\* running when the kernel starts, so a hung OS is reset.
StormSpec == FairSpec /\ WF_vars(PowerOn) /\ WF_vars(OsWatchdog)

\* When every OS image hangs, the watchdog resets lead down the ladder of
\* fallback_target to rescue mode or back to the firmware, through the
\* counter and, in builds that have it, the cold reset of every round.
StormReachesRescue == <>(pc \in {"rescue", "exit"})
=============================================================================
