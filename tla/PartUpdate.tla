------------------------------ MODULE PartUpdate ------------------------------
(***************************************************************************)
(* What flash() and erase_by_label() promise to their callers (cmd_flash,  *)
(* cmd_erase and flash_file): the medium only moves towards the contents   *)
(* that the request asks for, nothing outside the partition changes, and   *)
(* success is returned only when the whole request has been carried out.   *)
(* A failed request may leave any part of the work done.                   *)
(***************************************************************************)
CONSTANTS
    Media,      \* places of the medium
    Values,     \* what a request may put there
    Untouched   \* mark of a place the request has not changed

VARIABLES
    st,     \* "idle", "busy", "ok" or "failed"
    part,   \* places of the partition
    goal,   \* contents the request asks for
    disk    \* what the request has changed so far

vars == <<st, part, goal, disk>>

Clean == [b \in Media |-> Untouched]

Init ==
    /\ st = "idle"
    /\ part = {} /\ goal = Clean /\ disk = Clean

\* A request starts; disk tells what it has changed.
Begin ==
    /\ st = "idle"
    /\ st' = "busy"
    /\ part' \subseteq Media
    /\ goal' \in [Media -> Values]
    /\ \A b \in Media \ part' : goal'[b] = Untouched
    /\ UNCHANGED disk

\* There is no such partition: nothing is done.
Refuse ==
    /\ st = "idle"
    /\ st' = "failed"
    /\ part' \subseteq Media
    /\ goal' \in [Media -> Values]
    /\ UNCHANGED disk

\* Some places receive what the request asks for, and the request may end.
Progress ==
    /\ st = "busy"
    /\ st' \in {"busy", "ok", "failed"}
    /\ disk' \in [Media -> Values]
    /\ \A b \in Media : disk'[b] \in {disk[b], goal[b]}
    /\ st' = "ok" => disk' = goal
    /\ UNCHANGED <<part, goal>>

\* The caller has seen the result.
Return ==
    /\ st \in {"ok", "failed"}
    /\ st' = "idle"
    /\ part' = {} /\ goal' = Clean /\ disk' = Clean

Next == Begin \/ Refuse \/ Progress \/ Return

Spec == Init /\ [][Next]_vars
=============================================================================
