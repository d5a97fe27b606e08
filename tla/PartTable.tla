------------------------------ MODULE PartTable ------------------------------
(***************************************************************************)
(* What gpt.h promises to flash(), erase_by_label(), find_label() and      *)
(* publish_partsize(): one table of partitions, taken once from the disks  *)
(* that could be read, and every later answer from that table.  A disk is  *)
(* missing from it only if one of its reads failed.                        *)
(***************************************************************************)
EXTENDS Integers, Sequences

CONSTANTS DeviceLists, Labels, NoTable, Null, Unnamed

VARIABLES
    devices,    \* what the block devices hold
    failed,     \* devices that did not answer
    table,      \* the devices of the table, or NoTable
    answer      \* [for, status, parts]: the last answer

vars == <<devices, failed, table, answer>>

GptDisks == {h \in DOMAIN devices : devices[h].gpt /\ ~devices[h].logical}

\* The partitions in use of the table: <<device, place in its table>>.
Parts ==
    {e \in UNION {{h} \X DOMAIN devices[h].parts : h \in table} :
        devices[e[1]].parts[e[2]].type # Null}

LabelOf(e) == devices[e[1]].parts[e[2]].name
With(label) == {e \in Parts : LabelOf(e) = label}
Named == {e \in Parts : LabelOf(e) # Unnamed}

Precedes(e, f) == e[1] < f[1] \/ (e[1] = f[1] /\ e[2] < f[2])
IsFirst(e, S) == e \in S /\ \A f \in S : ~Precedes(f, e)

\* s holds each member of S once, in order.
Lists(s, S) ==
    /\ s \in Seq(S)
    /\ S = {s[k] : k \in DOMAIN s}
    /\ \A j, k \in DOMAIN s : j < k => Precedes(s[j], s[k])

Init ==
    /\ devices \in DeviceLists
    /\ failed = {} /\ table = NoTable
    /\ answer = [for |-> "none", status |-> "none", parts |-> << >>]

\* The table is taken; what is missing did not answer.
Take ==
    /\ table = NoTable
    /\ failed \subseteq failed' /\ failed' \subseteq DOMAIN devices
    /\ table' = GptDisks \ failed'
    /\ UNCHANGED <<devices, answer>>

\* Nothing can be answered as long as there is no table.
Refuse ==
    /\ table = NoTable
    /\ \E what \in {"list"} \cup Labels :
          answer' = [for |-> what, status |-> "error", parts |-> << >>]
    /\ UNCHANGED <<devices, failed, table>>

\* The first partition of that label.
Lookup(label) ==
    /\ table # NoTable
    /\ \/ /\ With(label) = {}
          /\ answer' = [for |-> label, status |-> "not_found", parts |-> << >>]
       \/ \E e \in With(label) :
             /\ IsFirst(e, With(label))
             /\ answer' = [for |-> label, status |-> "ok", parts |-> <<e>>]
    /\ UNCHANGED <<devices, failed, table>>

\* All partitions that have a name; or the list has no memory.
List ==
    /\ table # NoTable
    /\ \/ answer' = [for |-> "list", status |-> "error", parts |-> << >>]
       \/ /\ Lists(answer'.parts, Named)
          /\ answer' = [for |-> "list", status |-> "ok", parts |-> answer'.parts]
    /\ UNCHANGED <<devices, failed, table>>

Next == Take \/ Refuse \/ List \/ \E label \in Labels : Lookup(label)

Spec == Init /\ [][Next]_vars
=============================================================================
