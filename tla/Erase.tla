-------------------------------- MODULE Erase --------------------------------
(***************************************************************************)
(* Erasing a partition: erase_by_label and erase_blocks of                 *)
(* fastboot/flash.c.  Whole erase groups go to the card's erase command,   *)
(* the blocks before and after them are filled with zeros; without a card  *)
(* interface everything is filled.  One write or command is one step.  The *)
(* eMMC is external: it erases whole groups, from the group of the first   *)
(* address to that of the second, and refuses a range that ends before it  *)
(* starts.                                                                 *)
(***************************************************************************)
EXTENDS Integers

CONSTANTS
    Lbas,           \* blocks of the medium
    Partitions,     \* [start, end]: starting_lba and ending_lba, inclusive
    erase_grp_size, \* blocks of an erase group, from EXT_CSD
    N_BLOCK,        \* blocks zeroed by one write
    Faults          \* what may fail: "label", "sdio", "media", "card"

ASSUME EraseAssumption ==
    /\ Lbas \subseteq Nat
    /\ Partitions \subseteq [start : Lbas, end : Lbas]
    /\ \A p \in Partitions : p.start <= p.end /\ p.start .. p.end \subseteq Lbas
    /\ erase_grp_size \in Nat \ {0}
    /\ N_BLOCK \in Nat \ {0}
    /\ Faults \subseteq {"label", "sdio", "media", "card"}

VARIABLES
    pc,
    gparti,         \* static: the partition found last
    start, end,     \* locals of erase_blocks
    fill,           \* locals of fill_zero: next lba, last one, return point
    group,          \* what the card was told: first and last address
    sdio,           \* this request uses the card's erase command
    disk            \* what this request has done to each block

vars == <<pc, gparti, start, end, fill, group, sdio, disk>>

Fills == {"fill", "head_fill", "tail_fill"}
Points == {"idle", "begin", "head", "tail", "group_start", "group_end", "erase",
           "ok", "failed"} \cup Fills

Clean == [b \in Lbas |-> "untouched"]

TypeOK ==
    /\ pc \in Points
    /\ gparti \in [start : Lbas, end : Lbas]
    /\ start \in Nat /\ end \in Nat
    /\ fill \in [lba : Nat, end : Nat]
    /\ group \in [start : Nat, end : Nat]
    /\ sdio \in BOOLEAN
    /\ disk \in [Lbas -> {"untouched", "zero", "erased"}]

Init ==
    /\ pc = "idle"
    /\ gparti \in Partitions
    /\ start = 0 /\ end = 0
    /\ fill = [lba |-> 0, end |-> 0]
    /\ group = [start |-> 0, end |-> 0]
    /\ sdio = FALSE
    /\ disk = Clean

Fail == pc' = "failed" /\ UNCHANGED <<gparti, start, end, fill, group, sdio, disk>>

-----------------------------------------------------------------------------
(***************************************************************************)
(* erase_by_label: the label is looked up; erase_blocks gets the bounds.   *)
(***************************************************************************)
NoPartition == pc = "idle" /\ "label" \in Faults /\ Fail

EraseByLabel ==
    /\ pc = "idle"
    /\ gparti' \in Partitions
    /\ start' = gparti'.start /\ end' = gparti'.end
    /\ pc' = "begin"
    /\ UNCHANGED <<fill, group, sdio, disk>>

Return ==
    /\ pc \in {"ok", "failed"}
    /\ pc' = "idle"
    /\ start' = 0 /\ end' = 0
    /\ fill' = [lba |-> 0, end |-> 0]
    /\ group' = [start |-> 0, end |-> 0]
    /\ sdio' = FALSE
    /\ disk' = Clean
    /\ UNCHANGED gparti

-----------------------------------------------------------------------------
(***************************************************************************)
(* fill_zero(from, to), entered at the point p.  A write of N_BLOCK blocks *)
(* or of what is left.                                                     *)
(***************************************************************************)
FillZero(from, to, p) ==
    /\ pc' = p
    /\ fill' = [lba |-> from, end |-> to]

\* Mutant: a last write is not shortened.
WriteSize_Full == N_BLOCK

WriteSize ==
    IF fill.lba + N_BLOCK > fill.end + 1 THEN fill.end - fill.lba + 1 ELSE N_BLOCK

Zeroed(n) ==
    [b \in Lbas |-> IF fill.lba <= b /\ b < fill.lba + n THEN "zero" ELSE disk[b]]

\* A write fails after any of its blocks.  A failed allocation of the empty
\* blocks is a failure after none.
WriteFails ==
    /\ pc \in Fills
    /\ "media" \in Faults
    /\ \E n \in 0 .. WriteSize : disk' = Zeroed(n)
    /\ pc' = "failed"
    /\ UNCHANGED <<gparti, start, end, fill, group, sdio>>

\* Where fill_zero returns to.
After(p) ==
    CASE p = "head_fill" -> "tail"
      [] p = "tail_fill" -> "group_start"
      [] OTHER           -> "ok"

WriteZeros ==
    /\ pc \in Fills
    /\ disk' = Zeroed(WriteSize)
    /\ fill' = [fill EXCEPT !.lba = @ + N_BLOCK]
    /\ pc' = IF fill.lba + N_BLOCK <= fill.end THEN pc ELSE After(pc)
    /\ UNCHANGED <<gparti, start, end, group, sdio>>

-----------------------------------------------------------------------------
(***************************************************************************)
(* erase_blocks.                                                           *)
(***************************************************************************)
\* Mutant: partitions smaller than a group are not set apart.
TooSmall_Never == FALSE

TooSmall == end - start + 1 < erase_grp_size

\* The card interface or its EXT_CSD may be missing.
EraseBlocks ==
    /\ pc = "begin"
    /\ \E found \in (IF "sdio" \in Faults THEN BOOLEAN ELSE {TRUE}) :
          sdio' = (found /\ ~TooSmall)
    /\ IF sdio' THEN pc' = "head" /\ UNCHANGED fill
       ELSE FillZero(start, end, "fill")
    /\ UNCHANGED <<gparti, start, end, group, disk>>

Head ==
    /\ pc = "head"
    /\ LET reminder == start % erase_grp_size IN
       IF reminder # 0
       THEN /\ FillZero(start, start + erase_grp_size - reminder - 1, "head_fill")
            /\ start' = start + erase_grp_size - reminder
       ELSE pc' = "tail" /\ UNCHANGED <<fill, start>>
    /\ UNCHANGED <<gparti, end, group, sdio, disk>>

\* Mutant: the last group is looked for with end instead of end + 1.
TailReminder_EndExclusive == end % erase_grp_size

TailReminder == (end + 1) % erase_grp_size

Tail ==
    /\ pc = "tail"
    /\ IF TailReminder # 0
       THEN /\ FillZero(end + 1 - TailReminder, end, "tail_fill")
            /\ end' = end - TailReminder
       ELSE pc' = "group_start" /\ UNCHANGED <<fill, end>>
    /\ UNCHANGED <<gparti, start, group, sdio, disk>>

\* secure_erase: three commands.
CommandFails ==
    /\ pc \in {"group_start", "group_end", "erase"}
    /\ "card" \in Faults
    /\ Fail

EraseGroupStart ==
    /\ pc = "group_start"
    /\ group' = [group EXCEPT !.start = start]
    /\ pc' = "group_end"
    /\ UNCHANGED <<gparti, start, end, fill, sdio, disk>>

EraseGroupEnd ==
    /\ pc = "group_end"
    /\ group' = [group EXCEPT !.end = end]
    /\ pc' = "erase"
    /\ UNCHANGED <<gparti, start, end, fill, sdio, disk>>

GroupOf(b) == b \div erase_grp_size

CardErases(b) == GroupOf(group.start) <= GroupOf(b) /\ GroupOf(b) <= GroupOf(group.end)

EraseCommand ==
    /\ pc = "erase"
    /\ IF group.start <= group.end
       THEN /\ disk' = [b \in Lbas |-> IF CardErases(b) THEN "erased" ELSE disk[b]]
            /\ pc' = "ok"
       ELSE /\ pc' = "failed"
            /\ UNCHANGED disk
    /\ UNCHANGED <<gparti, start, end, fill, group, sdio>>

Work ==
    \/ EraseBlocks \/ WriteZeros \/ WriteFails \/ Head \/ Tail
    \/ EraseGroupStart \/ EraseGroupEnd \/ EraseCommand \/ CommandFails

Next == NoPartition \/ EraseByLabel \/ Return \/ Work

Spec == Init /\ [][Next]_vars

-----------------------------------------------------------------------------
(***************************************************************************)
(* Properties.                                                             *)
(***************************************************************************)
InPart(b) == gparti.start <= b /\ b <= gparti.end

\* erase_by_label implements the promise of PartUpdate: only blocks of the
\* partition are erased, by whichever way, and a success has erased them all.
Contract == INSTANCE PartUpdate WITH
    Media <- Lbas,
    Values <- {0, 1},
    Untouched <- 0,
    st <- IF pc \in {"idle", "ok", "failed"} THEN pc ELSE "busy",
    part <- IF pc = "idle" THEN {} ELSE {b \in Lbas : InPart(b)},
    goal <- [b \in Lbas |-> IF pc # "idle" /\ InPart(b) THEN 1 ELSE 0],
    disk <- [b \in Lbas |-> IF disk[b] = "untouched" THEN 0 ELSE 1]
ImplementsPartUpdate == Contract!Spec

WholeGroup(b) ==
    /\ gparti.start <= GroupOf(b) * erase_grp_size
    /\ (GroupOf(b) + 1) * erase_grp_size - 1 <= gparti.end

\* A success through the card has given every whole group of the partition
\* to its erase command, and has only zeroed the blocks around them.
WholeGroupsErased ==
    pc = "ok" /\ sdio =>
        \A b \in Lbas : InPart(b) =>
            disk[b] = (IF WholeGroup(b) THEN "erased" ELSE "zero")
=============================================================================
