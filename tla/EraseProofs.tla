------------------------------ MODULE EraseProofs ------------------------------
(***************************************************************************)
(* Theorems about Erase, for every medium, set of partitions, size of an   *)
(* erase group, size of a write and choice of faults.                      *)
(***************************************************************************)
EXTENDS Erase, TLAPS

-----------------------------------------------------------------------------
(***************************************************************************)
(* The inductive invariant.  The whole groups of the partition are those   *)
(* from Up to Down - 1; what erase_blocks has zeroed so far is known at    *)
(* each of its points.                                                     *)
(***************************************************************************)
\* First block of the first whole group, and the block after the last one.
Up ==
    erase_grp_size *
        (IF gparti.start % erase_grp_size = 0 THEN gparti.start \div erase_grp_size
         ELSE gparti.start \div erase_grp_size + 1)
Down == erase_grp_size * ((gparti.end + 1) \div erase_grp_size)

Commands == {"group_start", "group_end", "erase"}
CardPoints == {"head", "head_fill", "tail", "tail_fill"} \cup Commands

HeadBlock(b) == gparti.start <= b /\ b < Up
TailBlock(b) == Down <= b /\ b <= gparti.end

\* The blocks zeroed so far.
ZeroNow(b) ==
    \/ pc \in {"fill", "head_fill"} /\ gparti.start <= b /\ b < fill.lba
    \/ pc \in {"tail", "tail_fill"} \cup Commands /\ HeadBlock(b)
    \/ pc = "tail_fill" /\ Down <= b /\ b < fill.lba
    \/ pc \in Commands /\ TailBlock(b)

\* Where the locals of erase_blocks and fill_zero are.
LocalsInv ==
    /\ pc \in CardPoints =>
          sdio /\ erase_grp_size <= gparti.end - gparti.start + 1
    /\ pc = "fill" => ~sdio /\ fill.end = gparti.end
    /\ pc \in {"fill", "head_fill"} => gparti.start <= fill.lba
    /\ pc \in Fills => fill.lba <= fill.end
    /\ pc = "head_fill" => fill.end = Up - 1
    /\ pc = "tail_fill" => fill.end = gparti.end /\ Down <= fill.lba
    /\ pc \in {"begin", "head"} => start = gparti.start
    /\ pc \in {"begin", "head", "head_fill", "tail"} => end = gparti.end
    /\ pc \in CardPoints \ {"head"} => start = Up
    /\ pc \in {"tail_fill"} \cup Commands => end = Down - 1
    /\ pc \in {"group_end", "erase"} => group.start = Up
    /\ pc = "erase" => group.end = Down - 1

DiskInv ==
    /\ pc \notin {"ok", "failed"} =>
          \A b \in Lbas : disk[b] = IF ZeroNow(b) THEN "zero" ELSE "untouched"
    /\ pc = "ok" /\ ~sdio =>
          \A b \in Lbas : disk[b] = IF InPart(b) THEN "zero" ELSE "untouched"
    /\ pc = "ok" /\ sdio =>
          \A b \in Lbas : disk[b] =
              IF Up <= b /\ b < Down THEN "erased"
              ELSE IF HeadBlock(b) \/ TailBlock(b) THEN "zero" ELSE "untouched"
    /\ \A b \in Lbas : disk[b] # "untouched" => InPart(b)

EraseInv ==
    /\ TypeOK
    /\ gparti \in Partitions
    /\ LocalsInv
    /\ DiskInv

-----------------------------------------------------------------------------
(***************************************************************************)
(* Division by the size of an erase group.                                 *)
(***************************************************************************)
LEMMA DivMod ==
  ASSUME NEW g \in Nat \ {0}, NEW a \in Nat
  PROVE  /\ a = g * (a \div g) + (a % g)
         /\ a \div g \in Nat
         /\ a % g \in 0 .. g - 1
  <1>1. g \in Int /\ g > 0 /\ a \in Int /\ a >= 0
    OBVIOUS
  <1>2. a = g * (a \div g) + (a % g)
    BY <1>1, Z3
  <1>3. a % g \in 0 .. g - 1
    BY <1>1, Z3
  <1>4. a \div g \in Int /\ a \div g >= 0
    BY <1>1, Z3
  <1> QED
    BY <1>2, <1>3, <1>4

\* Multiples of g are ordered as their factors, g apart.
LEMMA Multiples ==
  ASSUME NEW g \in Nat \ {0}, NEW q \in Nat, NEW r \in Nat
  PROVE  /\ q <= r <=> g * q <= g * r
         /\ q < r <=> g * q + g <= g * r
         /\ g * q \in Nat
         /\ g * (q + 1) = g * q + g
  OBVIOUS

\* The quotient is the only multiple less than g below.
LEMMA DivUnique ==
  ASSUME NEW g \in Nat \ {0}, NEW a \in Nat, NEW q \in Nat, g * q <= a, a < g * q + g
  PROVE  a \div g = q
  OBVIOUS

LEMMA PartBounds ==
  ASSUME gparti \in Partitions
  PROVE  /\ gparti.start \in Nat /\ gparti.end \in Nat /\ gparti.start <= gparti.end
         /\ \A b \in Nat : InPart(b) => b \in Lbas
  <1>1. gparti \in [start : Lbas, end : Lbas]
    BY EraseAssumption
  <1>2. gparti.start <= gparti.end /\ gparti.start .. gparti.end \subseteq Lbas
    BY EraseAssumption
  <1>3. gparti.start \in Nat /\ gparti.end \in Nat
    BY <1>1, EraseAssumption
  <1> QED
    BY <1>2, <1>3 DEF InPart

\* Up and Down are the rounded bounds of the partition, as erase_blocks
\* computes them from the reminders.
LEMMA Rounded ==
  ASSUME gparti \in Partitions
  PROVE  /\ gparti.start \in Nat /\ gparti.end \in Nat /\ gparti.start <= gparti.end
         /\ Up \in Nat /\ Down \in Nat
         /\ gparti.start <= Up /\ Up < gparti.start + erase_grp_size
         /\ Down <= gparti.end + 1 /\ gparti.end + 1 < Down + erase_grp_size
         /\ Up = IF gparti.start % erase_grp_size = 0 THEN gparti.start
                 ELSE gparti.start + erase_grp_size - (gparti.start % erase_grp_size)
         /\ Down = gparti.end + 1 - ((gparti.end + 1) % erase_grp_size)
         /\ gparti.start % erase_grp_size \in 0 .. erase_grp_size - 1
         /\ (gparti.end + 1) % erase_grp_size \in 0 .. erase_grp_size - 1
         /\ erase_grp_size <= gparti.end - gparti.start + 1 => Up <= Down /\ Down > 0
  <1> DEFINE g == erase_grp_size
             s == gparti.start
             e == gparti.end + 1
             u == IF s % g = 0 THEN s \div g ELSE s \div g + 1
             d == e \div g
  <1>1. g \in Nat \ {0} /\ s \in Nat /\ gparti.end \in Nat /\ s <= gparti.end /\ e \in Nat
    BY EraseAssumption, PartBounds
  <1>2. Up = g * u /\ Down = g * d
    BY DEF Up, Down
  <1> HIDE DEF g, s, e
  <1>3. /\ s = g * (s \div g) + (s % g) /\ s \div g \in Nat /\ s % g \in 0 .. g - 1
        /\ e = g * (e \div g) + (e % g) /\ e \div g \in Nat /\ e % g \in 0 .. g - 1
    BY <1>1, DivMod
  <1>4. g * (s \div g) \in Nat /\ g * (s \div g + 1) = g * (s \div g) + g /\ g * d \in Nat
    BY <1>1, <1>3, Multiples
  <1>5. g * u = IF s % g = 0 THEN s ELSE s + g - (s % g)
    BY <1>1, <1>3, <1>4
  <1>6. g * d = e - (e % g)
    BY <1>1, <1>3, <1>4
  <1>7. u \in Nat /\ d \in Nat
    BY <1>3
  <1> HIDE DEF u, d
  <1>8. ASSUME g <= e - s PROVE g * u <= g * d /\ g * d > 0
    <2>1. g * u \in Nat /\ g * d \in Nat /\ g * u < s + g /\ e < g * d + g
      BY <1>1, <1>3, <1>5, <1>6
    <2>2. g * u < g * d + g
      BY <1>1, <1>8, <2>1
    <2>3. ~(d < u)
      BY <1>1, <1>7, <2>1, <2>2, Multiples
    <2>4. u <= d
      BY <1>7, <2>3
    <2>5. d # 0
      <3>1. g * 0 = 0
        BY <1>1
      <3> QED
        BY <1>1, <1>8, <2>1, <3>1
    <2>6. g * 1 <= g * d
      BY <1>1, <1>7, <2>5, Multiples
    <2> QED
      BY <1>1, <1>7, <2>4, <2>6, Multiples
  <1>9. /\ s <= g * u /\ g * u < s + g /\ g * u \in Nat
        /\ g * d <= e /\ e < g * d + g /\ g * d \in Nat
    BY <1>1, <1>3, <1>5, <1>6
  <1>11. g <= gparti.end - s + 1 => Up <= Down /\ Down > 0
    <2>1. e = gparti.end + 1
      BY DEF e
    <2>2. g <= gparti.end - s + 1 => g <= e - s
      BY <1>1, <2>1
    <2> QED
      BY <1>2, <1>8, <2>2
  <1>12. /\ Up = IF s % g = 0 THEN s ELSE s + g - (s % g)
         /\ Down = e - (e % g)
         /\ s <= Up /\ Up < s + g /\ Up \in Nat
         /\ Down <= e /\ e < Down + g /\ Down \in Nat
    BY <1>2, <1>5, <1>6, <1>9
  <1>13. gparti.start = s /\ gparti.end + 1 = e /\ erase_grp_size = g
    BY DEF g, s, e
  <1>14. gparti.end - gparti.start + 1 = e - s /\ gparti.end \in Nat
    BY <1>1, <1>13
  <1> HIDE DEF g, s, e
  <1> QED
    BY <1>1, <1>3, <1>11, <1>12, <1>13, <1>14

\* Both bounds are multiples of the group size.
LEMMA RoundedMultiples ==
  ASSUME gparti \in Partitions
  PROVE  \E u, d \in Nat : Up = erase_grp_size * u /\ Down = erase_grp_size * d
  <1> DEFINE u == IF gparti.start % erase_grp_size = 0
                  THEN gparti.start \div erase_grp_size
                  ELSE gparti.start \div erase_grp_size + 1
             d == (gparti.end + 1) \div erase_grp_size
  <1>1. gparti.start \in Nat /\ gparti.end + 1 \in Nat /\ erase_grp_size \in Nat \ {0}
    BY EraseAssumption, PartBounds
  <1>2. u \in Nat /\ d \in Nat
    BY <1>1, DivMod
  <1>3. Up = erase_grp_size * u /\ Down = erase_grp_size * d
    BY DEF Up, Down
  <1> HIDE DEF u, d
  <1> QED
    BY <1>2, <1>3

\* What the card erases between two whole groups is what lies between them.
LEMMA CardRange ==
  ASSUME gparti \in Partitions, NEW b \in Nat, Up <= Down - 1
  PROVE  (GroupOf(Up) <= GroupOf(b) /\ GroupOf(b) <= GroupOf(Down - 1))
            <=> (Up <= b /\ b < Down)
  <1> DEFINE g == erase_grp_size
  <1>1. PICK u, d \in Nat : Up = g * u /\ Down = g * d
    BY RoundedMultiples
  <1>2. g \in Nat \ {0}
    BY EraseAssumption
  <1>3. PICK q \in Nat : q = b \div g /\ g * q <= b /\ b < g * q + g
    <2>1. /\ b = g * (b \div g) + (b % g) /\ b \div g \in Nat /\ b % g \in 0 .. g - 1
      BY <1>2, DivMod
    <2>2. g * (b \div g) \in Nat
      BY <1>2, <2>1, Multiples
    <2> QED
      BY <1>2, <2>1, <2>2
  <1>4. Up \in Nat /\ Down \in Nat /\ Down > 0
    BY Rounded
  <1>5. d # 0
    <2>1. g * 0 = 0
      BY <1>2
    <2> QED
      BY <1>1, <1>4, <2>1
  <1>6. PICK c \in Nat : d = c + 1
    <2>1. d - 1 \in Nat /\ d = (d - 1) + 1
      BY <1>5
    <2> QED
      BY <2>1
  <1>7. Down = g * c + g /\ g * c \in Nat
    BY <1>1, <1>2, <1>6, Multiples
  <1> HIDE DEF g
  <1>8. Up \div g = u /\ (Down - 1) \div g = c /\ b \div g = q
    <2>1. g * u <= Up /\ Up < g * u + g
      BY <1>1, <1>2, <1>4
    <2>2. Down - 1 \in Nat /\ g * c <= Down - 1 /\ Down - 1 < g * c + g
      BY <1>2, <1>4, <1>7
    <2> QED
      BY <1>2, <1>3, <1>4, <2>1, <2>2, DivUnique
  <1>9. u <= q <=> Up <= b
    <2>1. u <= q <=> g * u <= g * q
      BY <1>2, Multiples
    <2>2. q < u <=> g * q + g <= g * u
      BY <1>2, Multiples
    <2>3. g * q \in Nat /\ g * u \in Nat
      BY <1>2, Multiples
    <2> QED
      BY <1>1, <1>2, <1>3, <2>1, <2>2, <2>3
  <1>10. q <= c <=> b < Down
    <2>1. q <= c <=> g * q <= g * c
      BY <1>2, Multiples
    <2>2. c < q <=> g * c + g <= g * q
      BY <1>2, Multiples
    <2>3. g * q \in Nat
      BY <1>2, Multiples
    <2> QED
      BY <1>2, <1>3, <1>7, <2>1, <2>2, <2>3
  <1> QED
    BY <1>8, <1>9, <1>10 DEF GroupOf, g

\* And it is the set of the blocks of whole groups.
LEMMA WholeGroupRange ==
  ASSUME gparti \in Partitions, NEW b \in Nat
  PROVE  WholeGroup(b) <=> (Up <= b /\ b < Down)
  <1> DEFINE g == erase_grp_size
             s == gparti.start
             e == gparti.end + 1
  <1>1. PICK u, d \in Nat : Up = g * u /\ Down = g * d
    BY RoundedMultiples
  <1>2. g \in Nat \ {0}
    BY EraseAssumption
  <1>3. PICK q \in Nat : q = b \div g /\ g * q <= b /\ b < g * q + g
    <2>1. /\ b = g * (b \div g) + (b % g) /\ b \div g \in Nat /\ b % g \in 0 .. g - 1
      BY <1>2, DivMod
    <2>2. g * (b \div g) \in Nat
      BY <1>2, <2>1, Multiples
    <2> QED
      BY <1>2, <2>1, <2>2
  <1>4. /\ Up \in Nat /\ s <= Up /\ Up < s + g /\ s \in Nat
        /\ Down \in Nat /\ Down <= e /\ e < Down + g /\ e \in Nat
        /\ gparti.end \in Nat
    BY Rounded
  <1>5. WholeGroup(b) <=> s <= g * q /\ g * q + g <= e
    <2>1. q * g = g * q /\ (q + 1) * g = g * q + g /\ g * q \in Nat
      BY <1>2
    <2>2. gparti.end = e - 1
      BY <1>4
    <2> HIDE DEF g, e
    <2>3. (q + 1) * g - 1 <= e - 1 <=> g * q + g <= e
      BY <1>2, <1>4, <2>1
    <2> QED
      BY <1>3, <2>1, <2>2, <2>3 DEF WholeGroup, GroupOf, g
  <1> HIDE DEF g, s, e
  <1>6. g * q \in Nat /\ g * u \in Nat /\ g * d \in Nat
    BY <1>2, Multiples
  <1>7. s <= g * q <=> Up <= b
    <2>1. u <= q <=> g * u <= g * q
      BY <1>2, Multiples
    <2>2. q < u <=> g * q + g <= g * u
      BY <1>2, Multiples
    <2> QED
      BY <1>1, <1>2, <1>3, <1>4, <1>6, <2>1, <2>2
  <1>8. g * q + g <= e <=> b < Down
    <2>1. q < d <=> g * q + g <= g * d
      BY <1>2, Multiples
    <2>2. d <= q <=> g * d <= g * q
      BY <1>2, Multiples
    <2> QED
      BY <1>1, <1>2, <1>3, <1>4, <1>6, <2>1, <2>2
  <1> QED
    BY <1>5, <1>7, <1>8

-----------------------------------------------------------------------------
(***************************************************************************)
(* Type correctness, and the locals.                                       *)
(***************************************************************************)
\* One write zeroes what is left, and it is the last one exactly then.
LEMMA WriteBounds ==
  ASSUME TypeOK, fill.lba <= fill.end
  PROVE  /\ WriteSize \in Nat \ {0}
         /\ fill.lba + N_BLOCK <= fill.end => WriteSize = N_BLOCK
         /\ ~(fill.lba + N_BLOCK <= fill.end) => fill.lba + WriteSize = fill.end + 1
         /\ fill.lba + WriteSize <= fill.end + 1
  BY EraseAssumption DEF TypeOK, WriteSize

LEMMA TypeStep == EraseInv /\ [Next]_vars => TypeOK' /\ gparti' \in Partitions
  <1> SUFFICES ASSUME EraseInv, [Next]_vars
               PROVE  TypeOK' /\ gparti' \in Partitions
    OBVIOUS
  <1> USE DEF EraseInv, TypeOK
  <1>a. erase_grp_size \in Nat \ {0} /\ N_BLOCK \in Nat \ {0}
    BY EraseAssumption
  <1>1. CASE NoPartition \/ CommandFails
    BY <1>1 DEF NoPartition, CommandFails, Fail, Points
  <1>2. CASE EraseByLabel
    <2>1. gparti' \in Partitions
      BY <1>2 DEF EraseByLabel
    <2>2. gparti' \in [start : Lbas, end : Lbas]
      BY <2>1, EraseAssumption
    <2>3. gparti'.start \in Nat /\ gparti'.end \in Nat
      BY <2>2, EraseAssumption
    <2> QED
      BY <1>2, <2>1, <2>2, <2>3 DEF EraseByLabel, Points
  <1>3. CASE Return
    BY <1>3 DEF Return, Points, Clean
  <1>4. CASE EraseBlocks
    BY <1>4 DEF EraseBlocks, FillZero, Points, Fills
  <1>5. CASE WriteZeros
    <2>1. disk' \in [Lbas -> {"untouched", "zero", "erased"}]
      BY <1>5 DEF WriteZeros, Zeroed
    <2>2. fill' \in [lba : Nat, end : Nat]
      BY <1>5, <1>a DEF WriteZeros
    <2> QED
      BY <1>5, <2>1, <2>2 DEF WriteZeros, After, Points, Fills
  <1>6. CASE WriteFails
    BY <1>6 DEF WriteFails, Zeroed, Points
  <1>7. CASE Head
    <2> DEFINE r == start % erase_grp_size
    <2>1. start \in Nat /\ r \in 0 .. erase_grp_size - 1
      BY <1>a, DivMod
    <2>2. CASE r = 0
      BY <1>7, <2>2 DEF Head, Points
    <2>3. CASE r # 0
      <3>1. /\ start' = start + erase_grp_size - r
            /\ fill' = [lba |-> start, end |-> start + erase_grp_size - r - 1]
            /\ pc' = "head_fill"
        BY <1>7, <2>3 DEF Head, FillZero
      <3> HIDE DEF r
      <3>2. start' \in Nat /\ fill' \in [lba : Nat, end : Nat]
        BY <1>a, <2>1, <3>1
      <3> QED
        BY <1>7, <3>1, <3>2 DEF Head, Points, Fills
    <2> QED
      BY <2>2, <2>3
  <1>8. CASE Tail
    <2>1. /\ end = gparti.end /\ end \in Nat
          /\ TailReminder \in 0 .. erase_grp_size - 1
          /\ Down = end + 1 - TailReminder
          /\ Down \in Nat /\ Down > 0
      BY <1>8, Rounded DEF Tail, LocalsInv, CardPoints, TailReminder
    <2>2. CASE TailReminder = 0
      BY <1>8, <2>2 DEF Tail, Points
    <2>3. CASE TailReminder # 0
      <3>1. /\ end' = Down - 1
            /\ fill' = [lba |-> Down, end |-> end]
            /\ pc' = "tail_fill"
        BY <1>a, <1>8, <2>1, <2>3 DEF Tail, FillZero
      <3> QED
        BY <1>8, <2>1, <3>1 DEF Tail, Points, Fills
    <2> QED
      BY <2>2, <2>3
  <1>9. CASE EraseGroupStart \/ EraseGroupEnd
    BY <1>9 DEF EraseGroupStart, EraseGroupEnd, Points
  <1>10. CASE EraseCommand
    BY <1>10 DEF EraseCommand, Points
  <1>11. CASE UNCHANGED vars
    BY <1>11 DEF vars
  <1> QED
    BY <1>1, <1>2, <1>3, <1>4, <1>5, <1>6, <1>7, <1>8, <1>9, <1>10, <1>11
    DEF Next, Work

\* Up and Down belong to the partition.
LEMMA SamePart == gparti' = gparti => Up' = Up /\ Down' = Down
  BY DEF Up, Down

LEMMA LocalsStep ==
  ASSUME EraseInv, TypeOK', [Next]_vars
  PROVE  LocalsInv'
  <1> USE DEF EraseInv, TypeOK, CardPoints, Commands, Fills
  <1>a. erase_grp_size \in Nat \ {0} /\ N_BLOCK \in Nat \ {0}
    BY EraseAssumption
  <1>b. /\ gparti.start \in Nat /\ gparti.end \in Nat /\ gparti.start <= gparti.end
        /\ Up \in Nat /\ Down \in Nat
        /\ gparti.start <= Up
        /\ Down <= gparti.end + 1
    BY Rounded
  <1>1. CASE NoPartition \/ CommandFails \/ WriteFails \/ Return \/ EraseCommand
    BY <1>1 DEF NoPartition, CommandFails, WriteFails, Return, EraseCommand, Fail, LocalsInv
  <1>2. CASE EraseByLabel
    BY <1>2 DEF EraseByLabel, LocalsInv
  <1>3. CASE EraseBlocks
    <2>1. start = gparti.start /\ end = gparti.end /\ UNCHANGED <<gparti, start, end>>
      BY <1>3 DEF EraseBlocks, LocalsInv
    <2>2. CASE sdio'
      <3>1. ~TooSmall /\ pc' = "head"
        BY <1>3, <2>2 DEF EraseBlocks
      <3>2. erase_grp_size <= gparti.end - gparti.start + 1
        BY <1>a, <1>b, <2>1, <3>1 DEF TooSmall
      <3> QED
        BY <2>1, <2>2, <3>1, <3>2 DEF LocalsInv
    <2>3. CASE ~sdio'
      <3>1. pc' = "fill" /\ fill' = [lba |-> start, end |-> end]
        BY <1>3, <2>3 DEF EraseBlocks, FillZero
      <3> QED
        BY <1>b, <2>1, <2>3, <3>1 DEF LocalsInv
    <2> QED
      BY <2>2, <2>3
  <1>4. CASE WriteZeros
    <2>1. /\ UNCHANGED <<gparti, start, end, group, sdio>>
          /\ fill'.lba = fill.lba + N_BLOCK /\ fill'.end = fill.end
          /\ pc' = IF fill.lba + N_BLOCK <= fill.end THEN pc ELSE After(pc)
          /\ pc \in Fills
      BY <1>4 DEF WriteZeros
    <2>2. Up' = Up /\ Down' = Down
      BY <2>1, SamePart
    <2>3. CASE fill.lba + N_BLOCK <= fill.end
      BY <1>a, <1>b, <2>1, <2>2, <2>3 DEF LocalsInv
    <2>4. CASE ~(fill.lba + N_BLOCK <= fill.end)
      BY <2>1, <2>2, <2>4 DEF LocalsInv, After
    <2> QED
      BY <2>3, <2>4
  <1>5. CASE Head
    <2> DEFINE r == start % erase_grp_size
    <2>1. /\ pc = "head" /\ start = gparti.start /\ end = gparti.end
          /\ UNCHANGED <<gparti, end, group, sdio>>
          /\ sdio /\ erase_grp_size <= gparti.end - gparti.start + 1
      BY <1>5 DEF Head, LocalsInv
    <2>2. /\ r \in 0 .. erase_grp_size - 1
          /\ Up = IF r = 0 THEN start ELSE start + erase_grp_size - r
      BY <2>1, Rounded
    <2>3. Up' = Up /\ Down' = Down
      BY <2>1, SamePart
    <2>4. CASE r = 0
      <3>1. pc' = "tail" /\ UNCHANGED <<fill, start>>
        BY <1>5, <2>4 DEF Head
      <3> HIDE DEF r
      <3> QED
        BY <2>1, <2>2, <2>3, <2>4, <3>1 DEF LocalsInv
    <2>5. CASE r # 0
      <3>1. /\ start' = start + erase_grp_size - r
            /\ fill' = [lba |-> start, end |-> start + erase_grp_size - r - 1]
            /\ pc' = "head_fill"
        BY <1>5, <2>5 DEF Head, FillZero
      <3> HIDE DEF r
      <3> QED
        BY <1>a, <1>b, <2>1, <2>2, <2>3, <2>5, <3>1 DEF LocalsInv
    <2> QED
      BY <2>4, <2>5
  <1>6. CASE Tail
    <2>1. /\ pc = "tail" /\ start = Up /\ end = gparti.end
          /\ UNCHANGED <<gparti, start, group, sdio>>
          /\ sdio /\ erase_grp_size <= gparti.end - gparti.start + 1
      BY <1>6 DEF Tail, LocalsInv
    <2>2. /\ TailReminder \in 0 .. erase_grp_size - 1
          /\ Down = end + 1 - TailReminder
      BY <2>1, Rounded DEF TailReminder
    <2>3. Up' = Up /\ Down' = Down
      BY <2>1, SamePart
    <2>4. CASE TailReminder = 0
      <3>1. pc' = "group_start" /\ UNCHANGED <<fill, end>>
        BY <1>6, <2>4 DEF Tail
      <3>2. end = Down - 1
        BY <1>b, <2>1, <2>2, <2>4
      <3> QED
        BY <2>1, <2>3, <3>1, <3>2 DEF LocalsInv
    <2>5. CASE TailReminder # 0
      <3>1. /\ end' = end - TailReminder
            /\ fill' = [lba |-> end + 1 - TailReminder, end |-> end]
            /\ pc' = "tail_fill"
        BY <1>6, <2>5 DEF Tail, FillZero
      <3>2. end' = Down - 1 /\ fill' = [lba |-> Down, end |-> end] /\ Down <= end
        BY <1>a, <1>b, <2>1, <2>2, <2>5, <3>1
      <3> QED
        BY <1>b, <2>1, <2>3, <3>1, <3>2 DEF LocalsInv
    <2> QED
      BY <2>4, <2>5
  <1>7. CASE EraseGroupStart \/ EraseGroupEnd
    <2>1. Up' = Up /\ Down' = Down
      BY <1>7, SamePart DEF EraseGroupStart, EraseGroupEnd
    <2> QED
      BY <1>7, <2>1 DEF EraseGroupStart, EraseGroupEnd, LocalsInv
  <1>8. CASE UNCHANGED vars
    BY <1>8, SamePart DEF vars, LocalsInv
  <1> QED
    BY <1>1, <1>2, <1>3, <1>4, <1>5, <1>6, <1>7, <1>8 DEF Next, Work

-----------------------------------------------------------------------------
(***************************************************************************)
(* The medium.                                                             *)
(***************************************************************************)
\* What is zeroed on the way lies in the partition.
LEMMA ZeroInPart ==
  ASSUME EraseInv, NEW b \in Lbas
  PROVE  /\ ZeroNow(b) => InPart(b)
         /\ InPart(b) => HeadBlock(b) \/ TailBlock(b) \/ (Up <= b /\ b < Down)
         /\ erase_grp_size <= gparti.end - gparti.start + 1 =>
               (InPart(b) <=> HeadBlock(b) \/ TailBlock(b) \/ (Up <= b /\ b < Down))
  <1> USE DEF EraseInv, TypeOK, LocalsInv, Fills, CardPoints, Commands
  <1>1. /\ gparti.start \in Nat /\ gparti.end \in Nat /\ gparti.start <= gparti.end
        /\ Up \in Nat /\ Down \in Nat /\ gparti.start <= Up /\ Down <= gparti.end + 1
        /\ Up < gparti.start + erase_grp_size /\ gparti.end + 1 < Down + erase_grp_size
        /\ erase_grp_size <= gparti.end - gparti.start + 1 => Up <= Down
    BY Rounded
  <1>2. b \in Nat /\ erase_grp_size \in Nat \ {0}
    BY EraseAssumption
  <1>3. erase_grp_size <= gparti.end - gparti.start + 1 =>
            (HeadBlock(b) \/ TailBlock(b) => InPart(b))
    BY <1>1, <1>2 DEF HeadBlock, TailBlock, InPart
  <1>4. ZeroNow(b) => InPart(b)
    BY <1>1, <1>2, <1>3 DEF ZeroNow, HeadBlock, TailBlock, InPart
  <1>5. erase_grp_size <= gparti.end - gparti.start + 1 =>
            (InPart(b) <=> HeadBlock(b) \/ TailBlock(b) \/ (Up <= b /\ b < Down))
    BY <1>1, <1>2 DEF HeadBlock, TailBlock, InPart
  <1>6. InPart(b) => HeadBlock(b) \/ TailBlock(b) \/ (Up <= b /\ b < Down)
    BY <1>1, <1>2 DEF HeadBlock, TailBlock, InPart
  <1> QED
    BY <1>4, <1>5, <1>6

\* So does what fill_zero writes next.
LEMMA WrittenInPart ==
  ASSUME EraseInv, pc \in Fills, NEW b \in Lbas, fill.lba <= b, b < fill.lba + WriteSize
  PROVE  InPart(b)
  <1>1. /\ gparti.start \in Nat /\ gparti.end \in Nat
        /\ Up \in Nat /\ Down \in Nat /\ gparti.start <= Up /\ Down <= gparti.end + 1
        /\ erase_grp_size <= gparti.end - gparti.start + 1 => Up <= Down
    BY Rounded DEF EraseInv
  <1>2. fill.lba \in Nat /\ fill.end \in Nat /\ fill.lba <= fill.end
    BY DEF EraseInv, TypeOK, LocalsInv
  <1>3. b \in Nat /\ fill.lba + WriteSize <= fill.end + 1 /\ WriteSize \in Nat
    BY <1>2, WriteBounds, EraseAssumption DEF EraseInv
  <1>4. b <= fill.end
    BY <1>2, <1>3
  <1>5. CASE pc = "fill"
    <2>1. gparti.start <= fill.lba /\ fill.end = gparti.end
      BY <1>5 DEF EraseInv, LocalsInv
    <2> QED
      BY <1>1, <1>2, <1>3, <1>4, <2>1 DEF InPart
  <1>6. CASE pc = "head_fill"
    <2>1. gparti.start <= fill.lba /\ fill.end = Up - 1 /\ Up <= Down
      BY <1>1, <1>6 DEF EraseInv, LocalsInv, CardPoints
    <2> QED
      BY <1>1, <1>2, <1>3, <1>4, <2>1 DEF InPart
  <1>7. CASE pc = "tail_fill"
    <2>1. Down <= fill.lba /\ fill.end = gparti.end /\ Up <= Down
      BY <1>1, <1>7 DEF EraseInv, LocalsInv, CardPoints
    <2> QED
      BY <1>1, <1>2, <1>3, <1>4, <2>1 DEF InPart
  <1> QED
    BY <1>5, <1>6, <1>7 DEF Fills

LEMMA DiskStep ==
  ASSUME EraseInv, LocalsInv', [Next]_vars
  PROVE  DiskInv'
  <1> USE DEF EraseInv, TypeOK
  <1>b. /\ gparti.start \in Nat /\ gparti.end \in Nat
        /\ Up \in Nat /\ Down \in Nat
    BY Rounded
  <1>c. Lbas \subseteq Nat
    BY EraseAssumption
  <1>d. \A b \in Lbas : ZeroNow(b) => InPart(b)
    BY ZeroInPart
  <1>1. CASE NoPartition \/ CommandFails
    BY <1>1, <1>d DEF NoPartition, CommandFails, Fail, DiskInv, InPart
  <1>2. CASE EraseByLabel
    <2>1. \A b \in Lbas : disk'[b] = "untouched"
      BY <1>2 DEF EraseByLabel, DiskInv, ZeroNow, Commands
    <2>2. pc' = "begin"
      BY <1>2 DEF EraseByLabel
    <2> QED
      BY <2>1, <2>2 DEF DiskInv, ZeroNow, Commands
  <1>3. CASE Return
    BY <1>3 DEF Return, DiskInv, ZeroNow, Clean, Commands
  <1>4. CASE EraseBlocks
    <2>1. /\ \A b \in Lbas : disk'[b] = "untouched"
          /\ pc = "begin" /\ UNCHANGED gparti
      BY <1>4 DEF EraseBlocks, DiskInv, ZeroNow, Commands
    <2>2. \/ pc' = "head"
          \/ pc' = "fill" /\ fill'.lba = start /\ start = gparti.start
      BY <1>4 DEF EraseBlocks, FillZero, LocalsInv
    <2>3. \A b \in Lbas : ~ZeroNow(b)'
      BY <1>b, <1>c, <2>1, <2>2 DEF ZeroNow, Commands
    <2> QED
      BY <2>1, <2>2, <2>3 DEF DiskInv
  <1>5. CASE WriteZeros
    <2>1. /\ UNCHANGED <<gparti, start, end, group, sdio>>
          /\ disk' = Zeroed(WriteSize)
          /\ fill'.lba = fill.lba + N_BLOCK /\ fill'.end = fill.end
          /\ pc' = IF fill.lba + N_BLOCK <= fill.end THEN pc ELSE After(pc)
          /\ pc \in Fills /\ fill.lba <= fill.end
      BY <1>5 DEF WriteZeros, LocalsInv
    <2>2. Up' = Up /\ Down' = Down
      BY <2>1, SamePart
    <2>3. /\ WriteSize \in Nat \ {0}
          /\ fill.lba + N_BLOCK <= fill.end => WriteSize = N_BLOCK
          /\ ~(fill.lba + N_BLOCK <= fill.end) => fill.lba + WriteSize = fill.end + 1
      BY <2>1, WriteBounds
    <2>4. ASSUME NEW b \in Lbas
          PROVE  disk'[b] = IF ZeroNow(b) \/ (fill.lba <= b /\ b < fill.lba + WriteSize)
                            THEN "zero" ELSE "untouched"
      <3>1. disk[b] = IF ZeroNow(b) THEN "zero" ELSE "untouched"
        BY <2>1 DEF DiskInv, Fills
      <3> QED
        BY <2>1, <3>1 DEF Zeroed
    <2>6. \A b \in Lbas : fill.lba <= b /\ b < fill.lba + WriteSize => InPart(b)
      BY <2>1, WrittenInPart
    <2>8. \A b \in Lbas : disk'[b] # "untouched" => InPart(b)'
      BY <1>d, <2>1, <2>4, <2>6 DEF InPart
    <2>9. fill.lba \in Nat /\ fill.end \in Nat /\ N_BLOCK \in Nat
      BY EraseAssumption
    <2> DEFINE Now(b) == fill.lba <= b /\ b < fill.lba + WriteSize
    <2>5. CASE fill.lba + N_BLOCK <= fill.end
      <3>1. /\ pc' = pc /\ fill'.lba = fill.lba + WriteSize
        BY <2>1, <2>3, <2>5
      <3>2. gparti.start <= fill.lba \/ pc = "tail_fill"
        BY <2>1 DEF LocalsInv, Fills
      <3>3. pc = "tail_fill" => Down <= fill.lba
        BY DEF LocalsInv
      <3>4. ASSUME NEW b \in Lbas
            PROVE  ZeroNow(b)' <=> ZeroNow(b) \/ Now(b)
        <4>1. CASE pc \in {"fill", "head_fill"}
          <5>1. ZeroNow(b) <=> gparti.start <= b /\ b < fill.lba
            BY <4>1 DEF ZeroNow, Commands
          <5>2. ZeroNow(b)' <=> gparti.start <= b /\ b < fill.lba + WriteSize
            BY <2>1, <3>1, <4>1 DEF ZeroNow, Commands
          <5>3. gparti.start <= fill.lba
            BY <3>2, <4>1
          <5> QED
            BY <1>b, <1>c, <2>3, <2>9, <5>1, <5>2, <5>3
        <4>2. CASE pc = "tail_fill"
          <5>1. ZeroNow(b) <=> HeadBlock(b) \/ (Down <= b /\ b < fill.lba)
            BY <4>2 DEF ZeroNow, Commands
          <5>2. ZeroNow(b)' <=> HeadBlock(b) \/ (Down <= b /\ b < fill.lba + WriteSize)
            BY <2>1, <2>2, <3>1, <4>2 DEF ZeroNow, HeadBlock, Commands
          <5> QED
            BY <1>b, <1>c, <2>3, <2>9, <3>3, <4>2, <5>1, <5>2
        <4> QED
          BY <2>1, <4>1, <4>2 DEF Fills
      <3>5. \A b \in Lbas : disk'[b] = IF ZeroNow(b)' THEN "zero" ELSE "untouched"
        BY <2>4, <3>4
      <3> QED
        BY <2>1, <2>8, <3>1, <3>5 DEF DiskInv, Fills
    <2>7. CASE ~(fill.lba + N_BLOCK <= fill.end)
      <3>a. fill.lba + WriteSize = fill.end + 1
        BY <2>3, <2>7
      <3>1. CASE pc = "fill"
        <4>1. pc' = "ok" /\ ~sdio'
          BY <2>1, <2>7, <3>1 DEF After, LocalsInv
        <4>2. fill.end = gparti.end /\ gparti.start <= fill.lba
          BY <3>1 DEF LocalsInv
        <4>3. ASSUME NEW b \in Lbas
              PROVE  InPart(b)' <=> ZeroNow(b) \/ Now(b)
          <5>1. ZeroNow(b) <=> gparti.start <= b /\ b < fill.lba
            BY <3>1 DEF ZeroNow, Commands
          <5>2. InPart(b)' <=> gparti.start <= b /\ b <= gparti.end
            BY <2>1 DEF InPart
          <5> QED
            BY <1>b, <1>c, <2>3, <2>9, <3>a, <4>2, <5>1, <5>2
        <4>4. \A b \in Lbas : disk'[b] = IF InPart(b)' THEN "zero" ELSE "untouched"
          BY <2>4, <4>3
        <4> QED
          BY <2>8, <4>1, <4>4 DEF DiskInv
      <3>2. CASE pc = "head_fill"
        <4>1. pc' = "tail"
          BY <2>1, <2>7, <3>2 DEF After
        <4>2. fill.end = Up - 1 /\ gparti.start <= fill.lba
          BY <3>2 DEF LocalsInv
        <4>3. ASSUME NEW b \in Lbas
              PROVE  ZeroNow(b)' <=> ZeroNow(b) \/ Now(b)
          <5>1. ZeroNow(b) <=> gparti.start <= b /\ b < fill.lba
            BY <3>2 DEF ZeroNow, Commands
          <5>2. ZeroNow(b)' <=> gparti.start <= b /\ b < Up
            BY <2>1, <2>2, <4>1 DEF ZeroNow, HeadBlock, Commands
          <5> QED
            BY <1>b, <1>c, <2>3, <2>9, <3>a, <4>2, <5>1, <5>2
        <4>4. \A b \in Lbas : disk'[b] = IF ZeroNow(b)' THEN "zero" ELSE "untouched"
          BY <2>4, <4>3
        <4> QED
          BY <2>8, <4>1, <4>4 DEF DiskInv
      <3>3. CASE pc = "tail_fill"
        <4>1. pc' = "group_start"
          BY <2>1, <2>7, <3>3 DEF After
        <4>2. fill.end = gparti.end /\ Down <= fill.lba
          BY <3>3 DEF LocalsInv
        <4>3. ASSUME NEW b \in Lbas
              PROVE  ZeroNow(b)' <=> ZeroNow(b) \/ Now(b)
          <5>1. ZeroNow(b) <=> HeadBlock(b) \/ (Down <= b /\ b < fill.lba)
            BY <3>3 DEF ZeroNow, Commands
          <5>2. ZeroNow(b)' <=> HeadBlock(b) \/ (Down <= b /\ b <= gparti.end)
            BY <2>1, <2>2, <4>1 DEF ZeroNow, HeadBlock, TailBlock, Commands
          <5> QED
            BY <1>b, <1>c, <2>3, <2>9, <3>a, <4>2, <5>1, <5>2
        <4>4. \A b \in Lbas : disk'[b] = IF ZeroNow(b)' THEN "zero" ELSE "untouched"
          BY <2>4, <4>3
        <4> QED
          BY <2>8, <4>1, <4>4 DEF DiskInv
      <3> QED
        BY <2>1, <3>1, <3>2, <3>3 DEF Fills
    <2> QED
      BY <2>5, <2>7
  <1>6. CASE WriteFails
    <2>1. PICK n \in 0 .. WriteSize : disk' = Zeroed(n)
      BY <1>6 DEF WriteFails
    <2>2. /\ UNCHANGED gparti /\ pc' = "failed" /\ pc \in Fills
          /\ fill.lba <= fill.end
      BY <1>6 DEF WriteFails, LocalsInv
    <2>3. WriteSize \in Nat
      BY <2>2, WriteBounds
    <2>4. ASSUME NEW b \in Lbas, disk'[b] # "untouched"
          PROVE  InPart(b)
      <3>1. CASE disk[b] # "untouched"
        BY <3>1 DEF DiskInv
      <3>2. CASE disk[b] = "untouched"
        <4>1. fill.lba <= b /\ b < fill.lba + WriteSize
          BY <1>c, <2>1, <2>3, <2>4, <3>2 DEF Zeroed
        <4> QED
          BY <2>2, <4>1, WrittenInPart
      <3> QED
        BY <3>1, <3>2
    <2> QED
      BY <2>2, <2>4 DEF DiskInv, InPart
  <1>7. CASE Head
    <2>1. /\ pc = "head" /\ start = gparti.start
          /\ UNCHANGED <<gparti, disk>>
      BY <1>7 DEF Head, LocalsInv
    <2>2. Up' = Up /\ Down' = Down
      BY <2>1, SamePart
    <2>3. \/ pc' = "tail" /\ Up = gparti.start
          \/ pc' = "head_fill" /\ fill'.lba = gparti.start
      BY <1>7, <2>1, Rounded DEF Head, FillZero
    <2>4. \A b \in Lbas : ~ZeroNow(b) /\ ~ZeroNow(b)'
      BY <1>b, <1>c, <2>1, <2>2, <2>3 DEF ZeroNow, HeadBlock, Commands
    <2> QED
      BY <2>1, <2>3, <2>4 DEF DiskInv, InPart
  <1>8. CASE Tail
    <2>1. /\ pc = "tail" /\ end = gparti.end
          /\ UNCHANGED <<gparti, disk>>
      BY <1>8 DEF Tail, LocalsInv
    <2>2. Up' = Up /\ Down' = Down
      BY <2>1, SamePart
    <2>3. /\ TailReminder \in 0 .. erase_grp_size - 1
          /\ Down = end + 1 - TailReminder
      BY <2>1, Rounded DEF TailReminder
    <2>4. \/ pc' = "group_start" /\ Down = gparti.end + 1
          \/ pc' = "tail_fill" /\ fill'.lba = Down
      BY <1>b, <1>8, <2>1, <2>3, EraseAssumption DEF Tail, FillZero
    <2>5. ASSUME NEW b \in Lbas PROVE ZeroNow(b)' <=> ZeroNow(b)
      BY <1>b, <1>c, <2>1, <2>2, <2>4 DEF ZeroNow, HeadBlock, TailBlock, Commands
    <2> QED
      BY <2>1, <2>4, <2>5 DEF DiskInv, InPart
  <1>9. CASE EraseGroupStart \/ EraseGroupEnd
    <2>1. /\ pc \in Commands /\ pc' \in Commands
          /\ UNCHANGED <<gparti, disk, fill>>
      BY <1>9 DEF EraseGroupStart, EraseGroupEnd, Commands
    <2>2. Up' = Up /\ Down' = Down
      BY <2>1, SamePart
    <2>3. ASSUME NEW b \in Lbas PROVE ZeroNow(b)' <=> ZeroNow(b)
      BY <2>1, <2>2 DEF ZeroNow, HeadBlock, TailBlock, Commands
    <2> QED
      BY <2>1, <2>3 DEF DiskInv, InPart, Commands
  <1>10. CASE EraseCommand
    <2>1. /\ pc = "erase" /\ group.start = Up /\ group.end = Down - 1 /\ sdio
          /\ UNCHANGED <<gparti, sdio>>
          /\ erase_grp_size <= gparti.end - gparti.start + 1
      BY <1>10 DEF EraseCommand, LocalsInv, CardPoints, Commands
    <2>2. Up' = Up /\ Down' = Down
      BY <2>1, SamePart
    <2>3. CASE Up <= Down - 1
      <3>1. /\ pc' = "ok"
            /\ disk' = [b \in Lbas |-> IF CardErases(b) THEN "erased" ELSE disk[b]]
        BY <1>10, <2>1, <2>3 DEF EraseCommand
      <3>2. ASSUME NEW b \in Lbas PROVE CardErases(b) <=> (Up <= b /\ b < Down)
        BY <1>c, <2>1, <2>3, CardRange DEF CardErases
      <3>3. ASSUME NEW b \in Lbas
            PROVE  disk[b] = IF HeadBlock(b) \/ TailBlock(b) THEN "zero" ELSE "untouched"
        BY <2>1 DEF DiskInv, ZeroNow, Commands
      <3>4. ASSUME NEW b \in Lbas
            PROVE  disk'[b] = IF Up <= b /\ b < Down THEN "erased"
                                ELSE IF HeadBlock(b) \/ TailBlock(b) THEN "zero" ELSE "untouched"
        <4>1. (Up <= b /\ b < Down) => ~(HeadBlock(b) \/ TailBlock(b))
          BY <1>b, <1>c DEF HeadBlock, TailBlock
        <4> QED
          BY <3>1, <3>2, <3>3, <4>1
      <3>5. ASSUME NEW b \in Lbas, disk'[b] # "untouched" PROVE InPart(b)
        BY <2>1, <3>4, <3>5, ZeroInPart
      <3>6. \A b \in Lbas : /\ HeadBlock(b)' <=> HeadBlock(b)
                            /\ TailBlock(b)' <=> TailBlock(b)
        BY <2>1, <2>2 DEF HeadBlock, TailBlock
      <3>7. \A b \in Lbas : disk'[b] = IF Up' <= b /\ b < Down' THEN "erased"
                                ELSE IF HeadBlock(b)' \/ TailBlock(b)' THEN "zero" ELSE "untouched"
        BY <2>2, <3>4, <3>6
      <3>8. \A b \in Lbas : disk'[b] # "untouched" => InPart(b)'
        BY <2>1, <3>5 DEF InPart
      <3> QED
        BY <2>1, <3>1, <3>7, <3>8 DEF DiskInv
    <2>4. CASE ~(Up <= Down - 1)
      BY <1>10, <2>1, <2>4 DEF EraseCommand, DiskInv, InPart
    <2> QED
      BY <2>3, <2>4
  <1>11. CASE UNCHANGED vars
    <2>1. UNCHANGED <<pc, gparti, disk, fill, sdio>>
      BY <1>11 DEF vars
    <2>2. Up' = Up /\ Down' = Down
      BY <2>1, SamePart
    <2>3. ASSUME NEW b \in Lbas
          PROVE  /\ ZeroNow(b)' <=> ZeroNow(b)
                 /\ InPart(b)' <=> InPart(b)
                 /\ HeadBlock(b)' <=> HeadBlock(b)
                 /\ TailBlock(b)' <=> TailBlock(b)
      BY <2>1, <2>2 DEF ZeroNow, HeadBlock, TailBlock, Commands, InPart
    <2> QED
      BY <2>1, <2>2, <2>3 DEF DiskInv
  <1> QED
    BY <1>1, <1>2, <1>3, <1>4, <1>5, <1>6, <1>7, <1>8, <1>9, <1>10, <1>11
    DEF Next, Work

-----------------------------------------------------------------------------
(***************************************************************************)
(* The invariant, and what follows from it.                                *)
(***************************************************************************)
LEMMA InitInv == Init => EraseInv
  <1> SUFFICES ASSUME Init PROVE EraseInv
    OBVIOUS
  <1>1. gparti \in [start : Lbas, end : Lbas]
    BY EraseAssumption DEF Init
  <1>2. TypeOK
    BY <1>1 DEF Init, TypeOK, Points, Clean
  <1>3. LocalsInv
    BY DEF Init, LocalsInv, CardPoints, Commands, Fills
  <1>4. DiskInv
    BY DEF Init, DiskInv, Clean, ZeroNow, Commands
  <1> QED
    BY <1>2, <1>3, <1>4 DEF EraseInv, Init

THEOREM Invariance == Spec => []EraseInv
  <1>1. EraseInv /\ [Next]_vars => EraseInv'
    <2> SUFFICES ASSUME EraseInv, [Next]_vars PROVE EraseInv'
      OBVIOUS
    <2>1. TypeOK' /\ gparti' \in Partitions
      BY TypeStep
    <2>2. LocalsInv'
      BY <2>1, LocalsStep
    <2>3. DiskInv'
      BY <2>2, DiskStep
    <2> QED
      BY <2>1, <2>2, <2>3 DEF EraseInv
  <1> QED
    BY InitInv, <1>1, PTL DEF Spec

\* The type invariant of erase_by_label and erase_blocks.
THEOREM TypeCorrect == Spec => []TypeOK
  <1>1. EraseInv => TypeOK
    BY DEF EraseInv
  <1> QED
    BY Invariance, <1>1, PTL

\* When the card interface is used and the erase succeeds, every whole group of
\* the partition went to the card and every other block of it was zeroed.
THEOREM WholeGroupsSafe == Spec => []WholeGroupsErased
  <1>1. EraseInv => WholeGroupsErased
    <2> SUFFICES ASSUME EraseInv, pc = "ok", sdio, NEW b \in Lbas, InPart(b)
                 PROVE  disk[b] = (IF WholeGroup(b) THEN "erased" ELSE "zero")
      BY DEF WholeGroupsErased
    <2>1. disk[b] = IF Up <= b /\ b < Down THEN "erased"
                      ELSE IF HeadBlock(b) \/ TailBlock(b) THEN "zero" ELSE "untouched"
      BY DEF EraseInv, DiskInv
    <2>2. b \in Nat /\ Up \in Nat /\ Down \in Nat
      BY EraseAssumption, Rounded DEF EraseInv
    <2>3. WholeGroup(b) <=> (Up <= b /\ b < Down)
      BY <2>2, WholeGroupRange DEF EraseInv
    <2>4. CASE Up <= b /\ b < Down
      BY <2>1, <2>3, <2>4
    <2>5. CASE ~(Up <= b /\ b < Down)
      <3>1. HeadBlock(b) \/ TailBlock(b)
        BY <2>5, ZeroInPart
      <3> QED
        BY <2>1, <2>3, <2>5, <3>1
    <2> QED
      BY <2>4, <2>5
  <1> QED
    BY Invariance, <1>1, PTL

-----------------------------------------------------------------------------
(***************************************************************************)
(* Refinement of PartUpdate.                                               *)
(***************************************************************************)
\* The mapped variables.
St == IF pc \in {"idle", "ok", "failed"} THEN pc ELSE "busy"
Part == IF pc = "idle" THEN {} ELSE {b \in Lbas : InPart(b)}
Goal == [b \in Lbas |-> IF pc # "idle" /\ InPart(b) THEN 1 ELSE 0]
Done == [b \in Lbas |-> IF disk[b] = "untouched" THEN 0 ELSE 1]

\* What a step of the work may do to the medium: a block of the partition may
\* be zeroed or erased, no block is restored, and success has done them all.
Advance ==
    /\ UNCHANGED gparti
    /\ pc \notin {"idle", "ok", "failed"} /\ pc' # "idle"
    /\ \A b \in Lbas : disk'[b] # disk[b] => disk'[b] # "untouched"
    /\ \A b \in Lbas : disk'[b] # "untouched" => InPart(b)
    /\ pc' = "ok" => \A b \in Lbas : InPart(b) => disk'[b] # "untouched"

OkDone == pc = "ok" => \A b \in Lbas : InPart(b) => disk[b] # "untouched"

LEMMA Covered == EraseInv => OkDone
  <1> SUFFICES ASSUME EraseInv, pc = "ok", NEW b \in Lbas, InPart(b)
               PROVE  disk[b] # "untouched"
    BY DEF OkDone
  <1>1. CASE ~sdio
    BY <1>1 DEF EraseInv, DiskInv
  <1>2. CASE sdio
    <2>1. HeadBlock(b) \/ TailBlock(b) \/ (Up <= b /\ b < Down)
      BY ZeroInPart
    <2>2. disk[b] = IF Up <= b /\ b < Down THEN "erased"
                      ELSE IF HeadBlock(b) \/ TailBlock(b) THEN "zero" ELSE "untouched"
      BY <1>2 DEF EraseInv, DiskInv
    <2> QED
      BY <2>1, <2>2
  <1> QED
    BY <1>1, <1>2

LEMMA CoveredNext == EraseInv' => OkDone'
  BY Covered, PTL

LEMMA WorkAdvances ==
  ASSUME EraseInv, EraseInv', Work
  PROVE  Advance
  <1>1. /\ UNCHANGED gparti
        /\ pc \notin {"idle", "ok", "failed"} /\ pc' # "idle"
    BY DEF Work, EraseBlocks, FillZero, WriteZeros, WriteFails, Head, Tail, Fills, After,
           EraseGroupStart, EraseGroupEnd, EraseCommand, CommandFails, Fail
  <1>2. \A b \in Lbas : disk'[b] # disk[b] => disk'[b] # "untouched"
    <2>1. CASE WriteZeros \/ WriteFails
      BY <2>1 DEF WriteZeros, WriteFails, Zeroed
    <2>2. CASE EraseCommand
      BY <2>2 DEF EraseCommand
    <2>3. CASE ~(WriteZeros \/ WriteFails \/ EraseCommand)
      BY <2>3 DEF Work, EraseBlocks, Head, Tail, EraseGroupStart, EraseGroupEnd,
                  CommandFails, Fail
    <2> QED
      BY <2>1, <2>2, <2>3
  <1>3. \A b \in Lbas : InPart(b)' <=> InPart(b)
    BY <1>1 DEF InPart
  <1>4. \A b \in Lbas : disk'[b] # "untouched" => InPart(b)
    BY <1>3 DEF EraseInv, DiskInv
  <1>5. pc' = "ok" => \A b \in Lbas : InPart(b)' => disk'[b] # "untouched"
    BY CoveredNext DEF OkDone
  <1> QED
    BY <1>1, <1>2, <1>3, <1>4, <1>5 DEF Advance

\* The mapping, unfolded.
LEMMA Mapping ==
  /\ Contract!Init <=> St = "idle" /\ Part = {} /\ Goal = [b \in Lbas |-> 0]
                       /\ Done = [b \in Lbas |-> 0]
  /\ Contract!vars = <<St, Part, Goal, Done>>
  BY DEF Contract!Init, Contract!Clean, Contract!vars, St, Part, Goal, Done

LEMMA InitRefines == Init => Contract!Init
  <1> SUFFICES ASSUME Init PROVE Contract!Init
    OBVIOUS
  <1>1. St = "idle" /\ Part = {}
    BY DEF Init, St, Part
  <1>2. Goal = [b \in Lbas |-> 0] /\ Done = [b \in Lbas |-> 0]
    BY DEF Init, Goal, Done, Clean
  <1> QED
    BY <1>1, <1>2, Mapping

LEMMA StepRefines ==
  ASSUME EraseInv, EraseInv', [Next]_vars
  PROVE  [Contract!Next]_(Contract!vars)
  <1> USE DEF St, Part, Goal, Done
  <1>a. /\ Part \subseteq Lbas /\ Part' \subseteq Lbas
        /\ Goal \in [Lbas -> {0, 1}] /\ Goal' \in [Lbas -> {0, 1}]
        /\ Done \in [Lbas -> {0, 1}] /\ Done' \in [Lbas -> {0, 1}]
    OBVIOUS
  <1>1. CASE NoPartition
    <2>1. pc = "idle" /\ pc' = "failed" /\ UNCHANGED disk
      BY <1>1 DEF NoPartition, Fail
    <2>2. St = "idle" /\ St' = "failed" /\ Done' = Done
      BY <2>1
    <2> HIDE DEF St, Part, Goal, Done
    <2>3. Contract!Refuse
      BY <1>a, <2>2 DEF Contract!Refuse, St, Part, Goal, Done
    <2> QED
      BY <2>3 DEF Contract!Next
  <1>2. CASE EraseByLabel
    <2>1. pc = "idle" /\ pc' = "begin" /\ UNCHANGED disk
      BY <1>2 DEF EraseByLabel
    <2>2. St = "idle" /\ St' = "busy" /\ Done' = Done
      BY <2>1
    <2>3. \A b \in Lbas \ Part' : Goal'[b] = 0
      BY <2>1
    <2> HIDE DEF St, Part, Goal, Done
    <2>4. Contract!Begin
      BY <1>a, <2>2, <2>3 DEF Contract!Begin, St, Part, Goal, Done
    <2> QED
      BY <2>4 DEF Contract!Next
  <1>3. CASE Return
    <2>1. pc \in {"ok", "failed"} /\ pc' = "idle" /\ disk' = Clean
      BY <1>3 DEF Return
    <2>2. St \in {"ok", "failed"} /\ St' = "idle" /\ Part' = {}
      BY <2>1
    <2>3. Goal' = [b \in Lbas |-> 0] /\ Done' = [b \in Lbas |-> 0]
      BY <2>1 DEF Clean
    <2> HIDE DEF St, Part, Goal, Done
    <2>4. Contract!Return
      BY <2>2, <2>3 DEF Contract!Return, Contract!Clean, St, Part, Goal, Done
    <2> QED
      BY <2>4 DEF Contract!Next
  <1>4. CASE Work
    <2>1. Advance
      BY <1>4, WorkAdvances
    <2>2. St = "busy" /\ St' \in {"busy", "ok", "failed"} /\ (St' = "ok" <=> pc' = "ok")
      BY <2>1 DEF Advance, EraseInv, TypeOK, Points, Fills
    <2>3. Part' = Part /\ Goal' = Goal
      BY <2>1 DEF Advance, InPart
    <2>4. \A b \in Lbas : Done'[b] \in {Done[b], Goal[b]}
      <3> SUFFICES ASSUME NEW b \in Lbas PROVE Done'[b] \in {Done[b], Goal[b]}
        OBVIOUS
      <3>1. CASE disk'[b] = disk[b]
        BY <3>1
      <3>2. CASE disk'[b] # disk[b]
        <4>1. disk'[b] # "untouched" /\ InPart(b) /\ pc # "idle"
          BY <2>1, <3>2 DEF Advance
        <4>2. Done'[b] = 1 /\ Goal[b] = 1
          BY <4>1
        <4> QED
          BY <4>2
      <3> QED
        BY <3>1, <3>2
    <2>5. ASSUME pc' = "ok" PROVE Done' = Goal
      <3>1. ASSUME NEW b \in Lbas PROVE disk'[b] # "untouched" <=> InPart(b)
        BY <2>1, <2>5 DEF Advance
      <3>2. pc # "idle"
        BY <2>1 DEF Advance
      <3> QED
        BY <3>1, <3>2
    <2> HIDE DEF St, Part, Goal, Done
    <2>6. Contract!Progress
      BY <1>a, <2>2, <2>3, <2>4, <2>5 DEF Contract!Progress, St, Part, Goal, Done
    <2> QED
      BY <2>6 DEF Contract!Next
  <1>5. CASE UNCHANGED vars
    <2>1. St' = St /\ Part' = Part /\ Goal' = Goal /\ Done' = Done
      BY <1>5 DEF vars, InPart
    <2> HIDE DEF St, Part, Goal, Done
    <2>2. UNCHANGED Contract!vars
      BY <2>1 DEF Contract!vars, St, Part, Goal, Done
    <2> QED
      BY <2>2
  <1> QED
    BY <1>1, <1>2, <1>3, <1>4, <1>5 DEF Next

\* erase_by_label does what PartUpdate promises to cmd_erase: it touches no block
\* outside of the partition, and has touched all of it when it succeeds.
THEOREM EraseImplementsPartUpdate == Spec => ImplementsPartUpdate
  <1>1. EraseInv /\ EraseInv' /\ [Next]_vars => [Contract!Next]_(Contract!vars)
    BY StepRefines
  <1> QED
    BY Invariance, InitRefines, <1>1, PTL DEF Spec, ImplementsPartUpdate, Contract!Spec
=============================================================================
