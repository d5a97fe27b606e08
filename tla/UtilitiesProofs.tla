--------------------------- MODULE UtilitiesProofs --------------------------
(***************************************************************************)
(* Theorems about the parts of the utilities that share no state: the      *)
(* battery (Energy), the splash (Splash) and the two walks over the memory *)
(* map (MemoryMap), each for every value of its constants.                 *)
(***************************************************************************)
EXTENDS MemoryMap, Splash, Energy, SequenceTheorems, WellFoundedInduction, TLAPS

-----------------------------------------------------------------------------
(***************************************************************************)
(* The battery and its table, for every width of the fields, every OEM1    *)
(* table and every battery.                                                *)
(***************************************************************************)
EnergySpec == EnergyInit /\ [][EnergyNext]_energyVars

HasOem1 == "OEM1" \in {tables[k] : k \in DOMAIN tables}

\* The address kept by an earlier question is that of a table that exists.
CachedExists == cached => HasOem1

EnergyTypes ==
    /\ tables \in Lists \cup {Unreachable}
    /\ oem1 \in Oem1Tables
    /\ cached \in BOOLEAN
    /\ dev \in {"none", "error", "ok"}
    /\ battery \in Batteries
    /\ policy \in {"uefi", "fake"}

\* A standing answer is the one that its operation would give now.
AnswerCurrent ==
    /\ asked = "level" => reply = get_battery_level
    /\ asked = "limit" => reply = is_battery_below_vbattfreqlmt

EnergyInv == EnergyTypes /\ CachedExists /\ AnswerCurrent

LEMMA FoundExists == EnergyTypes /\ CachedExists => (Oem1Found <=> HasOem1)
  BY DEF EnergyTypes, CachedExists, HasOem1, Oem1Found, get_acpi_table, get_rsdt_table,
         Unreachable, Lists

LEMMA EnergyStarts == EnergyInit => EnergyInv
  BY DEF EnergyInit, EnergyStart, EnergyInv, EnergyTypes, CachedExists, AnswerCurrent

LEMMA EnergyStep == EnergyInv /\ [EnergyNext]_energyVars => EnergyInv'
  <1> SUFFICES ASSUME EnergyInv, [EnergyNext]_energyVars PROVE EnergyInv'
    OBVIOUS
  <1> USE DEF EnergyInv, EnergyTypes
  <1>f. Oem1Found <=> HasOem1
    BY FoundExists
  <1>1. CASE AskLevel \/ AskLimit
    <2>1. UNCHANGED <<tables, oem1, dev, battery, policy>>
      BY <1>1 DEF AskLevel, AskLimit, Question
    <2>b. cached' = IF Reads THEN Oem1Found ELSE cached
      BY <1>1 DEF AskLevel, AskLimit, Question
    <2>c. Oem1Found \in BOOLEAN
      BY DEF Oem1Found, get_acpi_table, get_rsdt_table
    <2>d. EnergyTypes'
      BY <2>1, <2>b, <2>c
    <2>e. CachedExists'
      BY <1>f, <2>1, <2>b, <2>c DEF CachedExists, HasOem1
    <2>2. EnergyTypes' /\ CachedExists'
      BY <2>d, <2>e
    <2>3. Oem1Found' <=> Oem1Found
      BY <1>1, <2>1 DEF AskLevel, AskLimit, Question, Oem1Found, get_acpi_table, get_rsdt_table
    <2>4. get_battery_level' = get_battery_level
      BY <2>1, <2>3 DEF get_battery_level, get_battery_status, UsesCapacity, get_acpi_field
    <2>5. is_battery_below_vbattfreqlmt' = is_battery_below_vbattfreqlmt
      BY <2>1, <2>3 DEF is_battery_below_vbattfreqlmt, get_battery_status, get_acpi_field
    <2>6. AnswerCurrent'
      BY <1>1, <2>4, <2>5 DEF AskLevel, AskLimit, Question, AnswerCurrent
    <2> QED
      BY <2>2, <2>6
  <1>2. CASE BatteryChanges
    BY <1>2 DEF BatteryChanges, CachedExists, HasOem1, AnswerCurrent
  <1>3. ASSUME NEW name \in {"uefi", "fake"}, em_set_policy(name) PROVE EnergyInv'
    BY <1>3 DEF em_set_policy, CachedExists, HasOem1, AnswerCurrent
  <1>4. CASE UNCHANGED energyVars
    BY <1>4 DEF energyVars, CachedExists, HasOem1, AnswerCurrent, get_battery_level,
          get_battery_status, UsesCapacity, get_acpi_field, Oem1Found, get_acpi_table,
          get_rsdt_table, is_battery_below_vbattfreqlmt
  <1> QED
    BY <1>1, <1>2, <1>3, <1>4 DEF EnergyNext

\* A field of a missing table reads as a value that no battery exceeds.
LEMMA MissingThreshold ==
  ASSUME EnergyTypes
  PROVE  /\ ~Oem1Found => battery.mv < get_acpi_field("freqlmt", VoltMod)
         /\ ~Oem1Found => ~(battery.mv > get_acpi_field("run", VoltMod))
  <1>1. battery.mv \in 0 .. VoltMod - 2 /\ VoltMod \in Nat
    BY EnergyAssumption DEF EnergyTypes, Batteries
  <1>2. (-1) % VoltMod = VoltMod - 1
    BY <1>1
  <1> QED
    BY <1>1, <1>2 DEF get_acpi_field

\* The answer is BOOT_OS only above the threshold of a table that exists.
THEOREM NoTableNoOsSafe == EnergySpec => []NoTableNoOs
  <1>1. EnergyInv => NoTableNoOs
    <2> SUFFICES ASSUME EnergyInv, policy = "uefi" PROVE NoTableNoOs
      BY DEF NoTableNoOs
    <2>f. Oem1Found <=> HasOem1
      BY FoundExists DEF EnergyInv
    <2>m. /\ ~Oem1Found => battery.mv < get_acpi_field("freqlmt", VoltMod)
          /\ ~Oem1Found => ~(battery.mv > get_acpi_field("run", VoltMod))
      BY MissingThreshold DEF EnergyInv
    <2>1. ASSUME asked = "level", reply = "BOOT_OS"
          PROVE  /\ dev = "ok" /\ HasOem1
                 /\ IF oem1.use = "CAP" THEN battery.percent > oem1.cap
                    ELSE battery.mv > oem1.run
      BY <2>1, <2>f, <2>m DEF EnergyInv, AnswerCurrent, get_battery_level,
            get_battery_status, UsesCapacity, get_acpi_field
    <2>2. ASSUME asked = "limit", dev = "ok", ~HasOem1 PROVE reply = "yes"
      BY <2>2, <2>f, <2>m DEF EnergyInv, AnswerCurrent, is_battery_below_vbattfreqlmt,
            get_battery_status
    <2> QED
      BY <2>1, <2>2 DEF NoTableNoOs, HasOem1
  <1> QED
    BY EnergyStarts, EnergyStep, <1>1, PTL DEF EnergySpec

-----------------------------------------------------------------------------
(***************************************************************************)
(* The splash: each pixel of a bitmap of any size and depth.               *)
(***************************************************************************)
SplashSpec == SplashInit /\ [][SplashNext]_splashVars

\* Bytes of the image data that hold the first n pixels of a row.
Bytes(n) == (n * bmp.bpp + 7) \div 8

BitmapType ==
    /\ bmp.w \in Nat \ {0} /\ bmp.h \in Nat \ {0} /\ bmp.bpp \in 1 .. 32
    /\ bmp.offset \in Int /\ bmp.size \in Int
    /\ Fits

SplashTypes ==
    /\ BitmapType
    /\ at \in {"start", "convert", "show", "shown", "failed"}
    /\ Height \in 0 .. bmp.h /\ Width \in 0 .. bmp.w
    /\ DOMAIN out = Pixels(bmp)
    /\ out = [p \in DOMAIN out |-> out[p]]

\* Pixel x of the picture's row y has its place in out, and is right there.
RightAt(x, y) == out[y * bmp.w + x] = Source(x, y)

Converting ==
    /\ HeaderAccepted
    /\ Image = bmp.offset + Height * DataSizePerLine(bmp) + Bytes(Width)
    /\ Blt = RowStart(Height) + Width
    /\ Width > 0 \/ Height > 0 => bmp.bpp \in {1, 4, 8, 24}
    /\ Height = bmp.h => Width = 0
    /\ Width < bmp.w => (Width * bmp.bpp) % 8 = 0
    /\ \A x \in 0 .. bmp.w - 1, y \in 0 .. bmp.h - 1 :
          \/ bmp.h - 1 - y < Height
          \/ bmp.h - 1 - y = Height /\ x < Width
          => RightAt(x, y)

SplashInv ==
    /\ SplashTypes
    /\ at = "start" => Height = 0 /\ Width = 0
    /\ at = "convert" => Converting
    /\ at \in {"show", "shown"} =>
          /\ Image = bmp.size
          /\ \A x \in 0 .. bmp.w - 1, y \in 0 .. bmp.h - 1 : RightAt(x, y)

\* The colour map is as large as the header check asks for.
EntryInv ==
    /\ at = "start" => entry = 0
    /\ at \in {"convert", "show", "shown"} =>
          /\ HeaderAccepted
          /\ bmp.offset > HeaderSize => entry + 4 <= bmp.offset

\* What a row of so many bits takes, before and after it is padded.
LEMMA RowOfBits ==
  ASSUME NEW bits \in Nat
  PROVE  LET r == (bits + 7) \div 8
             line == ((bits + 31) \div 32) * 4
         IN r \in Nat /\ line \in Nat /\ r <= line /\ r + ((4 - (r % 4)) % 4) = line
  OBVIOUS

LEMMA WholeLines ==
  ASSUME NEW q \in Nat, NEW h \in Nat, NEW r \in Nat
  PROVE  (h * (q * 4) + r) % 4 = r % 4
  <1>1. PICK m \in Nat : m = h * q
    OBVIOUS
  <1>2. h * (q * 4) = 4 * m
    BY <1>1
  <1>3. (4 * m + r) % 4 = r % 4
    OBVIOUS
  <1> QED
    BY <1>2, <1>3

\* A pixel has one place in the picture.
LEMMA PlaceUnique ==
  ASSUME NEW w \in Nat \ {0}, NEW x \in 0 .. w - 1, NEW v \in 0 .. w - 1,
         NEW y \in Nat, NEW z \in Nat, y * w + x = z * w + v
  PROVE  y = z /\ x = v
  <1>1. ASSUME NEW a \in Nat, NEW b \in Nat, a < b PROVE a * w + w <= b * w
    <2>1. PICK d \in Nat : b = a + 1 + d
      <3>1. b - a - 1 \in Nat /\ b = a + 1 + (b - a - 1)
        BY <1>1
      <3> QED
        BY <3>1
    <2>2. b * w = a * w + w + d * w /\ d * w \in Nat /\ a * w \in Nat
      BY <2>1
    <2> QED
      BY <2>2
  <1>2. y * w \in Nat /\ z * w \in Nat
    OBVIOUS
  <1>3. ~ (y < z) /\ ~ (z < y)
    BY <1>1, <1>2
  <1>4. y = z
    BY <1>3
  <1> QED
    BY <1>2, <1>4

LEMMA PlaceInside ==
  ASSUME NEW w \in Nat \ {0}, NEW h \in Nat \ {0}, NEW x \in 0 .. w - 1, NEW y \in 0 .. h - 1
  PROVE  y * w + x \in 0 .. w * h - 1
  <1>1. PICK d \in Nat : h = y + 1 + d
    <2>1. h - y - 1 \in Nat /\ h = y + 1 + (h - y - 1)
      OBVIOUS
    <2> QED
      BY <2>1
  <1>2. w * h = y * w + w + d * w /\ d * w \in Nat /\ y * w \in Nat
    BY <1>1
  <1> QED
    BY <1>2

LEMMA LineType ==
  ASSUME BitmapType
  PROVE  /\ bmp.w * bmp.bpp \in Nat
         /\ DataSizePerLine(bmp) = ((bmp.w * bmp.bpp + 31) \div 32) * 4
         /\ DataSizePerLine(bmp) \in Nat /\ RowBytes = DataSizePerLine(bmp)
         /\ Bytes(bmp.w) = (bmp.w * bmp.bpp + 7) \div 8
         /\ Bytes(bmp.w) \in Nat /\ Bytes(bmp.w) <= DataSizePerLine(bmp)
  <1>1. bmp.w * bmp.bpp \in Nat
    BY DEF BitmapType
  <1>2. DataSizePerLine(bmp) = ((bmp.w * bmp.bpp + 31) \div 32) * 4
    <2>1. (bmp.w * bmp.bpp + 31) % ProductMod = bmp.w * bmp.bpp + 31
      BY <1>1, SplashAssumption DEF BitmapType, Fits
    <2> QED
      BY <2>1 DEF DataSizePerLine
  <1> QED
    BY <1>1, <1>2, RowOfBits DEF RowBytes, Bytes

LEMMA BytesMonotone ==
  ASSUME BitmapType, NEW m \in Nat, NEW n \in Nat, m <= n
  PROVE  Bytes(m) \in Nat /\ Bytes(n) \in Nat /\ Bytes(m) <= Bytes(n) /\ Bytes(0) = 0
  <1>1. PICK d \in Nat : n = m + d
    <2>1. n - m \in Nat /\ n = m + (n - m)
      OBVIOUS
    <2> QED
      BY <2>1
  <1>2. n * bmp.bpp = m * bmp.bpp + d * bmp.bpp /\ d * bmp.bpp \in Nat /\ m * bmp.bpp \in Nat
    BY <1>1 DEF BitmapType
  <1>3. ASSUME NEW a \in Nat, NEW b \in Nat PROVE (a + 7) \div 8 <= (a + b + 7) \div 8
    OBVIOUS
  <1>4. 0 * bmp.bpp = 0
    BY DEF BitmapType
  <1> QED
    BY <1>2, <1>3, <1>4 DEF Bytes

LEMMA SplashStarts == SplashInit /\ Fits => SplashInv /\ EntryInv
  <1> SUFFICES ASSUME SplashInit, Fits PROVE SplashInv /\ EntryInv
    OBVIOUS
  <1> DEFINE Of(w, h, bpp) ==
        [w : {w}, h : {h}, bpp : {bpp}, compression : {0, 1},
         offset : {HeaderSize - 1, HeaderSize, HeaderSize + ColorMap(bpp)},
         size : {HeaderSize + c + DataSizePerLine([w |-> w, bpp |-> bpp]) * h + d :
                     c \in {0, ColorMap(bpp)}, d \in {-1, 0}}]
  <1>1. PICK w \in 1 .. MaxWidth, h \in 1 .. MaxHeight, bpp \in Depths : bmp \in Of(w, h, bpp)
    <2>1. bmp \in Bitmaps
      BY DEF SplashInit, SplashStart
    <2>2. Bitmaps = UNION {Of(w, h, bpp) : w \in 1 .. MaxWidth, h \in 1 .. MaxHeight, bpp \in Depths}
      BY DEF Bitmaps
    <2> HIDE DEF Of
    <2> QED
      BY <2>1, <2>2
  <1>2. w \in Nat \ {0} /\ h \in Nat \ {0} /\ bpp \in 1 .. 32
    BY SplashAssumption
  <1>3. ColorMap(bpp) \in Nat
    BY <1>2 DEF ColorMap, ColorMapNum
  <1>4. w * bpp \in Nat
    BY <1>2
  <1>5. DataSizePerLine([w |-> w, bpp |-> bpp]) \in Nat
    <2>1. PICK n \in Nat : n = (w * bpp + 31) % ProductMod
      BY <1>4, SplashAssumption
    <2> QED
      BY <2>1 DEF DataSizePerLine
  <1>6. DataSizePerLine([w |-> w, bpp |-> bpp]) * h \in Nat
    BY <1>2, <1>5
  <1>7. BitmapType
    BY <1>1, <1>2, <1>3, <1>6 DEF BitmapType, HeaderSize
  <1>8. SplashTypes
    BY <1>7 DEF SplashInit, SplashStart, SplashTypes, BitmapType
  <1> QED
    BY <1>8 DEF SplashInit, SplashStart, SplashInv, EntryInv

LEMMA ConvertKeeps == SplashInv /\ Convert => SplashInv'
  <1> SUFFICES ASSUME SplashInv, Convert PROVE SplashInv'
    OBVIOUS
  <1>1. BitmapType /\ Height = 0 /\ Width = 0 /\ UNCHANGED <<bmp, Height, Width, out>>
    BY DEF SplashInv, SplashTypes, Convert
  <1>2. SplashTypes'
    BY DEF SplashInv, SplashTypes, Convert, BitmapType, Fits, Pixels
  <1>3. Converting'
    <2>1. HeaderAccepted'
      BY DEF Convert, HeaderAccepted, DataSizePerLine, ColorMap, ColorMapNum
    <2>2. DataSizePerLine(bmp) \in Nat /\ Bytes(0) = 0
      BY <1>1, LineType, BytesMonotone
    <2>3. Image' = bmp'.offset + Height' * DataSizePerLine(bmp') + Bytes(Width)'
      BY <1>1, <2>2 DEF Convert, Bytes, BitmapType
    <2>4. Blt' = RowStart(Height)' + Width'
      BY <1>1 DEF Convert, RowStart, BitmapType
    <2>5. (Width' * bmp'.bpp) % 8 = 0
      BY <1>1 DEF BitmapType
    <2>6. \A x \in 0 .. bmp'.w - 1, y \in 0 .. bmp'.h - 1 :
            ~ (bmp'.h - 1 - y < Height') /\ ~ (x < Width')
      BY <1>1 DEF BitmapType
    <2> QED
      BY <1>1, <2>1, <2>3, <2>4, <2>5, <2>6 DEF Converting, BitmapType
  <1> QED
    BY <1>2, <1>3 DEF SplashInv, Convert

\* One step along a row: n pixels from the byte the conversion is at, if they
\* are those of the picture.
LEMMA ColumnKeeps ==
  ASSUME SplashInv, Column, NEW n \in 1 .. 8, Width + n <= bmp.w, bmp.bpp \in {1, 4, 8, 24},
         NEW used \in Nat, Bytes(Width + n) = Bytes(Width) + used,
         Width + n < bmp.w => ((Width + n) * bmp.bpp) % 8 = 0,
         \A k \in 0 .. n - 1 :
            Source(Width + k, bmp.h - 1 - Height) = [byte |-> Image, sub |-> k],
         out' = [p \in DOMAIN out |-> IF p \in Blt .. Blt + n - 1
                                      THEN [byte |-> Image, sub |-> p - Blt] ELSE out[p]],
         Blt' = Blt + n, Width' = Width + n, Image' = Image + used,
         UNCHANGED <<bmp, at, Height, blt, corner>>
  PROVE  SplashInv'
  <1>1. /\ BitmapType /\ Converting /\ at = "convert"
        /\ Height \in 0 .. bmp.h - 1 /\ Width \in 0 .. bmp.w - 1
        /\ DOMAIN out = Pixels(bmp)
    BY DEF SplashInv, SplashTypes, Column, BitmapType
  <1>2. SplashTypes'
    <2>1. DOMAIN out' = Pixels(bmp') /\ out' = [p \in DOMAIN out' |-> out'[p]]
      BY <1>1 DEF Pixels
    <2>2. Width' \in 0 .. bmp'.w /\ Height' \in 0 .. bmp'.h
      BY <1>1 DEF BitmapType
    <2> QED
      BY <1>1, <2>1, <2>2 DEF SplashInv, SplashTypes, BitmapType, Fits
  <1>3. DataSizePerLine(bmp) \in Nat /\ Height * DataSizePerLine(bmp) \in Nat
    <2>1. DataSizePerLine(bmp) \in Nat
      BY <1>1, LineType
    <2> QED
      BY <1>1, <2>1
  <1>4. Bytes(Width) \in Nat
    BY <1>1, BytesMonotone DEF BitmapType
  <1>5. RowStart(Height) \in Nat /\ RowStart(Height) = (bmp.h - 1 - Height) * bmp.w
    BY <1>1 DEF RowStart, BitmapType
  <1>6. Blt = RowStart(Height) + Width
    BY <1>1 DEF Converting
  <1>7. ASSUME NEW x \in 0 .. bmp.w - 1, NEW y \in 0 .. bmp.h - 1,
               \/ bmp.h - 1 - y < Height
               \/ bmp.h - 1 - y = Height /\ x < Width + n
        PROVE  out'[y * bmp.w + x] = Source(x, y)
    <2>1. y * bmp.w + x \in DOMAIN out
      BY <1>1, PlaceInside DEF BitmapType, Pixels
    <2>2. CASE bmp.h - 1 - y = Height /\ x >= Width
      <3>1. PICK k \in 0 .. n - 1 : x = Width + k
        <4>1. x - Width \in 0 .. n - 1 /\ x = Width + (x - Width)
          BY <1>1, <1>7, <2>2 DEF BitmapType
        <4> QED
          BY <4>1
      <3>2. y = bmp.h - 1 - Height
        BY <1>1, <2>2 DEF BitmapType
      <3>3. y * bmp.w + x = Blt + k
        BY <1>1, <1>5, <1>6, <3>1, <3>2 DEF BitmapType
      <3>4. y * bmp.w + x \in Blt .. Blt + n - 1 /\ (y * bmp.w + x) - Blt = k
        <4>1. Blt \in Int
          BY <1>1, <1>5, <1>6
        <4> QED
          BY <3>3, <4>1
      <3>5. out'[y * bmp.w + x] = [byte |-> Image, sub |-> k]
        BY <2>1, <3>4
      <3> QED
        BY <3>1, <3>2, <3>5
    <2>3. CASE ~ (bmp.h - 1 - y = Height /\ x >= Width)
      <3>1. y * bmp.w + x \notin Blt .. Blt + n - 1
        <4> SUFFICES ASSUME y * bmp.w + x \in Blt .. Blt + n - 1 PROVE FALSE
          OBVIOUS
        <4> DEFINE z == bmp.h - 1 - Height
                   v == y * bmp.w + x - RowStart(Height)
        <4>1. /\ z \in Nat /\ v \in 0 .. bmp.w - 1 /\ v >= Width
              /\ y * bmp.w + x = z * bmp.w + v
          BY <1>1, <1>5, <1>6 DEF BitmapType
        <4> HIDE DEF z, v
        <4>2. bmp.w \in Nat \ {0} /\ x \in 0 .. bmp.w - 1 /\ y \in Nat
          BY <1>1 DEF BitmapType
        <4>3. y = z /\ x = v
          BY <4>1, <4>2, PlaceUnique
        <4> QED
          BY <1>1, <2>3, <4>1, <4>3 DEF z, BitmapType
      <3>2. out'[y * bmp.w + x] = out[y * bmp.w + x]
        BY <2>1, <3>1
      <3>3. \/ bmp.h - 1 - y < Height
            \/ bmp.h - 1 - y = Height /\ x < Width
        BY <1>1, <1>7, <2>3 DEF BitmapType
      <3> QED
        BY <1>1, <3>2, <3>3 DEF Converting, RightAt
    <2> QED
      BY <2>2, <2>3
  <1>8. Converting'
    <2>1. HeaderAccepted'
      BY <1>1 DEF Converting, HeaderAccepted, DataSizePerLine, ColorMap, ColorMapNum
    <2>2. Image' = bmp'.offset + Height' * DataSizePerLine(bmp') + Bytes(Width)'
      BY <1>1, <1>3, <1>4 DEF Converting, Bytes, BitmapType
    <2>3. Blt' = RowStart(Height)' + Width'
      BY <1>1, <1>5, <1>6 DEF RowStart, BitmapType
    <2>4. \A x \in 0 .. bmp'.w - 1, y \in 0 .. bmp'.h - 1 :
             \/ bmp'.h - 1 - y < Height'
             \/ bmp'.h - 1 - y = Height' /\ x < Width'
             => RightAt(x, y)'
      BY <1>7 DEF RightAt, Source, RowBytes
    <2> QED
      BY <1>1, <2>1, <2>2, <2>3, <2>4 DEF Converting, BitmapType
  <1> QED
    BY <1>1, <1>2, <1>8 DEF SplashInv

LEMMA ColumnFacts ==
  ASSUME SplashInv, Column
  PROVE  /\ BitmapType /\ Converting
         /\ bmp.w \in Nat /\ Height \in 0 .. bmp.h - 1 /\ Width \in 0 .. bmp.w - 1
         /\ Blt \in Int /\ Image \in Int
  <1>1. /\ BitmapType /\ Converting
        /\ bmp.w \in Nat /\ Height \in 0 .. bmp.h - 1 /\ Width \in 0 .. bmp.w - 1
    BY DEF SplashInv, SplashTypes, Column, BitmapType
  <1>2. Blt \in Int
    BY <1>1 DEF Converting, RowStart, BitmapType
  <1>3. DataSizePerLine(bmp) \in Nat /\ Bytes(Width) \in Nat
    BY <1>1, LineType, BytesMonotone
  <1>4. Height * DataSizePerLine(bmp) \in Nat
    BY <1>1, <1>3
  <1>5. Image \in Int
    BY <1>1, <1>3, <1>4 DEF Converting, BitmapType
  <1> QED
    BY <1>1, <1>2, <1>5

\* The pixel of a column whose bits start a byte.
LEMMA SourceOfColumn ==
  ASSUME SplashInv, Column, bmp.bpp \in {1, 4, 8, 24}, NEW k \in Nat,
         k * bmp.bpp < 8 \/ k = 0
  PROVE  Source(Width + k, bmp.h - 1 - Height) = [byte |-> Image, sub |-> k]
  <1>1. /\ BitmapType /\ Converting
        /\ Height \in 0 .. bmp.h - 1 /\ Width \in 0 .. bmp.w - 1
    BY DEF SplashInv, SplashTypes, Column, BitmapType
  <1> DEFINE line == DataSizePerLine(bmp)
             bits == Width * bmp.bpp
  <1>2. line \in Nat /\ Height * line \in Nat
    <2>1. line \in Nat
      BY <1>1, LineType
    <2> QED
      BY <1>1, <2>1
  <1>3. bits \in Nat /\ bits % 8 = 0
    BY <1>1 DEF Converting, BitmapType
  <1>4. (bmp.h - 1 - (bmp.h - 1 - Height)) * line = Height * line
    <2>1. bmp.h - 1 - (bmp.h - 1 - Height) = Height
      BY <1>1 DEF BitmapType
    <2> QED
      BY <2>1
  <1>5. (Width + k) * bmp.bpp = bits + k * bmp.bpp
    BY <1>1
  <1>6. Image = bmp.offset + Height * line + (bits + 7) \div 8
    BY <1>1 DEF Converting, Bytes
  <1>7. RowBytes = line
    BY <1>1, LineType
  <1> HIDE DEF line, bits
  <1>8. (bits + k * bmp.bpp) \div 8 = (bits + 7) \div 8
    <2>1. CASE k = 0
      BY <1>1, <1>3, <2>1
    <2>2. CASE k * bmp.bpp < 8
      <3>1. PICK j \in 0 .. 7 : j = k * bmp.bpp
        BY <1>1, <2>2
      <3> QED
        BY <1>3, <3>1
    <2> QED
      BY <2>1, <2>2
  <1>9. IF bmp.bpp < 8 THEN ((bits + k * bmp.bpp) % 8) \div bmp.bpp = k ELSE k = 0
    <2>1. CASE bmp.bpp = 1
      BY <1>3, <2>1
    <2>2. CASE bmp.bpp = 4
      BY <1>3, <2>2
    <2>3. CASE bmp.bpp \in {8, 24}
      BY <2>3
    <2> QED
      BY <2>1, <2>2, <2>3
  <1> QED
    BY <1>1, <1>2, <1>4, <1>5, <1>6, <1>7, <1>8, <1>9 DEF Source, BitmapType

LEMMA EightPixelsKeeps == SplashInv /\ EightPixels => SplashInv'
  <1> SUFFICES ASSUME SplashInv, EightPixels PROVE SplashInv'
    OBVIOUS
  <1> DEFINE n == Least(8, bmp.w - Width)
  <1>1. /\ Column /\ bmp.bpp = 1 /\ Converting
        /\ bmp.w \in Nat /\ Width \in 0 .. bmp.w - 1
    <2>1. Column /\ bmp.bpp = 1
      BY DEF EightPixels
    <2> QED
      BY <2>1, ColumnFacts
  <1>2. n \in 1 .. 8 /\ Width + n <= bmp.w /\ (Width + n < bmp.w => n = 8)
    BY <1>1 DEF Least
  <1>3. out' = [p \in DOMAIN out |-> IF p \in Blt .. Blt + n - 1
                                     THEN [byte |-> Image, sub |-> p - Blt] ELSE out[p]]
    BY DEF EightPixels, Put
  <1>4. Blt' = Blt + n /\ Width' = Width + n /\ Image' = Image + 1
    BY DEF EightPixels, Move
  <1> HIDE DEF n
  <1>5. Width % 8 = 0
    BY <1>1 DEF Converting
  <1>6. Bytes(Width + n) = Bytes(Width) + 1
    BY <1>1, <1>2, <1>5 DEF Bytes
  <1>7. Width + n < bmp.w => ((Width + n) * bmp.bpp) % 8 = 0
    BY <1>1, <1>2, <1>5
  <1>8. \A k \in 0 .. n - 1 :
           Source(Width + k, bmp.h - 1 - Height) = [byte |-> Image, sub |-> k]
    BY <1>1, <1>2, SourceOfColumn
  <1>9. UNCHANGED <<bmp, at, Height, blt, corner>>
    BY DEF EightPixels
  <1> QED
    BY <1>1, <1>2, <1>3, <1>4, <1>6, <1>7, <1>8, <1>9, ColumnKeeps

LEMMA TwoPixelsKeeps == SplashInv /\ TwoPixels => SplashInv'
  <1> SUFFICES ASSUME SplashInv, TwoPixels PROVE SplashInv'
    OBVIOUS
  <1> DEFINE n == InByte
  <1>1. /\ Column /\ bmp.bpp = 4 /\ Converting
        /\ bmp.w \in Nat /\ Width \in 0 .. bmp.w - 1
    <2>1. Column /\ bmp.bpp = 4
      BY DEF TwoPixels
    <2> QED
      BY <2>1, ColumnFacts
  <1>2. n \in 1 .. 2 /\ Width + n <= bmp.w /\ (Width + n < bmp.w => n = 2)
    BY <1>1 DEF InByte
  <1>3. out' = [p \in DOMAIN out |-> IF p \in Blt .. Blt + n - 1
                                     THEN [byte |-> Image, sub |-> p - Blt] ELSE out[p]]
    BY DEF TwoPixels, Put
  <1>4. Blt' = Blt + n /\ Width' = Width + n /\ Image' = Image + 1
    BY DEF TwoPixels, Move
  <1> HIDE DEF n
  <1>5. (Width * 4) % 8 = 0
    BY <1>1 DEF Converting
  <1>6. Bytes(Width + n) = Bytes(Width) + 1
    BY <1>1, <1>2, <1>5 DEF Bytes
  <1>7. Width + n < bmp.w => ((Width + n) * bmp.bpp) % 8 = 0
    BY <1>1, <1>2, <1>5
  <1>8. \A k \in 0 .. n - 1 :
           Source(Width + k, bmp.h - 1 - Height) = [byte |-> Image, sub |-> k]
    BY <1>1, <1>2, SourceOfColumn
  <1>9. UNCHANGED <<bmp, at, Height, blt, corner>>
    BY DEF TwoPixels
  <1> QED
    BY <1>1, <1>2, <1>3, <1>4, <1>6, <1>7, <1>8, <1>9, ColumnKeeps

LEMMA OnePixelKeeps == SplashInv /\ OnePixel => SplashInv'
  <1> SUFFICES ASSUME SplashInv, OnePixel PROVE SplashInv'
    OBVIOUS
  <1> DEFINE used == bmp.bpp \div 8
  <1>1. /\ Column /\ bmp.bpp \in {8, 24} /\ Converting
        /\ bmp.w \in Nat /\ Width \in 0 .. bmp.w - 1 /\ Blt \in Int
    <2>1. Column /\ bmp.bpp \in {8, 24}
      BY DEF OnePixel
    <2> QED
      BY <2>1, ColumnFacts
  <1>2. used \in Nat /\ used * 8 = bmp.bpp
    BY <1>1
  <1>3. out' = [p \in DOMAIN out |-> IF p \in Blt .. Blt + 1 - 1
                                     THEN [byte |-> Image, sub |-> p - Blt] ELSE out[p]]
    <2>1. out' = [p \in DOMAIN out |-> IF p \in Blt .. Blt + 1 - 1
                                       THEN [byte |-> Image, sub |-> 0] ELSE out[p]]
      BY DEF OnePixel, Put
    <2>2. \A p \in Blt .. Blt + 1 - 1 : p - Blt = 0
      BY <1>1
    <2> QED
      BY <2>1, <2>2
  <1>4. Image \in Int
    BY <1>1, ColumnFacts
  <1>5. Blt' = Blt + 1 /\ Width' = Width + 1 /\ Image' = Image + used
    <2>1. Blt' = Blt + 1 /\ Width' = Width + 1 /\ Image' = (Image + used - 1) + 1
      BY DEF OnePixel, Move
    <2> HIDE DEF used
    <2> QED
      BY <1>2, <1>4, <2>1
  <1> HIDE DEF used
  <1>6. Bytes(Width + 1) = Bytes(Width) + used
    <2>1. CASE bmp.bpp = 8
      BY <1>1, <1>2, <2>1 DEF Bytes
    <2>2. CASE bmp.bpp = 24
      BY <1>1, <1>2, <2>2 DEF Bytes
    <2> QED
      BY <1>1, <2>1, <2>2
  <1>7. ((Width + 1) * bmp.bpp) % 8 = 0
    BY <1>1
  <1>8. \A k \in 0 .. 1 - 1 :
           Source(Width + k, bmp.h - 1 - Height) = [byte |-> Image, sub |-> k]
    BY <1>1, SourceOfColumn
  <1>9. UNCHANGED <<bmp, at, Height, blt, corner>>
    BY DEF OnePixel
  <1>10. Width + 1 <= bmp.w
    BY <1>1
  <1> QED
    BY <1>1, <1>2, <1>3, <1>5, <1>6, <1>7, <1>8, <1>9, <1>10, ColumnKeeps

LEMMA EndRowKeeps == SplashInv /\ EndRow => SplashInv'
  <1> SUFFICES ASSUME SplashInv, EndRow PROVE SplashInv'
    OBVIOUS
  <1> DEFINE line == DataSizePerLine(bmp)
  <1>1. /\ BitmapType /\ Converting /\ at = "convert"
        /\ Height \in 0 .. bmp.h - 1 /\ Width = bmp.w
        /\ Height' = Height + 1 /\ Width' = 0
        /\ UNCHANGED <<bmp, at, out, blt, corner>>
    BY DEF SplashInv, SplashTypes, EndRow, BitmapType
  <1>2. SplashTypes'
    BY <1>1 DEF SplashInv, SplashTypes, BitmapType, Fits, Pixels
  <1>3. /\ line \in Nat /\ Bytes(bmp.w) \in Nat /\ Height * line \in Nat
        /\ (Height + 1) * line = Height * line + line
    <2>1. line \in Nat /\ Bytes(bmp.w) \in Nat
      BY <1>1, LineType
    <2> HIDE DEF line
    <2> QED
      BY <1>1, <2>1
  <1>4. Bytes(bmp.w) + ((4 - (Bytes(bmp.w) % 4)) % 4) = line
    BY <1>1, LineType, RowOfBits
  <1>5. (Height * line + Bytes(bmp.w)) % 4 = Bytes(bmp.w) % 4
    <2>1. PICK q \in Nat : line = q * 4
      BY <1>1, LineType
    <2> HIDE DEF line
    <2> QED
      BY <1>1, <1>3, <2>1, WholeLines
  <1>6. Image - bmp.offset = Height * line + Bytes(bmp.w)
    BY <1>1, <1>3 DEF Converting, BitmapType
  <1>7. Padding = (4 - (Bytes(bmp.w) % 4)) % 4
    BY <1>5, <1>6 DEF Padding
  <1>8. Image' = bmp.offset + (Height + 1) * line + Bytes(0)
    <2>1. Bytes(0) = 0
      BY <1>1, BytesMonotone
    <2>2. Image = bmp.offset + Height * line + Bytes(bmp.w)
      BY <1>1 DEF Converting
    <2> HIDE DEF line
    <2> QED
      BY <1>1, <1>3, <1>4, <1>7, <2>1, <2>2 DEF EndRow, BitmapType
  <1>9. Converting'
    <2>1. HeaderAccepted'
      BY <1>1 DEF Converting, HeaderAccepted, DataSizePerLine, ColorMap, ColorMapNum
    <2>2. Image' = bmp'.offset + Height' * DataSizePerLine(bmp') + Bytes(Width)'
      BY <1>1, <1>8 DEF Bytes
    <2>3. Blt' = RowStart(Height)' + Width'
      BY <1>1 DEF EndRow, RowStart, BitmapType
    <2>4. bmp.bpp \in {1, 4, 8, 24}
      BY <1>1 DEF Converting, BitmapType
    <2>5. (Width' * bmp'.bpp) % 8 = 0
      BY <1>1 DEF BitmapType
    <2>6. \A x \in 0 .. bmp.w - 1, y \in 0 .. bmp.h - 1 :
             bmp.h - 1 - y < Height + 1 => RightAt(x, y)
      <3> SUFFICES ASSUME NEW x \in 0 .. bmp.w - 1, NEW y \in 0 .. bmp.h - 1,
                          bmp.h - 1 - y < Height + 1
                   PROVE  RightAt(x, y)
        OBVIOUS
      <3>1. \/ bmp.h - 1 - y < Height
            \/ bmp.h - 1 - y = Height /\ x < Width
        BY <1>1 DEF BitmapType
      <3> QED
        BY <1>1, <3>1 DEF Converting
    <2>7. \A x \in 0 .. bmp'.w - 1, y \in 0 .. bmp'.h - 1 :
             \/ bmp'.h - 1 - y < Height'
             \/ bmp'.h - 1 - y = Height' /\ x < Width'
             => RightAt(x, y)'
      BY <1>1, <2>6 DEF RightAt, Source, RowBytes
    <2> QED
      BY <1>1, <2>1, <2>2, <2>3, <2>4, <2>5, <2>7 DEF Converting
  <1> QED
    BY <1>1, <1>2, <1>9 DEF SplashInv

LEMMA ConvertedKeeps == SplashInv /\ Converted => SplashInv'
  <1> SUFFICES ASSUME SplashInv, Converted PROVE SplashInv'
    OBVIOUS
  <1>1. /\ BitmapType /\ Converting /\ Height = bmp.h /\ Width = 0 /\ at' = "show"
        /\ UNCHANGED <<bmp, Height, Width, Image, Blt, out, blt, corner>>
    BY DEF SplashInv, Converted, SplashTypes, Converting
  <1>2. SplashTypes'
    BY <1>1 DEF SplashInv, SplashTypes, BitmapType, Fits, Pixels
  <1>3. DataSizePerLine(bmp) \in Nat /\ Bytes(0) = 0 /\ bmp.h * DataSizePerLine(bmp) \in Nat
    <2>1. DataSizePerLine(bmp) \in Nat /\ Bytes(0) = 0
      BY <1>1, LineType, BytesMonotone
    <2> QED
      BY <1>1, <2>1 DEF BitmapType
  <1>4. Image = bmp.size
    BY <1>1, <1>3 DEF Converting, HeaderAccepted, BitmapType
  <1>5. \A x \in 0 .. bmp.w - 1, y \in 0 .. bmp.h - 1 : RightAt(x, y)
    BY <1>1 DEF Converting, BitmapType
  <1>6. \A x \in 0 .. bmp'.w - 1, y \in 0 .. bmp'.h - 1 : RightAt(x, y)'
    BY <1>1, <1>5 DEF RightAt, Source, RowBytes
  <1> QED
    BY <1>1, <1>2, <1>4, <1>6 DEF SplashInv

\* The other steps end the conversion, or leave what it made alone.
LEMMA OtherStepKeeps ==
  ASSUME SplashInv, UNCHANGED <<bmp, Height, Width, Image, Blt, out>>,
         \/ at' \in {at, "failed"}
         \/ at = "show" /\ at' = "shown"
  PROVE  SplashInv'
  <1>1. SplashTypes'
    BY DEF SplashInv, SplashTypes, BitmapType, Fits, Pixels
  <1>2. Converting => Converting'
    BY DEF Converting, HeaderAccepted, DataSizePerLine, ColorMap, ColorMapNum, Bytes, RowStart,
           RightAt, Source, RowBytes
  <1> QED
    BY <1>1, <1>2 DEF SplashInv, RightAt, Source, RowBytes

LEMMA SplashStep == SplashInv /\ [SplashNext]_splashVars => SplashInv'
  <1> SUFFICES ASSUME SplashInv, [SplashNext]_splashVars PROVE SplashInv'
    OBVIOUS
  <1>1. CASE Reject
    BY <1>1, OtherStepKeeps DEF Reject
  <1>2. CASE Convert
    BY <1>2, ConvertKeeps
  <1>3. CASE EightPixels
    BY <1>3, EightPixelsKeeps
  <1>4. CASE TwoPixels
    BY <1>4, TwoPixelsKeeps
  <1>5. CASE OnePixel
    BY <1>5, OnePixelKeeps
  <1>6. CASE OtherDepth
    BY <1>6, OtherStepKeeps DEF OtherDepth
  <1>7. CASE EndRow
    BY <1>7, EndRowKeeps
  <1>8. CASE Converted
    BY <1>8, ConvertedKeeps
  <1>9. CASE NoScreen
    BY <1>9, OtherStepKeeps DEF NoScreen
  <1>10. CASE \E screen \in Screens : gop_display_blt(screen)
    BY <1>10, OtherStepKeeps DEF gop_display_blt
  <1>11. CASE UNCHANGED splashVars
    BY <1>11, OtherStepKeeps DEF splashVars
  <1> QED
    BY <1>1, <1>2, <1>3, <1>4, <1>5, <1>6, <1>7, <1>8, <1>9, <1>10, <1>11 DEF SplashNext

\* Each step keeps the bitmap, and reads the colour map where it may.
LEMMA EntryStep == Fits /\ SplashInv /\ EntryInv /\ [SplashNext]_splashVars => EntryInv'
  <1> SUFFICES ASSUME Fits, SplashInv, EntryInv, [SplashNext]_splashVars PROVE EntryInv'
    OBVIOUS
  <1>1. BitmapType
    BY DEF SplashInv, SplashTypes
  <1>2. ASSUME UNCHANGED <<bmp, at>>, at = "convert", ReadColorMap, bmp.bpp \in {1, 4, 8}
        PROVE  EntryInv'
    <2>1. HeaderAccepted /\ HeaderAccepted'
      BY <1>2 DEF EntryInv, HeaderAccepted, DataSizePerLine, ColorMap, ColorMapNum
    <2>2. bmp.offset > HeaderSize => bmp.offset - HeaderSize = 4 * ColorMapNum(bmp.bpp)
      BY <2>1 DEF HeaderAccepted, ColorMap
    <2>3. PICK k \in {0, ColorMapNum(bmp.bpp) - 1} : entry' = HeaderSize + 4 * k
      BY <1>2 DEF ReadColorMap
    <2>4. ColorMapNum(bmp.bpp) \in {2, 16, 256}
      BY <1>2 DEF ColorMapNum
    <2>5. bmp.offset > HeaderSize => entry' + 4 <= bmp.offset
      BY <1>1, <2>2, <2>3, <2>4 DEF HeaderSize, BitmapType
    <2> QED
      BY <1>2, <2>1, <2>5 DEF EntryInv
  <1>3. ASSUME UNCHANGED <<bmp, entry>>,
               \/ at' \in {at, "failed"}
               \/ at = "convert" /\ at' = "show"
               \/ at = "show" /\ at' = "shown"
        PROVE  EntryInv'
    BY <1>3 DEF EntryInv, HeaderAccepted, DataSizePerLine, ColorMap, ColorMapNum
  <1>4. CASE Convert
    BY <1>1, <1>4 DEF EntryInv, Convert, HeaderAccepted, DataSizePerLine, ColorMap, ColorMapNum,
                      HeaderSize, BitmapType
  <1>5. CASE EightPixels
    BY <1>2, <1>5 DEF EightPixels, Column
  <1>6. CASE TwoPixels
    BY <1>2, <1>6 DEF TwoPixels, Column
  <1>7. CASE OnePixel
    BY <1>2, <1>3, <1>7 DEF OnePixel, Column
  <1>8. CASE Reject \/ OtherDepth \/ EndRow \/ Converted \/ NoScreen
    BY <1>3, <1>8 DEF Reject, OtherDepth, EndRow, Converted, NoScreen
  <1>9. CASE \E screen \in Screens : gop_display_blt(screen)
    BY <1>3, <1>9 DEF gop_display_blt
  <1>10. CASE UNCHANGED splashVars
    BY <1>3, <1>10 DEF splashVars
  <1> QED
    BY <1>4, <1>5, <1>6, <1>7, <1>8, <1>9, <1>10 DEF SplashNext

LEMMA BitmapKept == [SplashNext]_splashVars => bmp' = bmp
  BY DEF SplashNext, Reject, Convert, EightPixels, TwoPixels, OnePixel, OtherDepth, EndRow,
         Converted, NoScreen, gop_display_blt, splashVars

LEMMA SplashInvIsRight == SplashInv /\ EntryInv => PixelsRight
  <1> SUFFICES ASSUME SplashInv, EntryInv PROVE PixelsRight
    OBVIOUS
  <1>1. BitmapType /\ Height \in 0 .. bmp.h /\ Width \in 0 .. bmp.w
    BY DEF SplashInv, SplashTypes
  <1>2. ASSUME at = "convert" PROVE Image <= bmp.size /\ Width <= bmp.w
    <2> DEFINE line == DataSizePerLine(bmp)
    <2>1. Converting
      BY <1>2 DEF SplashInv
    <2>2. /\ line \in Nat /\ Bytes(bmp.w) <= line
          /\ Bytes(Width) \in Nat /\ Bytes(Width) <= Bytes(bmp.w) /\ Bytes(bmp.w) \in Nat
          /\ Bytes(0) = 0
      BY <1>1, LineType, BytesMonotone DEF BitmapType
    <2> HIDE DEF line
    <2>3. PICK d \in Nat : bmp.h = Height + d
      <3>1. bmp.h - Height \in Nat /\ bmp.h = Height + (bmp.h - Height)
        BY <1>1 DEF BitmapType
      <3> QED
        BY <3>1
    <2>4. bmp.h * line = Height * line + d * line /\ d * line \in Nat /\ Height * line \in Nat
      BY <1>1, <2>2, <2>3
    <2>5. d = 0 => Bytes(Width) = 0
      BY <1>1, <2>1, <2>2, <2>3 DEF Converting
    <2>6. d # 0 => d * line >= line
      BY <2>2
    <2>7. bmp.size = bmp.offset + bmp.h * line
      BY <1>1, <2>1, <2>2, <2>4 DEF Converting, HeaderAccepted, BitmapType, line
    <2>8. Image = bmp.offset + Height * line + Bytes(Width)
      BY <2>1 DEF Converting, line
    <2> QED
      BY <1>1, <2>2, <2>4, <2>5, <2>6, <2>7, <2>8 DEF BitmapType
  <1> QED
    BY <1>2 DEF SplashInv, EntryInv, PixelsRight, RightAt

\* The conversion of a bitmap of any depth and either kind of header, of any
\* height and any width whose bits a 32-bit word counts, stays inside the file
\* and the picture, what it shows is the picture, and its colours come from the
\* colour map if the header leaves room for one.  Of a wider bitmap, and of the
\* entries read where there is no colour map, it says nothing: the code reads
\* beyond the file there.
THEOREM PixelsRightSafe == SplashSpec => []PixelsRight
  <1> DEFINE I == Fits => SplashInv /\ EntryInv
  <1>1. SplashInit => I
    BY SplashStarts
  <1>2. I /\ [SplashNext]_splashVars => I'
    <2> SUFFICES ASSUME I, [SplashNext]_splashVars, Fits' PROVE (SplashInv /\ EntryInv)'
      OBVIOUS
    <2>1. Fits
      BY BitmapKept DEF Fits
    <2> QED
      BY <2>1, SplashStep, EntryStep
  <1>3. I => PixelsRight
    BY SplashInvIsRight DEF PixelsRight
  <1> HIDE DEF I
  <1> QED
    BY <1>1, <1>2, <1>3, PTL DEF SplashSpec

-----------------------------------------------------------------------------
(***************************************************************************)
(* The memory map: regions of any types, in any order, that do not overlap.*)
(***************************************************************************)
MapSpec == MapInit /\ [][MapNext]_map

\* What a region adds to the memory at most.
Span == (MaxPages + MaxGap) * Page

Apart(d, e) == End(d) <= e.PhysicalStart \/ End(e) <= d.PhysicalStart

Regions == [Type : RegionTypes, PhysicalStart : Nat, NumberOfPages : Nat \ {0}]

MapInv ==
    /\ map \in Seq(Regions)
    /\ Len(map) <= MaxRegions
    /\ \A k \in DOMAIN map : End(map[k]) <= Len(map) * Span
    /\ \A j, k \in DOMAIN map : j # k => Apart(map[j], map[k])
    /\ map # << >> => \E k \in DOMAIN map : \A j \in DOMAIN map : End(map[j]) <= End(map[k])

LEMMA RegionEnd ==
  ASSUME NEW d \in Regions
  PROVE  End(d) \in Nat /\ End(d) >= d.PhysicalStart + Page /\ End(d) > d.PhysicalStart
  <1>1. Page \in Nat \ {0} /\ d.NumberOfPages \in Nat \ {0} /\ d.PhysicalStart \in Nat
    BY MemoryMapAssumption DEF Regions
  <1>2. PICK m \in Nat : d.NumberOfPages = m + 1
    <2>1. d.NumberOfPages - 1 \in Nat /\ d.NumberOfPages = (d.NumberOfPages - 1) + 1
      BY <1>1
    <2> QED
      BY <2>1
  <1>3. d.NumberOfPages * Page = m * Page + Page /\ m * Page \in Nat
    BY <1>1, <1>2
  <1> QED
    BY <1>1, <1>3 DEF End

LEMMA SpanType == Span \in Nat
  BY MemoryMapAssumption DEF Span

\* Every region of the map lies within the addresses that occur.
LEMMA WithinAddresses ==
  ASSUME MapInv, NEW k \in DOMAIN map
  PROVE  End(map[k]) \in Addresses
  <1>1. Len(map) \in Nat /\ Len(map) <= MaxRegions /\ MaxRegions \in Nat /\ map[k] \in Regions
    BY MemoryMapAssumption DEF MapInv
  <1>2. PICK d \in Nat : MaxRegions = Len(map) + d
    <2>1. MaxRegions - Len(map) \in Nat /\ MaxRegions = Len(map) + (MaxRegions - Len(map))
      BY <1>1
    <2> QED
      BY <2>1
  <1>3. /\ MaxRegions * Span = Len(map) * Span + d * Span
        /\ d * Span \in Nat /\ Len(map) * Span \in Nat
    BY <1>1, <1>2, SpanType
  <1>4. MaxRegions * Span = MaxRegions * (MaxPages + MaxGap) * Page
    BY MemoryMapAssumption DEF Span
  <1>5. End(map[k]) \in Nat /\ End(map[k]) <= Len(map) * Span
    BY <1>1, RegionEnd DEF MapInv
  <1> QED
    BY <1>3, <1>4, <1>5 DEF Addresses

\* The next region is put above all the others.
LEMMA TopBounds ==
  ASSUME MapInv
  PROVE  /\ Top \in Nat /\ Top <= Len(map) * Span
         /\ \A k \in DOMAIN map : End(map[k]) <= Top
  <1>1. Len(map) \in Nat /\ Len(map) * Span \in Nat /\ DOMAIN map = 1 .. Len(map)
    BY SpanType DEF MapInv
  <1>2. CASE map = << >>
    BY <1>1, <1>2 DEF Top
  <1>3. CASE map # << >>
    <2>1. PICK k \in DOMAIN map : \A j \in DOMAIN map : End(map[j]) <= End(map[k])
      BY <1>3 DEF MapInv
    <2>2. End(map[k]) \in Addresses
      BY WithinAddresses
    <2>3. \E t \in Addresses : /\ \E i \in DOMAIN map : t = End(map[i])
                               /\ \A i \in DOMAIN map : End(map[i]) <= t
      BY <2>1, <2>2
    <2>4. /\ Top \in Addresses
          /\ \E i \in DOMAIN map : Top = End(map[i])
          /\ \A i \in DOMAIN map : End(map[i]) <= Top
      BY <1>3, <2>3 DEF Top
    <2>5. Top \in Nat
      BY <2>4 DEF Addresses
    <2> QED
      BY <2>4, <2>5 DEF MapInv
  <1> QED
    BY <1>2, <1>3

\* Sequence t is s with one more member d, which is its new-th; its k-th other
\* was the old[k]-th.
OneMore(t, s, d, new, old) ==
    /\ t \in Seq(Regions) /\ Len(t) = Len(s) + 1 /\ t[new] = d
    /\ \A k \in 1 .. Len(s) + 1 : k # new => old[k] \in 1 .. Len(s) /\ t[k] = s[old[k]]
    /\ \A j, k \in (1 .. Len(s) + 1) \ {new} : j # k => old[j] # old[k]

LEMMA EitherEnd ==
  ASSUME NEW s \in Seq(Regions), NEW d \in Regions, NEW t, t = Append(s, d) \/ t = <<d>> \o s
  PROVE  \E new \in 1 .. Len(s) + 1 : \E old : OneMore(t, s, d, new, old)
  <1> DEFINE last == Len(s) + 1
  <1>1. Len(s) \in Nat /\ last \in 1 .. last /\ 1 \in 1 .. last
    OBVIOUS
  <1>2. CASE t = Append(s, d)
    <2> DEFINE old == [k \in 1 .. last |-> k]
    <2>2. t \in Seq(Regions) /\ Len(t) = last /\ t[last] = d
      BY <1>2
    <2>3. \A k \in 1 .. last : k # last => k \in 1 .. Len(s) /\ t[k] = s[k]
      BY <1>2
    <2>4. OneMore(t, s, d, last, old)
      BY <2>2, <2>3 DEF OneMore
    <2> QED
      BY <1>1, <2>4
  <1>3. CASE t = <<d>> \o s
    <2> DEFINE old == [k \in 1 .. last |-> IF k = 1 THEN 1 ELSE k - 1]
    <2>2. <<d>> \in Seq(Regions) /\ Len(<<d>>) = 1 /\ <<d>>[1] = d
      OBVIOUS
    <2>3. t \in Seq(Regions) /\ Len(t) = last /\ t[1] = d
      BY <1>1, <1>3, <2>2, ConcatProperties
    <2>4. \A k \in 1 .. last : k # 1 => k - 1 \in 1 .. Len(s) /\ t[k] = s[k - 1]
      BY <1>1, <1>3, <2>2, ConcatProperties
    <2>5. \A k \in 1 .. last : k # 1 => old[k] \in 1 .. Len(s) /\ t[k] = s[old[k]]
      BY <2>4
    <2>6. \A j, k \in (1 .. last) \ {1} : j # k => old[j] # old[k]
      BY <1>1
    <2> HIDE DEF old
    <2>7. OneMore(t, s, d, 1, old)
      BY <2>3, <2>5, <2>6 DEF OneMore
    <2> QED
      BY <1>1, <2>7
  <1> QED
    BY <1>2, <1>3

LEMMA MapStarts == MapInit => MapInv
  BY MemoryMapAssumption DEF MapInit, MapInv

LEMMA MapStep == MapInv /\ [MapNext]_map => MapInv'
  <1> SUFFICES ASSUME MapInv, [MapNext]_map PROVE MapInv'
    OBVIOUS
  <1>1. CASE UNCHANGED map
    BY <1>1 DEF MapInv, Apart, End
  <1>2. CASE MapNext
    <2>1. PICK type \in RegionTypes, n \in 1 .. MaxPages, gap \in 0 .. MaxGap :
            AddRegion(type, n, gap)
      BY <1>2 DEF MapNext
    <2> DEFINE d == [Type |-> type, PhysicalStart |-> Top + gap * Page, NumberOfPages |-> n]
               last == Len(map) + 1
    <2>2. /\ map \in Seq(Regions) /\ Len(map) \in Nat /\ last <= MaxRegions
          /\ DOMAIN map = 1 .. Len(map)
          /\ map' = Append(map, d) \/ map' = <<d>> \o map
      <3>1. Len(map) < MaxRegions
        BY <2>1 DEF AddRegion
      <3>2. map' = Append(map, d) \/ map' = <<d>> \o map
        BY <2>1 DEF AddRegion
      <3> QED
        BY <3>1, <3>2, MemoryMapAssumption DEF MapInv
    <2>3. Top \in Nat /\ Top <= Len(map) * Span /\ \A k \in 1 .. Len(map) : End(map[k]) <= Top
      BY <2>2, TopBounds
    <2>4. Page \in Nat \ {0} /\ n \in Nat \ {0} /\ gap \in Nat /\ gap * Page \in Nat
      BY MemoryMapAssumption
    <2>5. d \in Regions /\ d.PhysicalStart >= Top
      BY <2>3, <2>4 DEF Regions
    <2>6. End(d) = Top + (n + gap) * Page
      BY <2>3, <2>4 DEF End
    <2>7. (n + gap) * Page <= Span
      <3>1. PICK e \in Nat : MaxPages + MaxGap = n + gap + e
        <4>1. /\ MaxPages + MaxGap - (n + gap) \in Nat
              /\ MaxPages + MaxGap = n + gap + (MaxPages + MaxGap - (n + gap))
          BY MemoryMapAssumption
        <4> QED
          BY <4>1
      <3>2. Span = (n + gap) * Page + e * Page /\ e * Page \in Nat /\ (n + gap) * Page \in Nat
        BY <2>4, <3>1 DEF Span
      <3> QED
        BY <3>2
    <2>8. (Len(map) + 1) * Span = Len(map) * Span + Span /\ Len(map) * Span \in Nat
      BY <2>2, SpanType
    <2>9. End(d) \in Nat /\ End(d) <= last * Span /\ End(d) > Top
      <3>1. (n + gap) * Page \in Nat /\ n * Page \in Nat /\ n * Page # 0
        BY <2>4
      <3>2. (n + gap) * Page = n * Page + gap * Page
        BY <2>4
      <3> QED
        BY <2>3, <2>4, <2>6, <2>7, <2>8, <3>1, <3>2, SpanType
    <2>10. ASSUME NEW k \in 1 .. Len(map)
           PROVE  /\ map[k] \in Regions /\ End(map[k]) \in Nat
                  /\ End(map[k]) <= Top /\ End(map[k]) <= last * Span
                  /\ Apart(map[k], d) /\ Apart(d, map[k])
      <3>1. map[k] \in Regions
        BY <2>2
      <3>2. End(map[k]) \in Nat
        BY <3>1, RegionEnd
      <3> QED
        BY <2>3, <2>5, <2>8, <3>1, <3>2, SpanType DEF Apart, Regions
    <2>11. ASSUME NEW j \in 1 .. Len(map), NEW k \in 1 .. Len(map), j # k
           PROVE  Apart(map[j], map[k])
      BY <2>2, <2>11 DEF MapInv
    <2> HIDE DEF d
    \* Where the region is put, and where the others are then.
    <2>18. PICK new \in 1 .. last : \E old : OneMore(map', map, d, new, old)
      BY <2>2, <2>5, EitherEnd
    <2>12. PICK old : OneMore(map', map, d, new, old)
      BY <2>18
    <2>13. /\ map' \in Seq(Regions) /\ Len(map') = last /\ map'[new] = d
           /\ \A k \in 1 .. last : k # new => old[k] \in 1 .. Len(map) /\ map'[k] = map[old[k]]
           /\ \A j, k \in (1 .. last) \ {new} : j # k => old[j] # old[k]
      BY <2>12 DEF OneMore
    <2>14. DOMAIN map' = 1 .. last
      BY <2>13
    <2>15. \A k \in 1 .. last : End(map'[k]) <= last * Span
      BY <2>9, <2>10, <2>13
    <2>16. \A j, k \in 1 .. last : j # k => Apart(map'[j], map'[k])
      <3>1. ASSUME NEW j \in 1 .. last, NEW k \in 1 .. last, j # k
            PROVE  Apart(map'[j], map'[k])
        <4>1. CASE j = new
          <5>1. map'[k] = map[old[k]] /\ old[k] \in 1 .. Len(map)
            BY <2>13, <3>1, <4>1
          <5> QED
            BY <2>10, <2>13, <4>1, <5>1
        <4>2. CASE k = new
          <5>1. map'[j] = map[old[j]] /\ old[j] \in 1 .. Len(map)
            BY <2>13, <3>1, <4>2
          <5> QED
            BY <2>10, <2>13, <4>2, <5>1
        <4>3. CASE j # new /\ k # new
          <5>1. /\ map'[j] = map[old[j]] /\ old[j] \in 1 .. Len(map)
                /\ map'[k] = map[old[k]] /\ old[k] \in 1 .. Len(map)
                /\ old[j] # old[k]
            BY <2>13, <3>1, <4>3
          <5> QED
            BY <2>11, <5>1
        <4> QED
          BY <4>1, <4>2, <4>3
      <3> QED
        BY <3>1
    <2>17. \A j \in 1 .. last : End(map'[j]) <= End(map'[new])
      <3>1. ASSUME NEW j \in 1 .. last, j # new
            PROVE  End(map'[j]) <= End(d)
        <4>1. map'[j] = map[old[j]] /\ old[j] \in 1 .. Len(map)
          BY <2>13, <3>1
        <4>2. End(map[old[j]]) \in Nat /\ End(map[old[j]]) <= Top
          BY <2>10, <4>1
        <4> QED
          BY <2>3, <2>9, <4>1, <4>2
      <3> QED
        BY <2>9, <2>13, <3>1
    <2> QED
      BY <2>2, <2>13, <2>14, <2>15, <2>16, <2>17 DEF MapInv, Regions, Span, Apart, End
  <1> QED
    BY <1>1, <1>2

-----------------------------------------------------------------------------
Less == {p \in Nat \X Nat : p[1] < p[2]}

LEMMA LessWellFounded == IsWellFoundedOn(Less, Nat)
  BY NatLessThanWellFounded DEF OpToRel, Less

\* A set of numbers that holds 0 and every successor holds all of them.
LEMMA SetInduction ==
  ASSUME NEW S \in SUBSET Nat, 0 \in S, \A n \in S : n + 1 \in S
  PROVE  S = Nat
  <1> SUFFICES ASSUME Nat \ S # {} PROVE FALSE
    OBVIOUS
  <1>1. PICK x \in Nat \ S : \A y \in Nat \ S : ~ (<<y, x>> \in Less)
    BY LessWellFounded, WFMin
  <1>2. x # 0 /\ x - 1 \in Nat /\ (x - 1) + 1 = x
    BY <1>1
  <1>3. x - 1 \in S
    <2>1. <<x - 1, x>> \in Less
      BY <1>2 DEF Less
    <2> QED
      BY <1>1, <1>2, <2>1
  <1> QED
    BY <1>1, <1>2, <1>3

\* A loop of n turns over states of S, the k-th of which does step[k].
IsLoop(f, base, step, n) ==
    f = [k \in 0 .. n |-> IF k = 0 THEN base ELSE step[k][f[k - 1]]]

LEMMA LoopExists ==
  ASSUME NEW S, NEW base \in S, NEW n \in Nat, NEW step \in [1 .. n -> [S -> S]]
  PROVE  \E f \in [0 .. n -> S] : IsLoop(f, base, step, n)
  <1> DEFINE T == {m \in Nat : m <= n => \E f \in [0 .. m -> S] : IsLoop(f, base, step, m)}
  <1>1. 0 \in T
    <2> DEFINE f == [k \in 0 .. 0 |-> base]
    <2>1. f \in [0 .. 0 -> S] /\ IsLoop(f, base, step, 0)
      BY DEF IsLoop
    <2> QED
      BY <2>1
  <1>2. ASSUME NEW m \in T PROVE m + 1 \in T
    <2> SUFFICES ASSUME m + 1 <= n PROVE \E f \in [0 .. m + 1 -> S] : IsLoop(f, base, step, m + 1)
      <3>1. m \in Nat /\ m + 1 \in Nat
        OBVIOUS
      <3> QED
        BY <3>1
    <2>1. PICK g \in [0 .. m -> S] : IsLoop(g, base, step, m)
      OBVIOUS
    <2> DEFINE f == [k \in 0 .. m + 1 |-> IF k = m + 1 THEN step[m + 1][g[m]] ELSE g[k]]
    <2>2. m \in Nat /\ m + 1 \in 1 .. n /\ g[m] \in S
      OBVIOUS
    <2>3. step[m + 1] \in [S -> S] /\ step[m + 1][g[m]] \in S
      BY <2>2
    <2>4. f \in [0 .. m + 1 -> S]
      BY <2>3
    <2>5. ASSUME NEW k \in 0 .. m + 1
          PROVE  f[k] = IF k = 0 THEN base ELSE step[k][f[k - 1]]
      <3>1. CASE k = m + 1
        <4>1. k # 0 /\ k - 1 = m /\ m \in 0 .. m + 1 /\ m # m + 1
          BY <2>2, <3>1
        <4>2. f[k - 1] = g[m]
          BY <4>1
        <4> QED
          BY <3>1, <4>1, <4>2
      <3>2. CASE k \in 0 .. m
        <4>1. g[k] = IF k = 0 THEN base ELSE step[k][g[k - 1]]
          BY <2>1, <3>2 DEF IsLoop
        <4>2. k # m + 1 /\ (k # 0 => k - 1 \in 0 .. m + 1 /\ k - 1 # m + 1)
          BY <2>2, <3>2
        <4> QED
          BY <4>1, <4>2
      <3> QED
        BY <2>2, <3>1, <3>2
    <2> HIDE DEF f
    <2>6. IsLoop(f, base, step, m + 1)
      BY <2>4, <2>5 DEF IsLoop
    <2> QED
      BY <2>4, <2>6
  <1> HIDE DEF T
  <1>3. T = Nat
    <2>1. T \subseteq Nat
      BY DEF T
    <2> QED
      BY <1>1, <1>2, <2>1, SetInduction
  <1>4. n \in T
    BY <1>3
  <1> QED
    BY <1>4 DEF T

-----------------------------------------------------------------------------
(***************************************************************************)
(* setup_e820_map                                                          *)
(***************************************************************************)
Kinds == {E820Type(type) : type \in RegionTypes}
Entries == [addr : Nat, size : Nat, type : Kinds]

E820Loop(f) == f = [k \in 0 .. Len(map) |-> IF k = 0 THEN << >> ELSE AddEntry(f[k - 1], map[k])]

LEMMA AddEntryType ==
  ASSUME NEW e \in Seq(Entries), NEW d \in Regions
  PROVE  AddEntry(e, d) \in Seq(Entries)
  <1>1. d.NumberOfPages * Page \in Nat /\ d.PhysicalStart \in Nat /\ d.Type \in RegionTypes
    BY MemoryMapAssumption DEF Regions
  <1>2. E820Type(d.Type) \in Kinds
    BY <1>1 DEF Kinds
  <1>3. CASE E820Type(d.Type) = "none"
    BY <1>3 DEF AddEntry
  <1>4. CASE E820Type(d.Type) # "none" /\ Continues(e, d)
    <2> DEFINE r == e[Len(e)]
               size == r.size + d.NumberOfPages * Page
               last == [r EXCEPT !.size = size]
    <2>1. Len(e) \in 1 .. Len(e) /\ e[Len(e)] \in Entries
      BY <1>4 DEF Continues
    <2>2. last \in Entries
      <3>1. r \in Entries /\ size \in Nat
        BY <1>1, <2>1 DEF Entries
      <3> HIDE DEF r, size
      <3> QED
        BY <3>1 DEF Entries
    <2>3. AddEntry(e, d) = [e EXCEPT ![Len(e)] = last]
      BY <1>4 DEF AddEntry
    <2> HIDE DEF last
    <2> QED
      BY <2>1, <2>2, <2>3, ExceptSeq
  <1>5. CASE E820Type(d.Type) # "none" /\ ~ Continues(e, d)
    <2> DEFINE last == [addr |-> d.PhysicalStart, size |-> d.NumberOfPages * Page,
                        type |-> E820Type(d.Type)]
    <2>1. last \in Entries
      BY <1>1, <1>2 DEF Entries
    <2>2. AddEntry(e, d) = Append(e, last)
      BY <1>5 DEF AddEntry
    <2> HIDE DEF last
    <2> QED
      BY <2>1, <2>2
  <1> QED
    BY <1>3, <1>4, <1>5

LEMMA E820LoopRuns ==
  ASSUME MapInv
  PROVE  \E f \in [0 .. Len(map) -> Seq(Entries)] :
            E820Loop(f) /\ setup_e820_map = f[Len(map)]
  <1> DEFINE n == Len(map)
             step == [k \in 1 .. n |-> [e \in Seq(Entries) |-> AddEntry(e, map[k])]]
  <1>1. n \in Nat /\ \A k \in 1 .. n : map[k] \in Regions
    BY DEF MapInv
  <1>2. << >> \in Seq(Entries)
    OBVIOUS
  <1>3. step \in [1 .. n -> [Seq(Entries) -> Seq(Entries)]]
    BY <1>1, AddEntryType
  <1> HIDE DEF step
  <1>4. PICK f \in [0 .. n -> Seq(Entries)] : IsLoop(f, << >>, step, n)
    BY <1>1, <1>2, <1>3, LoopExists
  <1>5. E820Loop(f)
    <2>1. ASSUME NEW k \in 0 .. n
          PROVE  f[k] = IF k = 0 THEN << >> ELSE AddEntry(f[k - 1], map[k])
      <3>1. CASE k = 0
        BY <1>1, <1>4, <3>1 DEF IsLoop
      <3>2. CASE k # 0
        <4>1. k \in 1 .. n /\ f[k - 1] \in Seq(Entries)
          BY <1>1, <3>2
        <4>2. f[k] = step[k][f[k - 1]]
          BY <1>4, <3>2 DEF IsLoop
        <4> QED
          BY <3>2, <4>1, <4>2 DEF step
      <3> QED
        BY <3>1, <3>2
    <2> QED
      BY <2>1 DEF E820Loop
  <1> DEFINE F == CHOOSE g : E820Loop(g)
  <1>6. setup_e820_map = F[n]
    BY DEF setup_e820_map, E820Loop
  <1>7. E820Loop(F)
    BY <1>5, Zenon
  <1> HIDE DEF F
  <1>8. DOMAIN F = 0 .. n /\ F[0] = << >>
    BY <1>1, <1>7 DEF E820Loop
  <1>9. ASSUME NEW k \in 1 .. n PROVE F[k] = AddEntry(F[k - 1], map[k])
    BY <1>7 DEF E820Loop
  <1> DEFINE T == {k \in Nat : k <= n => F[k] \in Seq(Entries)}
  <1>10. 0 \in T
    BY <1>2, <1>8
  <1>11. ASSUME NEW k \in T PROVE k + 1 \in T
    <2>1. k \in Nat /\ (k + 1) - 1 = k
      OBVIOUS
    <2>2. ASSUME k + 1 <= n PROVE F[k + 1] \in Seq(Entries)
      <3>1. k + 1 \in 1 .. n /\ F[k] \in Seq(Entries)
        BY <1>1, <2>1, <2>2
      <3>2. F[k + 1] = AddEntry(F[k], map[k + 1])
        BY <1>9, <2>1, <3>1
      <3> QED
        BY <1>1, <3>1, <3>2, AddEntryType
    <2> QED
      BY <2>1, <2>2
  <1> HIDE DEF T
  <1>12. T = Nat
    <2>1. T \subseteq Nat
      BY DEF T
    <2> QED
      BY <1>10, <1>11, <2>1, SetInduction
  <1>13. \A k \in 0 .. n : F[k] \in Seq(Entries)
    BY <1>12 DEF T
  <1>14. F \in [0 .. n -> Seq(Entries)]
    <2>1. F = [k \in 0 .. n |-> F[k]]
      BY <1>7 DEF E820Loop
    <2> QED
      BY <1>13, <2>1
  <1> QED
    BY <1>6, <1>7, <1>14

Within(e, i, a) == e[i].addr <= a /\ a < e[i].addr + e[i].size

\* The kind of the memory at address a, by the first k regions of the map.
HasKind(k, a, t) ==
    t # "none" /\ \E j \in 1 .. k : Covers(map[j], a) /\ E820Type(map[j].Type) = t

\* Entries e are the table of the first k regions.
TableOf(e, k) ==
    /\ \A a \in Nat, t \in Kinds :
          (\E i \in 1 .. Len(e) : Within(e, i, a) /\ e[i].type = t) <=> HasKind(k, a, t)
    /\ \A i, l \in 1 .. Len(e) : \A a \in Nat : Within(e, i, a) /\ Within(e, l, a) => i = l
    /\ \A i \in 2 .. Len(e) : e[i - 1].type = e[i].type => e[i - 1].addr + e[i - 1].size # e[i].addr

LEMMA AddEntryKeeps ==
  ASSUME MapInv, NEW k \in 1 .. Len(map), NEW e \in Seq(Entries), TableOf(e, k - 1)
  PROVE  TableOf(AddEntry(e, map[k]), k)
  <1> DEFINE d == map[k]
             t0 == E820Type(d.Type)
             len == Len(e)
             f == AddEntry(e, d)
  <1>1. /\ d \in Regions /\ Len(map) \in Nat /\ k - 1 \in Nat /\ t0 \in Kinds
        /\ \A j \in 1 .. k - 1 : map[j] \in Regions /\ Apart(map[j], d)
    <2>1. DOMAIN map = 1 .. Len(map) /\ \A j \in 1 .. Len(map) : map[j] \in Regions
      BY DEF MapInv
    <2>2. \A j \in 1 .. k - 1 : j \in 1 .. Len(map) /\ j # k
      BY <2>1
    <2>3. \A j \in 1 .. k - 1 : Apart(map[j], d)
      BY <2>1, <2>2 DEF MapInv
    <2>4. \A type \in RegionTypes : E820Type(type) \in Kinds
      BY DEF Kinds
    <2>5. d.Type \in RegionTypes
      BY <2>1 DEF Regions
    <2> QED
      BY <2>1, <2>2, <2>3, <2>4, <2>5
  <1>2. /\ d.PhysicalStart \in Nat /\ d.NumberOfPages * Page \in Nat
        /\ End(d) = d.PhysicalStart + d.NumberOfPages * Page
    BY <1>1, MemoryMapAssumption DEF Regions, End
  <1>3. len \in Nat /\ \A i \in 1 .. len : e[i] \in Entries
    OBVIOUS
  \* The region covers nothing that an entry holds.
  <1>4. ASSUME NEW a \in Nat, NEW i \in 1 .. len, Within(e, i, a), Covers(d, a) PROVE FALSE
    <2>1. e[i].type \in Kinds
      BY <1>3 DEF Entries
    <2>2. HasKind(k - 1, a, e[i].type)
      BY <1>4, <2>1 DEF TableOf
    <2>3. PICK j \in 1 .. k - 1 : Covers(map[j], a)
      BY <2>2 DEF HasKind
    <2>4. map[j] \in Regions /\ Apart(map[j], d) /\ End(map[j]) \in Nat
      BY <1>1, <2>3, RegionEnd
    <2> QED
      BY <1>2, <1>4, <2>3, <2>4 DEF Apart, Covers, Regions
  <1>5. ASSUME NEW a \in Nat, NEW t \in Kinds
        PROVE  HasKind(k, a, t) <=> \/ HasKind(k - 1, a, t)
                                    \/ t # "none" /\ Covers(d, a) /\ t0 = t
    <2>1. \A j : j \in 1 .. k <=> j \in 1 .. k - 1 \/ j = k
      BY <1>1
    <2> QED
      BY <2>1 DEF HasKind
  <1>6. CASE t0 = "none"
    <2>1. f = e
      BY <1>6 DEF AddEntry
    <2>2. \A a \in Nat, t \in Kinds : HasKind(k, a, t) <=> HasKind(k - 1, a, t)
      BY <1>5, <1>6
    <2> HIDE DEF f
    <2>3. \A a \in Nat, t \in Kinds :
             (\E i \in 1 .. len : Within(e, i, a) /\ e[i].type = t) <=> HasKind(k, a, t)
      BY <2>2 DEF TableOf
    <2>4. TableOf(e, k)
      BY <2>3 DEF TableOf
    <2> QED
      BY <2>1, <2>4 DEF f
  <1>7. CASE t0 # "none" /\ Continues(e, d)
    <2> DEFINE r == e[len]
               size == r.size + d.NumberOfPages * Page
               last == [r EXCEPT !.size = size]
    <2>1. len \in 1 .. len /\ r \in Entries /\ r.type = t0 /\ r.addr + r.size = d.PhysicalStart
      BY <1>3, <1>7 DEF Continues, Last
    <2>2. r.size \in Nat /\ r.addr \in Nat /\ size \in Nat
      <3> HIDE DEF r
      <3>1. r.size \in Nat /\ r.addr \in Nat
        BY <2>1 DEF Entries
      <3> QED
        BY <1>2, <3>1
    <2>3. last \in Entries /\ last.addr = r.addr /\ last.size = size /\ last.type = t0
      <3> HIDE DEF r, size
      <3> QED
        BY <2>1, <2>2 DEF Entries
    <2>4. f = [e EXCEPT ![len] = last]
      BY <1>7 DEF AddEntry
    <2> HIDE DEF last
    <2>5. /\ Len(f) = len /\ f[len] = last
          /\ \A i \in 1 .. len : i # len => f[i] = e[i]
      BY <2>1, <2>3, <2>4, ExceptSeq
    <2> HIDE DEF f
    <2>6. ASSUME NEW a \in Nat
          PROVE  /\ Within(f, len, a) <=> Within(e, len, a) \/ Covers(d, a)
                 /\ \A i \in 1 .. len : i # len => (Within(f, i, a) <=> Within(e, i, a))
      <3>1. Within(f, len, a) <=> r.addr <= a /\ a < r.addr + size
        BY <2>3, <2>5 DEF Within
      <3>2. Covers(d, a) <=> r.addr + r.size <= a /\ a < r.addr + size
        <4>1. Covers(d, a) <=> d.PhysicalStart <= a /\ a < d.PhysicalStart + d.NumberOfPages * Page
          BY <1>2 DEF Covers
        <4>2. r.addr + size = d.PhysicalStart + d.NumberOfPages * Page
          <5> HIDE DEF r
          <5>1. PICK n \in Nat : n = d.NumberOfPages * Page
            BY <1>2
          <5> QED
            BY <1>2, <2>1, <2>2, <5>1
        <4> HIDE DEF r, size
        <4> QED
          BY <2>1, <4>1, <4>2
      <3>3. Within(e, len, a) <=> r.addr <= a /\ a < r.addr + r.size
        BY DEF Within
      <3>4. size >= r.size
        BY <1>2, <2>2
      <3>5. Within(f, len, a) <=> Within(e, len, a) \/ Covers(d, a)
        <4> HIDE DEF size, r
        <4> QED
          BY <2>2, <3>1, <3>2, <3>3, <3>4
      <3> QED
        BY <2>5, <3>5 DEF Within
    <2>7. \A i \in 1 .. len : f[i].type = e[i].type /\ f[i].addr = e[i].addr
      BY <2>1, <2>3, <2>5
    <2>8. ASSUME NEW a \in Nat, NEW t \in Kinds
          PROVE  (\E i \in 1 .. len : Within(f, i, a) /\ f[i].type = t) <=> HasKind(k, a, t)
      <3>1. (\E i \in 1 .. len : Within(f, i, a) /\ f[i].type = t)
              <=> \/ \E i \in 1 .. len : Within(e, i, a) /\ e[i].type = t
                  \/ Covers(d, a) /\ t0 = t
        BY <2>1, <2>6, <2>7
      <3>2. (\E i \in 1 .. len : Within(e, i, a) /\ e[i].type = t) <=> HasKind(k - 1, a, t)
        BY DEF TableOf
      <3> QED
        BY <1>5, <1>7, <3>1, <3>2
    <2>9. ASSUME NEW i \in 1 .. len, NEW l \in 1 .. len, NEW a \in Nat,
                 Within(f, i, a), Within(f, l, a)
          PROVE  i = l
      <3>1. \A j \in 1 .. len : Within(f, j, a) => Within(e, j, a) \/ (j = len /\ Covers(d, a))
        BY <2>6
      <3>2. Within(e, i, a) /\ Within(e, l, a) => i = l
        BY DEF TableOf
      <3> QED
        BY <1>4, <2>9, <3>1, <3>2
    <2>10. ASSUME NEW i \in 2 .. len, f[i - 1].type = f[i].type
           PROVE  f[i - 1].addr + f[i - 1].size # f[i].addr
      <3>1. i \in 1 .. len /\ i - 1 \in 1 .. len /\ i - 1 # len
        BY <1>3
      <3>2. f[i - 1] = e[i - 1]
        BY <2>5, <3>1
      <3>3. e[i - 1].type = e[i].type => e[i - 1].addr + e[i - 1].size # e[i].addr
        BY DEF TableOf
      <3> QED
        BY <2>7, <2>10, <3>1, <3>2, <3>3
    <2> QED
      BY <2>5, <2>8, <2>9, <2>10 DEF TableOf, f
  <1>8. CASE t0 # "none" /\ ~ Continues(e, d)
    <2> DEFINE last == [addr |-> d.PhysicalStart, size |-> d.NumberOfPages * Page, type |-> t0]
               new == len + 1
    <2>1. last \in Entries
      BY <1>1, <1>2 DEF Entries
    <2>2. f = Append(e, last)
      BY <1>8 DEF AddEntry
    <2>3. last.addr + last.size = End(d) /\ last.addr = d.PhysicalStart /\ last.type = t0
      BY <1>2
    <2> HIDE DEF last
    <2>4. /\ Len(f) = new /\ f[new] = last
          /\ \A i \in 1 .. len : f[i] = e[i]
          /\ \A i : i \in 1 .. new <=> i \in 1 .. len \/ i = new
      BY <1>3, <2>1, <2>2
    <2> HIDE DEF f
    <2>5. ASSUME NEW a \in Nat
          PROVE  /\ Within(f, new, a) <=> Covers(d, a)
                 /\ \A i \in 1 .. len : Within(f, i, a) <=> Within(e, i, a)
      BY <2>3, <2>4 DEF Within, Covers
    <2>6. ASSUME NEW a \in Nat, NEW t \in Kinds
          PROVE  (\E i \in 1 .. new : Within(f, i, a) /\ f[i].type = t) <=> HasKind(k, a, t)
      <3>1. (\E i \in 1 .. new : Within(f, i, a) /\ f[i].type = t)
              <=> \/ \E i \in 1 .. len : Within(e, i, a) /\ e[i].type = t
                  \/ Covers(d, a) /\ t0 = t
        BY <2>3, <2>4, <2>5
      <3>2. (\E i \in 1 .. len : Within(e, i, a) /\ e[i].type = t) <=> HasKind(k - 1, a, t)
        BY DEF TableOf
      <3> QED
        BY <1>5, <1>8, <3>1, <3>2
    <2>7. ASSUME NEW i \in 1 .. new, NEW l \in 1 .. new, NEW a \in Nat,
                 Within(f, i, a), Within(f, l, a)
          PROVE  i = l
      <3>1. \A j \in 1 .. new : Within(f, j, a) => \/ j \in 1 .. len /\ Within(e, j, a)
                                                   \/ j = new /\ Covers(d, a)
        BY <2>4, <2>5
      <3>2. i \in 1 .. len /\ l \in 1 .. len /\ Within(e, i, a) /\ Within(e, l, a) => i = l
        BY DEF TableOf
      <3> QED
        BY <1>4, <2>7, <3>1, <3>2
    <2>8. ASSUME NEW i \in 2 .. new, f[i - 1].type = f[i].type
          PROVE  f[i - 1].addr + f[i - 1].size # f[i].addr
      <3>1. CASE i \in 2 .. len
        <4>1. i \in 1 .. len /\ i - 1 \in 1 .. len
          BY <1>3, <3>1
        <4>2. e[i - 1].type = e[i].type => e[i - 1].addr + e[i - 1].size # e[i].addr
          BY <3>1 DEF TableOf
        <4> QED
          BY <2>4, <2>8, <4>1, <4>2
      <3>2. CASE i = new
        <4>1. i - 1 = len /\ len \in 1 .. len /\ e # << >>
          BY <1>3, <3>2
        <4>2. ~ (e[len].type = t0 /\ e[len].addr + e[len].size = d.PhysicalStart)
          BY <1>8, <4>1 DEF Continues, Last
        <4> QED
          BY <2>3, <2>4, <2>8, <3>2, <4>1, <4>2
      <3> QED
        BY <1>3, <3>1, <3>2
    <2> QED
      BY <2>4, <2>6, <2>7, <2>8 DEF TableOf, f
  <1> QED
    BY <1>6, <1>7, <1>8

LEMMA E820TableOf ==
  ASSUME MapInv
  PROVE  setup_e820_map \in Seq(Entries) /\ TableOf(setup_e820_map, Len(map))
  <1> DEFINE n == Len(map)
  <1>1. PICK f \in [0 .. n -> Seq(Entries)] : E820Loop(f) /\ setup_e820_map = f[n]
    BY E820LoopRuns
  <1>2. n \in Nat
    BY DEF MapInv
  <1> DEFINE T == {k \in Nat : k <= n => TableOf(f[k], k)}
  <1>3. 0 \in T
    <2>1. f[0] = << >>
      BY <1>1, <1>2 DEF E820Loop
    <2>2. TableOf(<< >>, 0)
      BY DEF TableOf, HasKind
    <2> QED
      BY <2>1, <2>2
  <1>4. ASSUME NEW k \in T PROVE k + 1 \in T
    <2>1. k \in Nat /\ k + 1 \in Nat /\ (k + 1) - 1 = k
      OBVIOUS
    <2>2. ASSUME k + 1 <= n PROVE TableOf(f[k + 1], k + 1)
      <3>1. k + 1 \in 1 .. n /\ k + 1 \in 0 .. n /\ k \in 0 .. n
        BY <1>2, <2>1, <2>2
      <3>2. f[k] \in Seq(Entries) /\ TableOf(f[k], (k + 1) - 1)
        BY <1>2, <2>1, <2>2, <3>1
      <3>3. f[k + 1] = AddEntry(f[k], map[k + 1])
        BY <1>1, <2>1, <3>1 DEF E820Loop
      <3> QED
        BY <3>1, <3>2, <3>3, AddEntryKeeps
    <2> QED
      BY <2>1, <2>2
  <1> HIDE DEF T
  <1>5. T = Nat
    <2>1. T \subseteq Nat
      BY DEF T
    <2> QED
      BY <1>3, <1>4, <2>1, SetInduction
  <1>6. TableOf(f[n], n)
    BY <1>2, <1>5 DEF T
  <1> QED
    BY <1>1, <1>2, <1>6

LEMMA MapInvSameMemory == MapInv => E820SameMemory
  <1> SUFFICES ASSUME MapInv PROVE E820SameMemory
    OBVIOUS
  <1> DEFINE e820 == setup_e820_map
             In(k, a) == e820[k].addr <= a /\ a < e820[k].addr + e820[k].size
             n == Len(map)
  <1>1. e820 \in Seq(Entries) /\ TableOf(e820, n)
    BY E820TableOf
  <1>2. DOMAIN map = 1 .. n /\ n \in Nat
    BY DEF MapInv
  <1>3. DOMAIN e820 = 1 .. Len(e820) /\ Len(e820) \in Nat
    BY <1>1
  <1>4. \A k, a : In(k, a) <=> Within(e820, k, a)
    BY DEF Within
  <1>5. \A k \in DOMAIN e820 : e820[k].type \in Kinds
    <2> HIDE DEF e820
    <2>1. \A k \in DOMAIN e820 : e820[k] \in Entries
      BY <1>1
    <2> QED
      BY <2>1 DEF Entries
  <1>6. Addresses \subseteq Nat
    BY DEF Addresses
  <1> HIDE DEF e820, n
  <1>7. ASSUME NEW a \in Addresses
        PROVE  {e820[k].type : k \in {k \in DOMAIN e820 : In(k, a)}} =
               {E820Type(d.Type) : d \in {d \in ToSet(map) : Covers(d, a)}} \ {"none"}
    <2>1. ASSUME NEW t \in Kinds
          PROVE  (\E k \in DOMAIN e820 : In(k, a) /\ e820[k].type = t) <=> HasKind(n, a, t)
      BY <1>1, <1>3, <1>4, <1>6, <1>7 DEF TableOf
    <2>2. ASSUME NEW t
          PROVE  t \in {e820[k].type : k \in {k \in DOMAIN e820 : In(k, a)}}
                   <=> t \in Kinds /\ HasKind(n, a, t)
      <3>1. t \in {e820[k].type : k \in {k \in DOMAIN e820 : In(k, a)}}
              <=> \E k \in DOMAIN e820 : In(k, a) /\ e820[k].type = t
        <4> HIDE DEF In
        <4> QED
          OBVIOUS
      <3> QED
        BY <1>5, <2>1, <3>1
    <2>3. ASSUME NEW t
          PROVE  t \in {E820Type(d.Type) : d \in {d \in ToSet(map) : Covers(d, a)}}
                   <=> \E j \in 1 .. n : Covers(map[j], a) /\ E820Type(map[j].Type) = t
      BY <1>2 DEF ToSet
    <2>4. \A j \in 1 .. n : E820Type(map[j].Type) \in Kinds
      <3>1. \A j \in 1 .. n : map[j] \in Regions
        BY <1>2 DEF MapInv
      <3>2. \A j \in 1 .. n : map[j].Type \in RegionTypes
        BY <3>1 DEF Regions
      <3>3. \A type \in RegionTypes : E820Type(type) \in Kinds
        BY DEF Kinds
      <3> QED
        BY <3>2, <3>3
    <2>5. ASSUME NEW t
          PROVE  t \in Kinds /\ HasKind(n, a, t)
                   <=> /\ t # "none"
                       /\ \E j \in 1 .. n : Covers(map[j], a) /\ E820Type(map[j].Type) = t
      BY <2>4 DEF HasKind
    <2> QED
      BY <2>2, <2>3, <2>5
  <1>8. \A k, l \in DOMAIN e820 : \A a \in Addresses : In(k, a) /\ In(l, a) => k = l
    BY <1>1, <1>3, <1>4, <1>6 DEF TableOf
  <1>9. ASSUME NEW k \in DOMAIN e820 \ {1}
        PROVE  e820[k - 1].type = e820[k].type => e820[k - 1].addr + e820[k - 1].size # e820[k].addr
    <2>1. k \in 2 .. Len(e820)
      BY <1>3
    <2> QED
      BY <1>1, <2>1 DEF TableOf
  <1> QED
    BY <1>7, <1>8, <1>9 DEF E820SameMemory, e820

\* Of any map of regions that do not overlap, in any order and of any types,
\* setup_e820_map makes a table that says the same of each address.
THEOREM E820SameMemorySafe == MapSpec => []E820SameMemory
  <1>1. MapInit => MapInv
    BY MapStarts
  <1>2. MapInv /\ [MapNext]_map => MapInv'
    BY MapStep
  <1>3. MapInv => E820SameMemory
    BY MapInvSameMemory
  <1> QED
    BY <1>1, <1>2, <1>3, PTL DEF MapSpec

-----------------------------------------------------------------------------
(***************************************************************************)
(* emalloc                                                                 *)
(***************************************************************************)
WideUintn == UintnMod = PhysMod

Tries == [size : Int, addr : Int]

EmallocLoop(f, size, align) ==
    f = [k \in 0 .. Len(map) |-> IF k = 0 THEN [size |-> size, addr |-> None]
                                 ELSE TryRegion(f[k - 1], map[k], align, PagesOf(size))]

LEMMA PagesEnough ==
  ASSUME NEW size \in Nat \ {0}
  PROVE  /\ PagesOf(size) \in Nat \ {0}
         /\ PagesOf(size) * Page \in Nat /\ PagesOf(size) * Page >= size
  <1> DEFINE q == (size + Page - 1) \div Page
             r == (size + Page - 1) % Page
  <1>1. Page \in Int /\ Page > 0 /\ size + Page - 1 \in Int /\ size + Page - 1 >= Page
    BY MemoryMapAssumption
  <1>2. size + Page - 1 = Page * q + r
    BY <1>1, Z3
  <1>3. r \in 0 .. Page - 1
    BY <1>1, Z3
  <1>4. q \in Int /\ q >= 0
    BY <1>1, Z3
  <1> HIDE DEF q, r
  <1>5. q # 0
    BY <1>1, <1>2, <1>3, <1>4
  <1>6. q * Page \in Int /\ q * Page >= size
    BY <1>1, <1>2, <1>3, <1>4
  <1>7. PagesOf(size) = q
    BY DEF PagesOf, q
  <1> QED
    BY <1>4, <1>5, <1>6, <1>7

\* RoundUp is the least multiple that is not below.
LEMMA RoundUpLeast ==
  ASSUME NEW a \in Nat, NEW g \in Nat \ {0}
  PROVE  /\ RoundUp(a, g) \in Nat /\ RoundUp(a, g) >= a /\ RoundUp(a, g) % g = 0
         /\ \A x \in Nat : x >= a /\ x % g = 0 => x >= RoundUp(a, g)
  <1> DEFINE q == (a + g - 1) \div g
             r == (a + g - 1) % g
  <1>1. g \in Int /\ g > 0 /\ a + g - 1 \in Int /\ a + g - 1 >= 0
    OBVIOUS
  <1>2. a + g - 1 = g * q + r
    BY <1>1, Z3
  <1>3. r \in 0 .. g - 1
    BY <1>1, Z3
  <1>4. q \in Int /\ q >= 0
    BY <1>1, Z3
  <1> HIDE DEF q, r
  <1>5. RoundUp(a, g) = q * g
    BY DEF RoundUp, q
  <1>6. q * g \in Nat /\ q * g >= a /\ q * g < a + g
    BY <1>1, <1>2, <1>3, <1>4
  <1>7. (q * g) % g = 0
    BY <1>1, <1>4, Z3
  <1>8. ASSUME NEW x \in Nat, x >= a, x % g = 0 PROVE x >= q * g
    <2>1. PICK p \in Int : x = g * p
      <3> DEFINE p == x \div g
      <3>1. x = g * p + (x % g)
        BY <1>1, Z3
      <3>2. p \in Int
        BY <1>1, Z3
      <3> HIDE DEF p
      <3>3. x = g * p
        BY <1>8, <3>1, <3>2
      <3> QED
        BY <3>2, <3>3
    <2>2. ASSUME p < q PROVE FALSE
      <3>1. PICK e \in Nat : q = p + 1 + e
        <4>1. q - p - 1 \in Nat /\ q = p + 1 + (q - p - 1)
          BY <1>4, <2>2
        <4> QED
          BY <4>1
      <3>2. q * g = g * p + g + e * g /\ e * g \in Nat
        BY <3>1
      <3> QED
        BY <1>6, <1>8, <2>1, <3>2
    <2>3. PICK e \in Nat : p = q + e
      <3>1. p - q \in Nat /\ p = q + (p - q)
        BY <1>4, <2>2
      <3> QED
        BY <3>1
    <2>4. g * p = q * g + e * g /\ e * g \in Nat
      BY <1>4, <2>3
    <2> QED
      BY <1>6, <2>1, <2>4
  <1> QED
    BY <1>5, <1>6, <1>7, <1>8

LEMMA Wraps ==
  ASSUME NEW m \in Nat \ {0}, NEW a \in 0 .. m - 1
  PROVE  a % m = a /\ (a + m) % m = a /\ (a - m) % m = a
  <1>1. m \in Int /\ m > 0 /\ a \in Int /\ a >= 0 /\ a < m
    OBVIOUS
  <1>2. a % m = a
    BY <1>1
  <1>3. (a + m) % m = a
    BY <1>1, Z3
  <1>4. (a - m) % m = a
    BY <1>1, Z3
  <1> QED
    BY <1>2, <1>3, <1>4

\* A size that was reduced below zero and wrapped is right again once it is
\* added to an address.
LEMMA WrapsBack ==
  ASSUME NEW m \in Nat \ {0}, NEW a \in Nat, NEW b \in Int, -m < b, b < m, 0 <= a + b, a + b < m
  PROVE  (a + (b % m)) % m = a + b
  <1>1. CASE b >= 0
    BY <1>1, Wraps
  <1>2. CASE b < 0
    <2>1. b + m \in 0 .. m - 1 /\ (b + m) - m = b
      BY <1>2
    <2>2. b % m = b + m
      BY <2>1, Wraps
    <2>3. a + (b + m) = (a + b) + m /\ a + b \in 0 .. m - 1
      OBVIOUS
    <2> QED
      BY <2>2, <2>3, Wraps
  <1> QED
    BY <1>1, <1>2

LEMMA TryRegionType ==
  ASSUME NEW st \in Tries, NEW d \in Regions, NEW align \in Nat \ {0}, NEW n
  PROVE  TryRegion(st, d, align, n) \in Tries
  <1> DEFINE across == d.PhysicalStart < Megabyte
             start == IF across THEN Megabyte ELSE d.PhysicalStart
             size == IF across THEN (st.size - (Megabyte - d.PhysicalStart)) % UintnMod ELSE st.size
             aligned == RoundUp(start, align)
             addr == IF FitsBefore(aligned, size, End(d)) /\ allocate_pages(aligned, n)
                     THEN aligned ELSE None
  <1>1. st.size \in Int /\ st.addr \in Int /\ d.PhysicalStart \in Nat
    BY DEF Tries, Regions
  <1>2. Megabyte \in Nat /\ UintnMod \in Nat \ {0}
    BY MemoryMapAssumption
  <1>3. start \in Nat
    BY <1>1, <1>2
  <1>4. size \in Int
    BY <1>1, <1>2
  <1>5. addr \in Int
    BY <1>3, RoundUpLeast DEF None
  <1> HIDE DEF size, addr
  <1>6. [size |-> size, addr |-> addr] \in Tries
    BY <1>4, <1>5 DEF Tries
  <1>7. \/ TryRegion(st, d, align, n) = st
        \/ TryRegion(st, d, align, n) = [size |-> size, addr |-> addr]
    BY DEF TryRegion, size, addr
  <1> QED
    BY <1>6, <1>7

LEMMA EmallocLoopRuns ==
  ASSUME MapInv, NEW size \in Nat, NEW align \in Nat \ {0}
  PROVE  \E f \in [0 .. Len(map) -> Tries] :
            EmallocLoop(f, size, align) /\ emalloc(size, align) = f[Len(map)].addr
  <1> DEFINE n == Len(map)
             pages == PagesOf(size)
             base == [size |-> size, addr |-> None]
             step == [k \in 1 .. n |-> [st \in Tries |-> TryRegion(st, map[k], align, pages)]]
  <1>1. n \in Nat /\ \A k \in 1 .. n : map[k] \in Regions
    BY DEF MapInv
  <1>2. base \in Tries
    BY DEF Tries, None
  <1>3. step \in [1 .. n -> [Tries -> Tries]]
    <2> HIDE DEF pages
    <2> QED
      BY <1>1, TryRegionType
  <1> HIDE DEF step, base
  <1>4. PICK f \in [0 .. n -> Tries] : IsLoop(f, base, step, n)
    BY <1>1, <1>2, <1>3, LoopExists
  <1>5. ASSUME NEW k \in 0 .. n
        PROVE  f[k] = IF k = 0 THEN base ELSE TryRegion(f[k - 1], map[k], align, pages)
    <2> HIDE DEF pages
    <2>1. CASE k = 0
      BY <1>1, <1>4, <2>1 DEF IsLoop
    <2>2. CASE k # 0
      <3>1. k \in 1 .. n /\ f[k - 1] \in Tries
        BY <1>1, <2>2
      <3>2. f[k] = step[k][f[k - 1]]
        BY <1>4, <2>2 DEF IsLoop
      <3> QED
        BY <2>2, <3>1, <3>2 DEF step
    <2> QED
      BY <2>1, <2>2
  <1>6. EmallocLoop(f, size, align)
    BY <1>5 DEF EmallocLoop, base
  <1> DEFINE F == CHOOSE g : EmallocLoop(g, size, align)
  <1>7. emalloc(size, align) = F[n].addr
    BY DEF emalloc, EmallocLoop
  <1>8. EmallocLoop(F, size, align)
    BY <1>6, Zenon
  <1> HIDE DEF F
  <1>9. DOMAIN F = 0 .. n /\ F[0] = base /\ F = [k \in 0 .. n |-> F[k]]
    BY <1>1, <1>8 DEF EmallocLoop, base
  <1>10. ASSUME NEW k \in 1 .. n PROVE F[k] = TryRegion(F[k - 1], map[k], align, pages)
    BY <1>8 DEF EmallocLoop
  <1> HIDE DEF pages
  <1> DEFINE T == {k \in Nat : k <= n => F[k] \in Tries}
  <1>11. 0 \in T
    BY <1>2, <1>9
  <1>12. ASSUME NEW k \in T PROVE k + 1 \in T
    <2>1. k \in Nat /\ (k + 1) - 1 = k
      OBVIOUS
    <2>2. ASSUME k + 1 <= n PROVE F[k + 1] \in Tries
      <3>1. k + 1 \in 1 .. n /\ F[k] \in Tries
        BY <1>1, <2>1, <2>2
      <3>2. F[k + 1] = TryRegion(F[k], map[k + 1], align, pages)
        BY <1>10, <2>1, <3>1
      <3> QED
        BY <1>1, <3>1, <3>2, TryRegionType
    <2> QED
      BY <2>1, <2>2
  <1> HIDE DEF T
  <1>13. T = Nat
    <2>1. T \subseteq Nat
      BY DEF T
    <2> QED
      BY <1>11, <1>12, <2>1, SetInduction
  <1>14. \A k \in 0 .. n : F[k] \in Tries
    BY <1>13 DEF T
  <1>15. F \in [0 .. n -> Tries]
    BY <1>9, <1>14
  <1> QED
    BY <1>7, <1>8, <1>15

\* The pages found are aligned, above the first megabyte and free.
Found(a, align, n) == a % align = 0 /\ a >= Megabyte /\ allocate_pages(a, n)

\* Region d holds n pages, aligned and above the first megabyte, at x.
HoldsAt(d, align, n, x) ==
    /\ d.Type = "Conventional"
    /\ x >= Megabyte /\ x % align = 0 /\ x % Page = 0
    /\ d.PhysicalStart <= x /\ x + n * Page <= End(d)

\* The regions that begin in the first megabyte and end above it: as no two
\* regions overlap there is one of them at most.
Across(d) == d.PhysicalStart < Megabyte /\ End(d) > Megabyte

\* The size the walk compares with: that of the request, unless a region
\* across the first megabyte has reduced it.
SizeAfter(k, size, s) ==
    \/ s = size
    \/ \E j \in 1 .. k : /\ Across(map[j])
                         /\ s = (size - (Megabyte - map[j].PhysicalStart)) % UintnMod

WalkInv(st, k, size, align) ==
    LET n == PagesOf(size)
    IN /\ st.addr # None => Found(st.addr, align, n)
       /\ st.addr = None =>
             /\ SizeAfter(k, size, st.size)
             /\ \A j \in 1 .. k : \A x \in Addresses : ~ HoldsAt(map[j], align, n, x)

\* A region that holds such pages is one the loop tries, and the address it
\* tries there is free: the size reduced before, even below zero, is right
\* for any address above the first megabyte.
LEMMA TryFinds ==
  ASSUME MapInv, WideUintn, NEW size \in Sizes, NEW align \in Nat \ {0},
         NEW k \in 1 .. Len(map), NEW s, SizeAfter(k, size, s),
         NEW x \in Addresses, HoldsAt(map[k], align, PagesOf(size), x)
  PROVE  LET d == map[k]
             start == IF d.PhysicalStart < Megabyte THEN Megabyte ELSE d.PhysicalStart
             aligned == RoundUp(start, align)
         IN /\ FitsBefore(aligned, s, End(d))
            /\ allocate_pages(aligned, PagesOf(size))
            /\ aligned >= Megabyte /\ aligned # None /\ aligned % align = 0
  <1> DEFINE d == map[k]
             n == PagesOf(size)
             room == n * Page
             start == IF d.PhysicalStart < Megabyte THEN Megabyte ELSE d.PhysicalStart
             aligned == RoundUp(start, align)
  <1>1. /\ size \in Nat \ {0} /\ size < PhysMod
        /\ UintnMod = PhysMod /\ PhysMod \in Nat \ {0} /\ Megabyte \in Nat /\ Page \in Nat \ {0}
    BY MemoryMapAssumption DEF WideUintn
  <1>2. n \in Nat \ {0} /\ room \in Nat /\ room >= size
    BY <1>1, PagesEnough
  <1>3. /\ d \in Regions /\ DOMAIN map = 1 .. Len(map)
        /\ \A j \in 1 .. Len(map) : map[j] \in Regions
    BY DEF MapInv
  <1>4. d.PhysicalStart \in Nat /\ End(d) \in Nat
    BY <1>3, RegionEnd DEF Regions
  <1>5. End(d) < PhysMod
    BY <1>1, <1>3, MemoryMapAssumption, WithinAddresses DEF Addresses
  <1>6. /\ x \in Nat /\ x >= Megabyte /\ x % align = 0
        /\ d.PhysicalStart <= x /\ x + room <= End(d) /\ d.Type = "Conventional"
    BY DEF HoldsAt, Addresses
  <1> HIDE DEF n, room
  <1>7. start \in Nat /\ start >= Megabyte /\ start >= d.PhysicalStart /\ start <= x
    BY <1>1, <1>4, <1>6
  <1> HIDE DEF start
  <1>8. /\ aligned \in Nat /\ aligned >= start /\ aligned <= x /\ aligned % align = 0
    BY <1>6, <1>7, RoundUpLeast
  <1> HIDE DEF aligned
  <1>9. aligned + room <= End(d)
    BY <1>2, <1>4, <1>6, <1>8
  <1>10. FitsBefore(aligned, s, End(d))
    <2>1. CASE s = size
      <3>1. aligned + size \in 0 .. PhysMod - 1
        BY <1>1, <1>2, <1>4, <1>5, <1>8, <1>9
      <3>2. (aligned + size) % PhysMod = aligned + size
        BY <1>1, <3>1, Wraps
      <3> QED
        BY <1>1, <1>2, <1>4, <1>8, <1>9, <2>1, <3>2 DEF FitsBefore
    <2>2. CASE \E j \in 1 .. k : /\ Across(map[j])
                                /\ s = (size - (Megabyte - map[j].PhysicalStart)) % UintnMod
      <3>1. PICK j \in 1 .. k : /\ Across(map[j])
                               /\ s = (size - (Megabyte - map[j].PhysicalStart)) % UintnMod
        BY <2>2
      <3> DEFINE p == map[j].PhysicalStart
                 b == size - (Megabyte - p)
      <3>2. j \in 1 .. Len(map) /\ p \in Nat /\ p < Megabyte
        BY <1>3, <3>1 DEF Across, Regions
      <3> HIDE DEF p
      <3>3. b \in Int /\ -PhysMod < b /\ b < PhysMod /\ b <= size
        BY <1>1, <1>2, <1>4, <1>5, <1>6, <3>2
      <3>4. 0 <= aligned + b /\ aligned + b <= aligned + size
        BY <1>1, <1>7, <1>8, <3>2, <3>3
      <3>5. aligned + b < PhysMod /\ aligned + b <= End(d)
        BY <1>1, <1>2, <1>4, <1>5, <1>8, <1>9, <3>3, <3>4
      <3>6. s = b % PhysMod
        BY <1>1, <3>1 DEF p
      <3> HIDE DEF b
      <3>7. (aligned + s) % PhysMod = aligned + b
        BY <1>1, <1>8, <3>3, <3>4, <3>5, <3>6, WrapsBack
      <3> QED
        BY <3>5, <3>7 DEF FitsBefore
    <2> QED
      BY <2>1, <2>2 DEF SizeAfter
  <1>11. allocate_pages(aligned, n)
    <2> SUFFICES ASSUME NEW y \in aligned .. aligned + room - 1 PROVE Free(y)
      BY DEF allocate_pages, room
    <2>1. d.PhysicalStart <= y /\ y < End(d)
      BY <1>2, <1>4, <1>7, <1>8, <1>9
    <2> QED
      BY <1>3, <1>6, <2>1 DEF Free, Covers
  <1>12. aligned >= Megabyte /\ aligned # None
    BY <1>1, <1>7, <1>8 DEF None
  <1> QED
    BY <1>8, <1>10, <1>11, <1>12 DEF aligned, start, n

LEMMA TryRegionKeeps ==
  ASSUME MapInv, WideUintn, NEW size \in Sizes, NEW align \in Nat \ {0},
         NEW k \in 1 .. Len(map), NEW st \in Tries, WalkInv(st, k - 1, size, align)
  PROVE  WalkInv(TryRegion(st, map[k], align, PagesOf(size)), k, size, align)
  <1> DEFINE d == map[k]
             n == PagesOf(size)
             across == d.PhysicalStart < Megabyte
             start == IF across THEN Megabyte ELSE d.PhysicalStart
             left == IF across THEN (st.size - (Megabyte - d.PhysicalStart)) % UintnMod ELSE st.size
             aligned == RoundUp(start, align)
             fits == FitsBefore(aligned, left, End(d)) /\ allocate_pages(aligned, n)
             skipped == \/ st.addr # None
                        \/ d.Type # "Conventional"
                        \/ d.NumberOfPages < n
                        \/ End(d) <= Megabyte
             new == TryRegion(st, d, align, n)
  <1>1. /\ size \in Nat \ {0} /\ n \in Nat \ {0} /\ Megabyte \in Nat /\ Page \in Nat \ {0}
    <2>1. size \in Nat \ {0}
      BY MemoryMapAssumption
    <2> QED
      BY <2>1, MemoryMapAssumption, PagesEnough
  <1>2. /\ d \in Regions /\ DOMAIN map = 1 .. Len(map) /\ Len(map) \in Nat
        /\ d.PhysicalStart \in Nat /\ End(d) \in Nat /\ d.NumberOfPages \in Nat
    <2>1. d \in Regions /\ DOMAIN map = 1 .. Len(map) /\ Len(map) \in Nat
      BY DEF MapInv
    <2> QED
      BY <2>1, RegionEnd DEF Regions
  <1>3. /\ skipped => new = st
        /\ ~ skipped => new = [size |-> left, addr |-> IF fits THEN aligned ELSE None]
    BY DEF TryRegion
  <1>4. start \in Nat /\ start >= Megabyte
    BY <1>1, <1>2
  <1>5. aligned \in Nat /\ aligned >= Megabyte /\ aligned % align = 0 /\ aligned # None
    <2> HIDE DEF start
    <2>1. aligned \in Nat /\ aligned >= start /\ aligned % align = 0
      BY <1>4, RoundUpLeast
    <2> HIDE DEF aligned
    <2> QED
      BY <1>1, <1>4, <2>1 DEF None
  <1>6. \A j : j \in 1 .. k <=> j \in 1 .. k - 1 \/ j = k
    BY <1>2
  <1>7. CASE st.addr # None
    <2>1. new = st
      BY <1>3, <1>7
    <2> HIDE DEF new
    <2> QED
      BY <1>7, <2>1 DEF WalkInv, new
  <1>8. CASE st.addr = None /\ skipped
    <2>1. new = st
      BY <1>3, <1>8
    <2>2. SizeAfter(k - 1, size, st.size) => SizeAfter(k, size, st.size)
      BY <1>6 DEF SizeAfter
    <2>3. ASSUME NEW x \in Addresses, HoldsAt(d, align, n, x) PROVE FALSE
      <3>1. /\ d.Type = "Conventional" /\ x \in Nat /\ x >= Megabyte
            /\ d.PhysicalStart <= x /\ x + n * Page <= End(d)
        BY <2>3 DEF HoldsAt, Addresses
      <3>2. n * Page \in Nat /\ n * Page >= 1
        BY <1>1, PagesEnough
      <3>3. End(d) > Megabyte
        BY <1>1, <1>2, <3>1, <3>2
      <3>4. d.NumberOfPages < n
        BY <1>8, <3>1, <3>3, <1>1, <1>2
      <3> DEFINE m == d.NumberOfPages
      <3>5. m \in Nat /\ m < n /\ End(d) = d.PhysicalStart + m * Page
        BY <1>2, <3>4 DEF End
      <3> HIDE DEF n, m
      <3>6. PICK e \in Nat : n = m + 1 + e
        <4>1. n - m - 1 \in Nat /\ n = m + 1 + (n - m - 1)
          BY <1>1, <3>5
        <4> QED
          BY <4>1
      <3>7. n * Page = m * Page + Page + e * Page /\ e * Page \in Nat /\ m * Page \in Nat
        BY <1>1, <3>5, <3>6
      <3> DEFINE s == d.PhysicalStart
      <3>8. s \in Nat /\ s <= x /\ x + n * Page <= s + m * Page
        BY <1>2, <3>1, <3>5
      <3> HIDE DEF s, d
      <3> QED
        BY <1>1, <3>1, <3>7, <3>8
    <2> HIDE DEF new, n
    <2>4. \A j \in 1 .. k : \A x \in Addresses : ~ HoldsAt(map[j], align, n, x)
      BY <1>6, <1>8, <2>3 DEF WalkInv, n
    <2> QED
      BY <1>8, <2>1, <2>2, <2>4 DEF WalkInv, n, new
  <1>9. CASE ~ skipped
    <2>1. st.addr = None /\ End(d) > Megabyte
      BY <1>1, <1>2, <1>9
    <2>2. new = [size |-> left, addr |-> IF fits THEN aligned ELSE None]
      BY <1>3, <1>9
    <2>3. SizeAfter(k - 1, size, st.size)
      BY <2>1 DEF WalkInv
    <2>4. SizeAfter(k, size, left)
      <3>1. CASE ~ across
        BY <1>6, <2>3, <3>1 DEF SizeAfter
      <3>2. CASE across
        <4>1. Across(d)
          BY <2>1, <3>2 DEF Across
        <4>2. ASSUME NEW j \in 1 .. k - 1, Across(map[j]) PROVE FALSE
          <5>1. j \in 1 .. Len(map) /\ j # k
            BY <1>2
          <5>2. map[j] \in Regions /\ Apart(map[j], d)
            BY <1>2, <5>1 DEF MapInv
          <5>3. map[j].PhysicalStart \in Nat /\ End(map[j]) \in Nat
            BY <5>2, RegionEnd DEF Regions
          <5> QED
            BY <1>1, <1>2, <4>1, <4>2, <5>2, <5>3 DEF Apart, Across
        <4>3. st.size = size
          BY <2>3, <4>2 DEF SizeAfter
        <4> QED
          BY <1>2, <3>2, <4>1, <4>3 DEF SizeAfter
      <3> QED
        BY <3>1, <3>2
    <2>5. CASE fits
      <3>1. new.addr = aligned
        BY <2>2, <2>5
      <3>2. Found(aligned, align, n)
        BY <1>5, <2>5 DEF Found
      <3> HIDE DEF new, aligned, n
      <3> QED
        BY <1>5, <3>1, <3>2 DEF WalkInv, new, n
    <2>6. CASE ~ fits
      <3>1. new.addr = None /\ new.size = left
        BY <2>2, <2>6
      <3>2. ASSUME NEW x \in Addresses, HoldsAt(d, align, n, x) PROVE FALSE
        BY <2>4, <2>6, <3>2, TryFinds
      <3>3. \A j \in 1 .. k - 1 : \A x \in Addresses : ~ HoldsAt(map[j], align, n, x)
        BY <2>1 DEF WalkInv
      <3> HIDE DEF new, n, left
      <3>4. \A j \in 1 .. k : \A x \in Addresses : ~ HoldsAt(map[j], align, n, x)
        BY <1>6, <3>2, <3>3
      <3> QED
        BY <2>4, <3>1, <3>4 DEF WalkInv, new, n
    <2> QED
      BY <2>5, <2>6
  <1> QED
    BY <1>7, <1>8, <1>9

LEMMA EmallocWalk ==
  ASSUME MapInv, WideUintn, NEW size \in Sizes, NEW align \in Nat \ {0}
  PROVE  \E st \in Tries : st.addr = emalloc(size, align) /\ WalkInv(st, Len(map), size, align)
  <1> DEFINE n == Len(map)
  <1>1. n \in Nat /\ size \in Nat
    BY MemoryMapAssumption DEF MapInv
  <1>2. PICK f \in [0 .. n -> Tries] :
           EmallocLoop(f, size, align) /\ emalloc(size, align) = f[n].addr
    BY <1>1, EmallocLoopRuns
  <1> DEFINE T == {k \in Nat : k <= n => WalkInv(f[k], k, size, align)}
  <1>3. 0 \in T
    <2>1. f[0] = [size |-> size, addr |-> None]
      BY <1>1, <1>2 DEF EmallocLoop
    <2>2. WalkInv(f[0], 0, size, align)
      BY <2>1 DEF WalkInv, SizeAfter
    <2> QED
      BY <2>2
  <1>4. ASSUME NEW k \in T PROVE k + 1 \in T
    <2>1. k \in Nat /\ k + 1 \in Nat /\ (k + 1) - 1 = k
      OBVIOUS
    <2>2. ASSUME k + 1 <= n PROVE WalkInv(f[k + 1], k + 1, size, align)
      <3>1. k + 1 \in 1 .. n /\ k + 1 \in 0 .. n /\ k \in 0 .. n
        BY <1>1, <2>1, <2>2
      <3>2. f[k] \in Tries /\ WalkInv(f[k], (k + 1) - 1, size, align)
        BY <1>1, <2>1, <2>2, <3>1
      <3>3. f[k + 1] = TryRegion(f[k], map[k + 1], align, PagesOf(size))
        BY <1>2, <2>1, <3>1 DEF EmallocLoop
      <3> QED
        BY <3>1, <3>2, <3>3, TryRegionKeeps
    <2> QED
      BY <2>1, <2>2
  <1> HIDE DEF T
  <1>5. T = Nat
    <2>1. T \subseteq Nat
      BY DEF T
    <2> QED
      BY <1>3, <1>4, <2>1, SetInduction
  <1>6. WalkInv(f[n], n, size, align) /\ f[n] \in Tries
    BY <1>1, <1>5 DEF T
  <1> QED
    BY <1>2, <1>6

LEMMA MapInvEmalloc == MapInv /\ WideUintn => EmallocFits
  <1> SUFFICES ASSUME MapInv, WideUintn, NEW size \in Sizes, NEW align \in Aligns
               PROVE  LET a == emalloc(size, align)  n == PagesOf(size)
                      IN IF a # None
                         THEN a % align = 0 /\ a >= Megabyte /\ allocate_pages(a, n)
                         ELSE ~ \E k \in DOMAIN map : \E x \in Addresses :
                                    /\ map[k].Type = "Conventional"
                                    /\ x >= Megabyte /\ x % align = 0 /\ x % Page = 0
                                    /\ map[k].PhysicalStart <= x /\ x + n * Page <= End(map[k])
    BY DEF EmallocFits
  <1>1. align \in Nat \ {0} /\ DOMAIN map = 1 .. Len(map)
    BY MemoryMapAssumption DEF MapInv
  <1>2. PICK st \in Tries : st.addr = emalloc(size, align) /\ WalkInv(st, Len(map), size, align)
    BY <1>1, EmallocWalk
  <1> QED
    BY <1>1, <1>2 DEF WalkInv, Found, HoldsAt

\* emalloc finds aligned pages above the first megabyte in any such map if some
\* region has them, where UINTN is as wide as an address (x86_64).
THEOREM EmallocFitsSafe == ASSUME WideUintn PROVE MapSpec => []EmallocFits
  <1>1. MapInit => MapInv
    BY MapStarts
  <1>2. MapInv /\ [MapNext]_map => MapInv'
    BY MapStep
  <1>3. MapInv => EmallocFits
    BY MapInvEmalloc
  <1> QED
    BY <1>1, <1>2, <1>3, PTL DEF MapSpec
=============================================================================
