------------------------------- MODULE Splash -------------------------------
(***************************************************************************)
(* display_splash: uefi_display_splash of efilinux/uefi_boot.c converts    *)
(* the bitmap with ConvertBmpToGopBlt and shows it in the middle of the    *)
(* screen with gop_display_blt (common/uefi_utils.c).  A colour is where   *)
(* it comes from: a byte of the image and the pixel's place in that byte,  *)
(* and for the depths of a colour map the entry that byte picks, whose     *)
(* value the content decides.                                              *)
(***************************************************************************)
EXTENDS Integers

CONSTANTS
    MaxWidth, MaxHeight,    \* bounds on the bitmap
    Depths,                 \* values of BitPerPixel
    ProductMod,             \* the size of a line is computed modulo this (2^32)
    Screens                 \* <<HorizontalResolution, VerticalResolution>>

ASSUME SplashAssumption ==
    /\ MaxWidth \in Nat /\ MaxHeight \in Nat
    /\ Depths \subseteq 1 .. 32
    /\ ProductMod \in Nat \ {0}
    /\ Screens \subseteq (1 .. 100) \X (1 .. 100)

VARIABLES
    bmp,        \* PixelWidth, PixelHeight, BitPerPixel and the like: its header
    at,         \* "start", "convert", "show", "shown" or "failed"
    Height, Width,
    Image,      \* offset of the byte the conversion is at
    Blt,        \* index of the pixel it writes
    out,        \* pixel to [byte, sub], or Unset
    entry,      \* offset of the entry of BmpColorMap read last, 0 at first
    blt,        \* the buffer is allocated
    corner      \* of the picture on the screen

splashVars == <<bmp, at, Height, Width, Image, Blt, out, entry, blt, corner>>

HeaderSize == 54    \* sizeof (BMP_IMAGE_HEADER)
Unset == [byte |-> -1, sub |-> -1]
Pixels(b) == 0 .. b.w * b.h - 1

DataSizePerLine(b) == (((b.w * b.bpp + 31) % ProductMod) \div 32) * 4

ColorMapNum(bpp) == CASE bpp = 1 -> 2 [] bpp = 4 -> 16 [] bpp = 8 -> 256 [] OTHER -> 0

ColorMap(bpp) == 4 * ColorMapNum(bpp)

\* Bitmaps with a colour map or none, whole, compressed, or with an offset or
\* a size that is one off.
Bitmaps ==
    UNION {[w : {w}, h : {h}, bpp : {bpp}, compression : {0, 1},
            offset : {HeaderSize - 1, HeaderSize, HeaderSize + ColorMap(bpp)},
            size : {HeaderSize + c + DataSizePerLine([w |-> w, bpp |-> bpp]) * h + d :
                        c \in {0, ColorMap(bpp)}, d \in {-1, 0}}] :
              w \in 1 .. MaxWidth, h \in 1 .. MaxHeight, bpp \in Depths}

SplashStart(bitmaps) ==
    /\ bmp \in bitmaps
    /\ at = "start"
    /\ Height = 0 /\ Width = 0 /\ Image = 0 /\ Blt = 0
    /\ out = [p \in Pixels(bmp) |-> Unset]
    /\ entry = 0
    /\ blt = FALSE /\ corner = <<0, 0>>

SplashInit == SplashStart(Bitmaps)

-----------------------------------------------------------------------------
HeaderAccepted ==
    /\ bmp.compression = 0
    /\ bmp.h * DataSizePerLine(bmp) < ProductMod
    /\ bmp.size >= bmp.offset
    /\ bmp.size - bmp.offset = bmp.h * DataSizePerLine(bmp)
    /\ bmp.offset >= HeaderSize
    /\ bmp.offset > HeaderSize => bmp.offset - HeaderSize = ColorMap(bmp.bpp)

\* A bitmap that is not as it should be, or the buffer has no memory.
Reject ==
    /\ at = "start"
    /\ at' = "failed"
    /\ UNCHANGED <<bmp, Height, Width, Image, Blt, out, entry, blt, corner>>

\* The first row of the file is the last of the picture.
RowStart(height) == (bmp.h - height - 1) * bmp.w

Convert ==
    /\ at = "start" /\ HeaderAccepted
    /\ at' = "convert"
    /\ blt' = TRUE
    /\ Image' = bmp.offset
    /\ Blt' = RowStart(0)
    /\ UNCHANGED <<bmp, Height, Width, out, entry, corner>>

Column == at = "convert" /\ Height < bmp.h /\ Width < bmp.w

\* Advance by n pixels of the row and to the byte of the image after `last'.
Move(n, last) ==
    /\ Blt' = Blt + n
    /\ Width' = Width + n
    /\ Image' = last + 1

Put(n, source(_)) ==
    out' = [p \in DOMAIN out |-> IF p \in Blt .. Blt + n - 1 THEN source(p - Blt) ELSE out[p]]

Least(a, b) == IF a < b THEN a ELSE b

\* BmpColorMap[...]: after the header, whether the file has a colour map or not.
ReadColorMap ==
    \E k \in {0, ColorMapNum(bmp.bpp) - 1} : entry' = HeaderSize + 4 * k

\* Case 1: up to eight pixels of a byte, its highest bit first.
EightPixels ==
    /\ Column /\ bmp.bpp = 1
    /\ LET n == Least(8, bmp.w - Width)
       IN Put(n, LAMBDA k : [byte |-> Image, sub |-> k]) /\ Move(n, Image)
    /\ ReadColorMap
    /\ UNCHANGED <<bmp, at, Height, blt, corner>>

\* Mutant: the second half of a byte is always converted.
InByte_Two == 2

\* Case 4: the second half only if the row has a further pixel.
InByte == IF Width < bmp.w - 1 THEN 2 ELSE 1

TwoPixels ==
    /\ Column /\ bmp.bpp = 4
    /\ Put(InByte, LAMBDA k : [byte |-> Image, sub |-> k]) /\ Move(InByte, Image)
    /\ ReadColorMap
    /\ UNCHANGED <<bmp, at, Height, blt, corner>>

\* Cases 8 and 24: one pixel of one byte or of three.
OnePixel ==
    /\ Column /\ bmp.bpp \in {8, 24}
    /\ Put(1, LAMBDA k : [byte |-> Image, sub |-> 0])
    /\ Move(1, Image + bmp.bpp \div 8 - 1)
    /\ IF bmp.bpp = 8 THEN ReadColorMap ELSE UNCHANGED entry
    /\ UNCHANGED <<bmp, at, Height, blt, corner>>

\* Any other depth: the buffer is given back.
OtherDepth ==
    /\ Column /\ bmp.bpp \notin {1, 4, 8, 24}
    /\ at' = "failed" /\ blt' = FALSE
    /\ UNCHANGED <<bmp, Height, Width, Image, Blt, out, entry, corner>>

\* Mutant: the padding is computed from the start of the file.
Padding_FromFile == (4 - (Image % 4)) % 4

\* Each row of the image data starts on a boundary of four bytes.
Padding == (4 - ((Image - bmp.offset) % 4)) % 4

EndRow ==
    /\ at = "convert" /\ Height < bmp.h /\ Width >= bmp.w
    /\ Height' = Height + 1 /\ Width' = 0
    /\ Image' = Image + Padding
    /\ Blt' = RowStart(Height + 1)
    /\ UNCHANGED <<bmp, at, out, entry, blt, corner>>

Converted ==
    /\ at = "convert" /\ Height = bmp.h
    /\ at' = "show"
    /\ UNCHANGED <<bmp, Height, Width, Image, Blt, out, entry, blt, corner>>

\* gop_display_blt: the screen is cleared and the picture put in its middle.
Middle(resolution, extent) == resolution \div 2 - extent \div 2

gop_display_blt(screen) ==
    /\ at = "show"
    /\ bmp.w <= screen[1] /\ bmp.h <= screen[2]
    /\ corner' = <<Middle(screen[1], bmp.w), Middle(screen[2], bmp.h)>>
    /\ at' = "shown"
    /\ UNCHANGED <<bmp, Height, Width, Image, Blt, out, entry, blt>>

\* There is no screen, or the picture does not fit it.
NoScreen ==
    /\ at = "show"
    /\ at' = "failed"
    /\ UNCHANGED <<bmp, Height, Width, Image, Blt, out, entry, blt, corner>>

SplashNext ==
    \/ Reject \/ Convert
    \/ EightPixels \/ TwoPixels \/ OnePixel \/ OtherDepth \/ EndRow
    \/ Converted \/ NoScreen
    \/ \E screen \in Screens : gop_display_blt(screen)

-----------------------------------------------------------------------------
\* The product of the line does not wrap.
Fits == bmp.w * bmp.bpp + 31 < ProductMod

\* Whole words that hold the bits of a row.
RowBytes == ((bmp.w * bmp.bpp + 31) \div 32) * 4

\* The byte that holds pixel x of the picture's row y, and its place in it.
Source(x, y) ==
    LET bit == x * bmp.bpp
    IN [byte |-> bmp.offset + (bmp.h - 1 - y) * RowBytes + bit \div 8,
        sub |-> IF bmp.bpp < 8 THEN (bit % 8) \div bmp.bpp ELSE 0]

\* Of a bitmap whose line does not wrap, the conversion writes each pixel once
\* and from its own place of the file, whatever the depth and the rest of a
\* row in its last byte, and it ends at the end of the file; an entry of the
\* colour map is read from it if the header leaves room for one.  The header
\* check of the code lets two more kinds pass, for which none of this is so: a
\* width whose product wraps, converted from beyond the end of the file, and
\* a bitmap of 1, 4 or 8 bits without a colour map, whose colours are then
\* read from the image data or from what follows it.
PixelsRight ==
    Fits =>
      /\ at = "convert" => Image <= bmp.size /\ Width <= bmp.w
      /\ at \in {"convert", "show", "shown"} /\ bmp.offset > HeaderSize =>
            entry + 4 <= bmp.offset
      /\ at \in {"show", "shown"} =>
            /\ Image = bmp.size
            /\ \A x \in 0 .. bmp.w - 1, y \in 0 .. bmp.h - 1 :
                  out[y * bmp.w + x] = Source(x, y)

=============================================================================
