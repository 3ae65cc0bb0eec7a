--------------------------------- MODULE Blt ---------------------------------
(***************************************************************************)
(* The copies of pixels (bltfuncs.cxx): which cell of the destination      *)
(* BltBits overwrites with which cell of the source.  Both surfaces have   *)
(* 32 bits per pixel, the only format MapFramebuffer sets and              *)
(* PresentDisplayOnly lets through, and a cell is one pixel: addresses and *)
(* pitches are in pixels, counted from pBits.                              *)
(*                                                                         *)
(* A BLT_INFO is a record with pitch, offset (x, y), rotation, width and   *)
(* height; a RECT one with left, top, right and bottom.                    *)
(***************************************************************************)
EXTENDS Integers

Rotations == {"identity", "rotate90", "rotate180", "rotate270"}

\* copy_rect: the corners of r in order.
copy_rect(r) ==
    LET Low(a, b) == IF a < b THEN a ELSE b
        High(a, b) == IF a < b THEN b ELSE a
    IN  [left |-> Low(r.left, r.right), top |-> Low(r.top, r.bottom),
         right |-> High(r.left, r.right), bottom |-> High(r.top, r.bottom)]

\* GetPitches: from a pixel of the rectangle to the next in its row, ...
PixelPitch(b) ==
    CASE b.rotation = "identity"  -> 1
      [] b.rotation = "rotate90"  -> -b.pitch
      [] b.rotation = "rotate180" -> -1
      [] b.rotation = "rotate270" -> b.pitch

\* ... and from one of its rows to the next.
RowPitch(b) ==
    CASE b.rotation = "identity"  -> b.pitch
      [] b.rotation = "rotate90"  -> 1
      [] b.rotation = "rotate180" -> -b.pitch
      [] b.rotation = "rotate270" -> -1

\* Mutant: a quarter turn begins one row too low.
RowStartLow(b, r) ==
    CASE b.rotation = "identity"  -> (r.top + b.y) * b.pitch + r.left + b.x
      [] b.rotation = "rotate90"  -> (b.height - r.left - b.x) * b.pitch + r.top + b.y
      [] b.rotation = "rotate180" -> (b.height - 1 - r.top - b.y) * b.pitch + b.width - 1 - r.left - b.x
      [] b.rotation = "rotate270" -> (r.left + b.x) * b.pitch + b.width - 1 - r.top - b.y

\* GetRowStart: the first pixel of the rectangle.
RowStart(b, r) ==
    CASE b.rotation = "identity"  -> (r.top + b.y) * b.pitch + r.left + b.x
      [] b.rotation = "rotate90"  -> (b.height - 1 - r.left - b.x) * b.pitch + r.top + b.y
      [] b.rotation = "rotate180" -> (b.height - 1 - r.top - b.y) * b.pitch + b.width - 1 - r.left - b.x
      [] b.rotation = "rotate270" -> (r.left + b.x) * b.pitch + b.width - 1 - r.top - b.y

\* The column i and the row j of a rectangle whose corners are in order.
Columns(r) == 0 .. r.right - r.left - 1
Rows(r) == 0 .. r.bottom - r.top - 1

\* The pixel in column i and row j, as CopyBitsGeneric steps through them, ...
Stepped(b, r, i, j) == RowStart(b, r) + j * RowPitch(b) + i * PixelPitch(b)

\* ... and as CopyBits32_32 does, row by row.
InRow(b, r, i, j) == (r.top + b.y) * b.pitch + r.left + b.x + j * b.pitch + i

\* A copy is a set of pairs: a cell of the destination, a cell of the source.
CopyBitsGeneric(dst, src, rect) ==
    LET r == copy_rect(rect)
    IN  {<<Stepped(dst, r, i, j), Stepped(src, r, i, j)>> : i \in Columns(r), j \in Rows(r)}

CopyBits32_32(dst, src, rect) ==
    LET r == copy_rect(rect)
    IN  {<<InRow(dst, r, i, j), InRow(src, r, i, j)>> : i \in Columns(r), j \in Rows(r)}

BltBits(dst, src, rect) ==
    IF dst.rotation = "identity" /\ src.rotation = "identity"
    THEN CopyBits32_32(dst, src, rect)
    ELSE CopyBitsGeneric(dst, src, rect)

-----------------------------------------------------------------------------
(***************************************************************************)
(* The picture that a rotated copy has to give: quarter turns of a picture *)
(* w pixels wide and h high.  A turn takes the right edge to the top.      *)
(***************************************************************************)
Turn(t) == [x |-> t.y, y |-> t.w - 1 - t.x, w |-> t.h, h |-> t.w]

\* Where pixel x, y of the picture is after the turns of rotation.
Turned(rotation, x, y, w, h) ==
    LET t == [x |-> x, y |-> y, w |-> w, h |-> h]
    IN  CASE rotation = "identity"  -> t
          [] rotation = "rotate90"  -> Turn(t)
          [] rotation = "rotate180" -> Turn(Turn(t))
          [] rotation = "rotate270" -> Turn(Turn(Turn(t)))

\* The width and height a picture has after the turns.
Swaps(rotation) == rotation \in {"rotate90", "rotate270"}
=============================================================================
