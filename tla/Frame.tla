-------------------------------- MODULE Frame --------------------------------
(***************************************************************************)
(* From the surface Windows draws in to the screen of the host.            *)
(* PresentDisplayOnly copies the rectangles that were drawn, one by one,   *)
(* to the framebuffer, turned as the path says, and reports each to the    *)
(* display handler (ExecutePresentDisplayOnly, InvalidateRegion), which    *)
(* reads the framebuffer there at any later time.  At a bugcheck Windows   *)
(* writes a picture of its own (SystemDisplayEnable, SystemDisplayWrite).  *)
(*                                                                         *)
(* Pixels have no colours here.  A cell of memory holds what it shows: the *)
(* present contents of a pixel of the surface ("frame"), of the picture of *)
(* the bugcheck ("bug"), or nothing that is still so ("old").  The         *)
(* framebuffer has room for the mode and is not replaced (module Modes is  *)
(* about the one, module Screen about the other).                          *)
(***************************************************************************)
EXTENDS Blt, Sequences, FiniteSets

CONSTANTS Width, Height,    \* SrcModeWidth and SrcModeHeight; DispInfo's are the same
          Pitch,            \* DispInfo.Pitch, in pixels
          SourcePitch,      \* the pitch of the surface, in pixels
          Guard,            \* bound: cells before and after the framebuffer that are watched
          MaxRects          \* bound: rectangles drawn and not yet read by the host

ASSUME FrameAssumption ==
    /\ {Width, Height, Pitch, SourcePitch} \subseteq Nat \ {0}
    /\ Pitch >= Width
    /\ SourcePitch >= Width /\ SourcePitch >= Height
    /\ Guard \in Nat /\ MaxRects \in Nat

VARIABLES
    rotation,   \* m_CurrentModes[].Rotation
    rotate,     \* does Windows ask the driver to rotate (Flags.Rotate)?
    drawn,      \* the rectangles drawn since the last present
    todo,       \* the rectangles the present that is going on has still to do
    copied,     \* is the first of them in the framebuffer?
    fb,         \* the memory at FrameBuffer.Ptr
    reports,    \* the regions reported and not yet read by the host
    screen,     \* what the host shows
    bug         \* the rectangle of the bugcheck picture, NoRect before

vars == <<rotation, rotate, drawn, todo, copied, fb, reports, screen, bug>>

Rect(l, t, w, h) == [left |-> l, top |-> t, right |-> l + w, bottom |-> t + h]
NoRect == Rect(0, 0, 0, 0)

\* The non-empty rectangles of a surface that is w wide and h high.
Inside(r, w, h) == 0 <= r.left /\ r.right <= w /\ 0 <= r.top /\ r.bottom <= h
RectsIn(w, h) ==
    UNION {{Rect(l, t, dx, dy) : dx \in 1 .. w - l, dy \in 1 .. h - t} :
              l \in 0 .. w - 1, t \in 0 .. h - 1}

Covers(r, x, y) == r.left <= x /\ x < r.right /\ r.top <= y /\ y < r.bottom
Touched(rects, x, y) == \E i \in DOMAIN rects : Covers(rects[i], x, y)

Memory == -Guard .. Pitch * Height + Guard - 1
Cell(image, x, y) == [image |-> image, x |-> x, y |-> y]
Old == Cell("old", 0, 0)
Foreign == Cell("foreign", 0, 0)

\* PresentDisplayOnly: the rotation the copy has to do, ...
RotationNeededByFb == IF rotate THEN rotation ELSE "identity"

\* ... and the size of the surface it copies from.
SurfaceWidth == IF Swaps(RotationNeededByFb) THEN Height ELSE Width
SurfaceHeight == IF Swaps(RotationNeededByFb) THEN Width ELSE Height

-----------------------------------------------------------------------------
\* IsVidPnPathFieldsValid
Accepted == {"identity", "rotate90"}

\* A mode is committed; nothing of it has been drawn.
Init ==
    /\ rotation \in Accepted
    /\ rotate \in BOOLEAN
    /\ drawn = <<Rect(0, 0, SurfaceWidth, SurfaceHeight)>>
    /\ todo = <<>>
    /\ copied = FALSE
    /\ fb = [a \in Memory |-> Foreign]
    /\ reports = {}
    /\ screen = [p \in (0 .. Width - 1) \X (0 .. Height - 1) |-> Old]
    /\ bug = NoRect

Running == bug = NoRect

\* c, unless it shows a pixel of r, which has been drawn over.
Aged(c, r) == IF c.image = "frame" /\ Covers(r, c.x, c.y) THEN Old ELSE c

\* Windows draws in, or scrolls, a rectangle of the surface.  It does not
\* while the surface is presented.
Draw(r) ==
    /\ Running
    /\ todo = <<>>
    /\ Len(drawn) + Cardinality(reports) < MaxRects
    /\ drawn' = Append(drawn, r)
    /\ fb' = [a \in Memory |-> Aged(fb[a], r)]
    /\ screen' = [p \in DOMAIN screen |-> Aged(screen[p], r)]
    /\ UNCHANGED <<rotation, rotate, todo, copied, reports, bug>>

\* The path is given another rotation, and Windows draws everything anew.
UpdateActiveVidPnPresentPath(r, by_driver) ==
    /\ Running
    /\ todo = <<>>
    /\ rotation' = r
    /\ rotate' = by_driver
    /\ drawn' = <<Rect(0, 0, SurfaceWidth', SurfaceHeight')>>
    /\ fb' = [a \in Memory |-> IF fb[a].image = "frame" THEN Old ELSE fb[a]]
    /\ screen' = [p \in DOMAIN screen |-> Old]
    /\ UNCHANGED <<todo, copied, reports, bug>>

\* PresentDisplayOnly: the moves and the dirty rectangles are all copied from
\* the surface.
PresentDisplayOnly ==
    /\ Running
    /\ todo = <<>> /\ drawn # <<>>
    /\ todo' = drawn
    /\ drawn' = <<>>
    /\ UNCHANGED <<rotation, rotate, copied, fb, reports, screen, bug>>

-----------------------------------------------------------------------------
BltInfo(pitch, x, y, turned, width, height) ==
    [pitch |-> pitch, x |-> x, y |-> y, rotation |-> turned, width |-> width, height |-> height]

\* The framebuffer after a copy; Source(a) is what the cell a of the source
\* shows.
Overwritten(pairs, Source(_)) ==
    LET to == {p[1] : p \in pairs}
    IN  [a \in Memory |->
            IF a \in to THEN Source((CHOOSE p \in pairs : p[1] = a)[2]) ELSE fb[a]]

\* The cell a of a picture that is w wide, h high and has a pitch of p.
InPicture(image, a, p, w, h) ==
    IF a >= 0 /\ a % p < w /\ a \div p < h THEN Cell(image, a % p, a \div p) ELSE Foreign

\* Mutants: the destination has the size of the surface; the pitch of the
\* surface is taken for the framebuffer.
DestinationUnturned == BltInfo(Pitch, 0, 0, RotationNeededByFb, SurfaceWidth, SurfaceHeight)
DestinationOtherPitch == BltInfo(SourcePitch, 0, 0, RotationNeededByFb, Width, Height)

\* DstBltInfo and SrcBltInfo of ExecutePresentDisplayOnly.
Destination == BltInfo(Pitch, 0, 0, RotationNeededByFb, Width, Height)
Surface == BltInfo(SourcePitch, 0, 0, "identity", SurfaceWidth, SurfaceHeight)

FromSurface(a) == InPicture("frame", a, SourcePitch, SurfaceWidth, SurfaceHeight)

CopyRect ==
    /\ Running
    /\ todo # <<>> /\ ~copied
    /\ copied' = TRUE
    /\ \E pairs \in {BltBits(Destination, Surface, Head(todo))} :
          fb' = Overwritten(pairs, FromSurface)
    /\ UNCHANGED <<rotation, rotate, drawn, todo, reports, screen, bug>>

\* Mutant: the region is reported before it is copied.
InvalidateRegionEarly ==
    /\ Running
    /\ todo # <<>>
    /\ IF copied THEN todo' = Tail(todo) ELSE UNCHANGED todo
    /\ copied' = FALSE
    /\ reports' = IF copied THEN reports ELSE reports \union {Head(todo)}
    /\ UNCHANGED <<rotation, rotate, drawn, fb, screen, bug>>

InvalidateRegion ==
    /\ Running
    /\ todo # <<>> /\ copied
    /\ todo' = Tail(todo)
    /\ copied' = FALSE
    /\ reports' = reports \union {Head(todo)}
    /\ UNCHANGED <<rotation, rotate, drawn, fb, screen, bug>>

\* The host reads a region that was reported to it.
HostRefreshes(r) ==
    /\ Running
    /\ r \in reports
    /\ reports' = reports \ {r}
    /\ screen' = [p \in DOMAIN screen |->
                     IF Covers(r, p[1], p[2]) THEN fb[p[2] * Pitch + p[1]] ELSE screen[p]]
    /\ UNCHANGED <<rotation, rotate, drawn, todo, copied, fb, bug>>

-----------------------------------------------------------------------------
\* SystemDisplayEnable: the size of the screen Windows may write to.
SystemWidth == IF Swaps(rotation) THEN Height ELSE Width
SystemHeight == IF Swaps(rotation) THEN Width ELSE Height

\* Mutant: the picture is not moved back to its own origin.
SystemSourceUnmoved(r) ==
    BltInfo(SourcePitch, 0, 0, "identity", r.right - r.left, r.bottom - r.top)

SystemSource(r) ==
    BltInfo(SourcePitch, -r.left, -r.top, "identity", r.right - r.left, r.bottom - r.top)

SystemDestination == BltInfo(Pitch, 0, 0, rotation, Width, Height)

\* SystemDisplayWrite, in the middle of a present or after one, which will not
\* be continued.  (Rectangles not yet presented or not yet read by the host
\* would make no difference to the framebuffer: leaving them out is a bound.)
SystemDisplayWrite(r) ==
    /\ Running
    /\ drawn = <<>> /\ reports = {}
    /\ LET FromBug(a) == InPicture("bug", a, SourcePitch, r.right - r.left, r.bottom - r.top)
       IN  \E pairs \in {BltBits(SystemDestination, SystemSource(r), r)} :
               fb' = Overwritten(pairs, FromBug)
    /\ bug' = r
    /\ todo' = <<>> /\ copied' = FALSE
    /\ screen' = [p \in DOMAIN screen |-> Old]
    /\ UNCHANGED <<rotation, rotate, drawn, reports>>

-----------------------------------------------------------------------------
Next ==
    \/ \E r \in RectsIn(SurfaceWidth, SurfaceHeight) : Draw(r)
    \/ \E r \in Accepted, by_driver \in BOOLEAN : UpdateActiveVidPnPresentPath(r, by_driver)
    \/ PresentDisplayOnly \/ CopyRect \/ InvalidateRegion
    \/ \E r \in reports : HostRefreshes(r)
    \/ \E r \in RectsIn(SystemWidth, SystemHeight) : SystemDisplayWrite(r)

Spec == Init /\ [][Next]_vars

-----------------------------------------------------------------------------
\* Where pixel x, y of a picture with the size of the turned screen is put.
At(turned, x, y) ==
    LET t == Turned(turned, x, y, IF Swaps(turned) THEN Height ELSE Width,
                                  IF Swaps(turned) THEN Width ELSE Height)
    IN  t.y * Pitch + t.x

\* r, its corners named in three of the ways copy_rect allows.
Named(r) == {r, [r EXCEPT !.left = r.right, !.right = r.left],
                [r EXCEPT !.top = r.bottom, !.bottom = r.top]}

\* Exactly the pixels of r are copied, each to the place turns take it to.
CopyTurns(turned, r, w, h) ==
    \A s \in Named(r) :
        BltBits(BltInfo(Pitch, 0, 0, turned, Width, Height),
                BltInfo(SourcePitch, 0, 0, "identity", w, h), s)
          = {<<At(turned, x, y), y * SourcePitch + x>> :
               x \in r.left .. r.right - 1, y \in r.top .. r.bottom - 1}

\* BltBits turns: in each of the four rotations, and whichever way the corners
\* of a rectangle are named, exactly the rectangle's pixels are copied, each to
\* the place quarter turns take it to.
CopiesTurn ==
    \A turned \in Rotations, i \in DOMAIN todo :
        LET w == IF Swaps(turned) THEN Height ELSE Width
            h == IF Swaps(turned) THEN Width ELSE Height
        IN  Inside(todo[i], w, h) => CopyTurns(turned, todo[i], w, h)

\* Every pixel of the surface that is not waiting to be copied is in the
\* framebuffer, at its place on the screen, however draws, presents and
\* changes of the rotation alternate.
FrameInPlace ==
    Running =>
        \A x \in 0 .. SurfaceWidth - 1, y \in 0 .. SurfaceHeight - 1 :
            \/ Touched(drawn, x, y) \/ Touched(todo, x, y)
            \/ fb[At(RotationNeededByFb, x, y)] = Cell("frame", x, y)

\* Neither a present nor the bugcheck writes outside the framebuffer, or
\* between the end of a row and the beginning of the next.
OnlyScreenWritten ==
    \A a \in Memory :
        fb[a] # Foreign => \E x \in 0 .. Width - 1, y \in 0 .. Height - 1 : a = y * Pitch + x

\* The host shows every pixel that is not waiting to be copied or read, if the
\* copy does not rotate: the region is reported after it has been copied.
HostShowsFrame ==
    Running /\ RotationNeededByFb = "identity" =>
        \A x \in 0 .. Width - 1, y \in 0 .. Height - 1 :
            \/ Touched(drawn, x, y) \/ Touched(todo, x, y)
            \/ \E r \in reports : Covers(r, x, y)
            \/ screen[<<x, y>>] = Cell("frame", x, y)

\* The picture of the bugcheck is where Windows wants it on the turned screen,
\* with its own first pixel at its corner.
BugcheckInPlace ==
    \A x \in bug.left .. bug.right - 1, y \in bug.top .. bug.bottom - 1 :
        fb[At(rotation, x, y)] = Cell("bug", x - bug.left, y - bug.top)
=============================================================================
