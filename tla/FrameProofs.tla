----------------------------- MODULE FrameProofs -----------------------------
(***************************************************************************)
(* Proofs about module Frame, for screens, surfaces and pitches of any     *)
(* size.  The first half is about one copy: BltIsTurn says which cells it  *)
(* overwrites with which, CopyResult what the framebuffer shows then.  The *)
(* second half is the inductive invariant and a lemma per action.          *)
(***************************************************************************)
EXTENDS Frame, TLAPS

Rects == [left : Int, top : Int, right : Int, bottom : Int]

\* r lies in a surface that is w wide and h high, and its corners are in order.
Ordered(r, w, h) ==
    /\ r \in Rects
    /\ 0 <= r.left /\ r.left <= r.right /\ r.right <= w
    /\ 0 <= r.top /\ r.top <= r.bottom /\ r.bottom <= h

\* The width and the height of the surface that is turned to be the screen.
TurnedWidth(turned) == IF Swaps(turned) THEN Height ELSE Width
TurnedHeight(turned) == IF Swaps(turned) THEN Width ELSE Height

\* a is the address of a pixel of the screen.
OnScreen(a) == \E x \in 0 .. Width - 1, y \in 0 .. Height - 1 : a = y * Pitch + x

Screen(turned) == BltInfo(Pitch, 0, 0, turned, Width, Height)
Picture(ox, oy, w, h) == BltInfo(SourcePitch, ox, oy, "identity", w, h)

\* The pairs of cells a copy of r to the screen turned should have: its pixels,
\* read from a picture whose origin is at ox, oy, go where turns take them.
Copies(turned, r, ox, oy) ==
    {<<At(turned, x, y), (y + oy) * SourcePitch + x + ox>> :
        x \in r.left .. r.right - 1, y \in r.top .. r.bottom - 1}

-----------------------------------------------------------------------------
\* Cells are found again from their addresses.
LEMMA AddressOf ==
    ASSUME NEW p \in Nat, NEW x \in Nat, NEW y \in Nat, x < p
    PROVE  (y * p + x) % p = x /\ (y * p + x) \div p = y
  <1>1. p > 0 /\ y * p + x \in Nat
    OBVIOUS
  <1> DEFINE a == y * p + x
             q == a \div p
             m == a % p
  <1>2. a = q * p + m /\ m \in 0 .. p - 1 /\ q \in Int
    BY <1>1
  <1>3. q \in Int /\ m \in Int /\ a \in Int /\ a = y * p + x
    BY <1>1, <1>2
  <1> HIDE DEF a, q, m
  <1>4. (y - q) * p = m - x
    BY <1>2, <1>3
  <1>5. ~(y - q >= 1)
    <2>1. SUFFICES ASSUME y - q >= 1 PROVE FALSE
      OBVIOUS
    <2>2. (y - q) * p >= p
      BY <2>1, <1>3
    <2> QED
      BY <2>2, <1>4, <1>2
  <1>6. ~(y - q <= -1)
    <2>1. SUFFICES ASSUME y - q <= -1 PROVE FALSE
      OBVIOUS
    <2>2. (y - q) * p <= -p
      BY <2>1, <1>3
    <2> QED
      BY <2>2, <1>4, <1>2
  <1>7. y = q
    BY <1>5, <1>6, <1>3
  <1>8. x = m
    BY <1>7, <1>2, <1>3
  <1> QED
    BY <1>7, <1>8 DEF a, q, m

\* copy_rect changes nothing if the corners are in order.
LEMMA CopyRectOrdered ==
    ASSUME NEW r \in Rects, r.left <= r.right, r.top <= r.bottom
    PROVE  copy_rect(r) = r
  BY DEF copy_rect, Rects

\* Turns take a pixel of the surface to a pixel of the screen, ...
LEMMA TurnedOnScreen ==
    ASSUME NEW turned \in Rotations,
           NEW x \in 0 .. TurnedWidth(turned) - 1, NEW y \in 0 .. TurnedHeight(turned) - 1,
           NEW t, t = Turned(turned, x, y, TurnedWidth(turned), TurnedHeight(turned))
    PROVE  /\ t.x \in 0 .. Width - 1 /\ t.y \in 0 .. Height - 1
           /\ At(turned, x, y) = t.y * Pitch + t.x
  BY FrameAssumption DEF Rotations, TurnedWidth, TurnedHeight, Swaps, Turned, Turn, At

LEMMA AtOnScreen ==
    ASSUME NEW turned \in Rotations,
           NEW x \in 0 .. TurnedWidth(turned) - 1, NEW y \in 0 .. TurnedHeight(turned) - 1
    PROVE  OnScreen(At(turned, x, y)) /\ At(turned, x, y) \in Memory
  <1> DEFINE t == Turned(turned, x, y, TurnedWidth(turned), TurnedHeight(turned))
  <1>1. /\ t.x \in 0 .. Width - 1 /\ t.y \in 0 .. Height - 1
        /\ At(turned, x, y) = t.y * Pitch + t.x
    BY TurnedOnScreen
  <1> HIDE DEF t
  <1>2. OnScreen(At(turned, x, y))
    BY <1>1 DEF OnScreen
  <1>3. 0 <= t.y * Pitch /\ t.y * Pitch <= (Height - 1) * Pitch
    BY <1>1, FrameAssumption
  <1>4. (Height - 1) * Pitch = Pitch * Height - Pitch
    BY FrameAssumption
  <1>5. Pitch \in Nat /\ Width \in Nat /\ Pitch >= Width /\ Guard \in Nat /\ Height \in Nat
    BY FrameAssumption
  <1>6. At(turned, x, y) \in Memory
    BY <1>1, <1>3, <1>4, <1>5 DEF Memory
  <1> QED
    BY <1>2, <1>6

\* ... and different ones to different ones.
LEMMA AtInjective ==
    ASSUME NEW turned \in Rotations,
           NEW x \in 0 .. TurnedWidth(turned) - 1, NEW y \in 0 .. TurnedHeight(turned) - 1,
           NEW u \in 0 .. TurnedWidth(turned) - 1, NEW v \in 0 .. TurnedHeight(turned) - 1,
           At(turned, x, y) = At(turned, u, v)
    PROVE  x = u /\ y = v
  <1> DEFINE s == Turned(turned, x, y, TurnedWidth(turned), TurnedHeight(turned))
             t == Turned(turned, u, v, TurnedWidth(turned), TurnedHeight(turned))
  <1>1. /\ s.x \in 0 .. Width - 1 /\ s.y \in 0 .. Height - 1
        /\ t.x \in 0 .. Width - 1 /\ t.y \in 0 .. Height - 1
        /\ s.y * Pitch + s.x = t.y * Pitch + t.x
    BY TurnedOnScreen
  <1>2. Pitch \in Nat /\ Width \in Nat /\ Pitch >= Width
    BY FrameAssumption
  <1>3. s.x = t.x /\ s.y = t.y
    <2> HIDE DEF s, t
    <2>1. s.x \in Nat /\ s.y \in Nat /\ t.x \in Nat /\ t.y \in Nat /\ s.x < Pitch /\ t.x < Pitch
      BY <1>1, <1>2
    <2> QED
      BY <1>1, <1>2, <2>1, AddressOf
  <1> QED
    BY <1>3, FrameAssumption DEF Rotations, TurnedWidth, TurnedHeight, Swaps, Turned, Turn

\* The steps through a rectangle visit the places to which turns take its pixels, ...
LEMMA SteppedIsTurned ==
    ASSUME NEW turned \in Rotations, NEW r \in Rects,
           NEW i \in Int, NEW j \in Int
    PROVE  Stepped(Screen(turned), r, i, j) = At(turned, r.left + i, r.top + j)
  <1> USE FrameAssumption DEF Rects, Swaps, At, Turned, Turn,
             Stepped, RowStart, RowPitch, PixelPitch, Screen, BltInfo
  <1>1. CASE turned = "identity"
    BY <1>1
  <1>2. CASE turned = "rotate90"
    BY <1>2
  <1>3. CASE turned = "rotate180"
    BY <1>3
  <1>4. CASE turned = "rotate270"
    BY <1>4
  <1> QED
    BY <1>1, <1>2, <1>3, <1>4 DEF Rotations

\* Columns and rows of a rectangle, and the pixels in it.
LEMMA PixelOf ==
    ASSUME NEW r \in Rects, NEW i \in Columns(r), NEW j \in Rows(r)
    PROVE  /\ r.left + i \in r.left .. r.right - 1 /\ r.top + j \in r.top .. r.bottom - 1
           /\ i \in Int /\ j \in Int
  BY DEF Rects, Columns, Rows

LEMMA ColumnOf ==
    ASSUME NEW r \in Rects, NEW x \in r.left .. r.right - 1, NEW y \in r.top .. r.bottom - 1
    PROVE  /\ x - r.left \in Columns(r) /\ y - r.top \in Rows(r)
           /\ r.left + (x - r.left) = x /\ r.top + (y - r.top) = y
           /\ x - r.left \in Int /\ y - r.top \in Int
  BY DEF Rects, Columns, Rows

\* A row-wise copy reads what a stepwise one does, ...
LEMMA PictureStepped ==
    ASSUME NEW r \in Rects, NEW i \in Int, NEW j \in Int, NEW ox \in Int, NEW oy \in Int,
           NEW w, NEW h
    PROVE  /\ Stepped(Picture(ox, oy, w, h), r, i, j)
                = (r.top + j + oy) * SourcePitch + (r.left + i) + ox
           /\ InRow(Picture(ox, oy, w, h), r, i, j)
                = (r.top + j + oy) * SourcePitch + (r.left + i) + ox
  BY FrameAssumption DEF Rects, Picture, BltInfo, Stepped, RowStart, RowPitch, PixelPitch, InRow

\* ... and writes to the same place.
LEMMA ScreenInRow ==
    ASSUME NEW r \in Rects, NEW i \in Int, NEW j \in Int
    PROVE  InRow(Screen("identity"), r, i, j) = Stepped(Screen("identity"), r, i, j)
  BY FrameAssumption DEF Rects, Screen, BltInfo, Stepped, RowStart, RowPitch, PixelPitch, InRow

LEMMA BltIsTurn ==
    ASSUME NEW turned \in Rotations, NEW ox \in Int, NEW oy \in Int, NEW w, NEW h,
           NEW s, NEW r \in Rects, copy_rect(s) = r
    PROVE  BltBits(Screen(turned), Picture(ox, oy, w, h), s) = Copies(turned, r, ox, oy)
  <1> DEFINE P(i, j) == <<At(turned, r.left + i, r.top + j),
                          (r.top + j + oy) * SourcePitch + (r.left + i) + ox>>
  <1>1. BltBits(Screen(turned), Picture(ox, oy, w, h), s)
          = {P(i, j) : i \in Columns(r), j \in Rows(r)}
    <2>1. CASE turned = "identity"
      <3>1. \A i \in Columns(r), j \in Rows(r) :
              <<InRow(Screen(turned), r, i, j), InRow(Picture(ox, oy, w, h), r, i, j)>> = P(i, j)
        BY <2>1, PixelOf, PictureStepped, ScreenInRow, SteppedIsTurned
      <3>2. BltBits(Screen(turned), Picture(ox, oy, w, h), s)
              = {<<InRow(Screen(turned), r, i, j), InRow(Picture(ox, oy, w, h), r, i, j)>> :
                    i \in Columns(r), j \in Rows(r)}
        BY <2>1 DEF BltBits, CopyBits32_32, Screen, Picture, BltInfo
      <3> HIDE DEF P
      <3> QED
        BY <3>1, <3>2
    <2>2. CASE turned # "identity"
      <3>1. \A i \in Columns(r), j \in Rows(r) :
              <<Stepped(Screen(turned), r, i, j), Stepped(Picture(ox, oy, w, h), r, i, j)>> = P(i, j)
        BY PixelOf, PictureStepped, SteppedIsTurned
      <3>2. BltBits(Screen(turned), Picture(ox, oy, w, h), s)
              = {<<Stepped(Screen(turned), r, i, j), Stepped(Picture(ox, oy, w, h), r, i, j)>> :
                    i \in Columns(r), j \in Rows(r)}
        BY <2>2 DEF BltBits, CopyBitsGeneric, Screen, Picture, BltInfo
      <3> HIDE DEF P
      <3> QED
        BY <3>1, <3>2
    <2> QED
      BY <2>1, <2>2
  <1>2. ASSUME NEW p \in {P(i, j) : i \in Columns(r), j \in Rows(r)}
        PROVE  p \in Copies(turned, r, ox, oy)
    <2>1. PICK i \in Columns(r), j \in Rows(r) : p = P(i, j)
      OBVIOUS
    <2> QED
      BY <2>1, PixelOf DEF Copies
  <1>3. ASSUME NEW p \in Copies(turned, r, ox, oy)
        PROVE  p \in {P(i, j) : i \in Columns(r), j \in Rows(r)}
    <2>1. PICK x \in r.left .. r.right - 1, y \in r.top .. r.bottom - 1 :
            p = <<At(turned, x, y), (y + oy) * SourcePitch + x + ox>>
      BY DEF Copies
    <2>2. P(x - r.left, y - r.top) = p
      BY <2>1, ColumnOf
    <2> HIDE DEF P
    <2> QED
      BY <2>2, ColumnOf
  <1> HIDE DEF P
  <1> QED
    BY <1>1, <1>2, <1>3

\* What a picture shows at the address of one of its pixels.
LEMMA PictureShows ==
    ASSUME NEW image, NEW w \in Nat, NEW h \in Nat, w <= SourcePitch,
           NEW x \in 0 .. w - 1, NEW y \in 0 .. h - 1
    PROVE  InPicture(image, y * SourcePitch + x, SourcePitch, w, h) = Cell(image, x, y)
  <1>1. SourcePitch \in Nat /\ x \in Nat /\ y \in Nat /\ x < SourcePitch /\ x < w /\ y < h
    BY FrameAssumption
  <1>2. y * SourcePitch + x >= 0
    BY <1>1
  <1> QED
    BY <1>1, <1>2, AddressOf DEF InPicture

\* A cell in the rectangle is overwritten with its pixel, one beside it is not.
LEMMA CopyResult ==
    ASSUME NEW turned \in Rotations, NEW ox \in Int, NEW oy \in Int, NEW w, NEW h,
           NEW r, Ordered(r, TurnedWidth(turned), TurnedHeight(turned)),
           NEW pairs, pairs = BltBits(Screen(turned), Picture(ox, oy, w, h), r),
           NEW x \in 0 .. TurnedWidth(turned) - 1, NEW y \in 0 .. TurnedHeight(turned) - 1
    PROVE  /\ Covers(r, x, y) =>
                 /\ At(turned, x, y) \in {p[1] : p \in pairs}
                 /\ (CHOOSE p \in pairs : p[1] = At(turned, x, y))[2]
                       = (y + oy) * SourcePitch + x + ox
           /\ ~Covers(r, x, y) => At(turned, x, y) \notin {p[1] : p \in pairs}
  <1> DEFINE a == At(turned, x, y)
  <1>1. pairs = Copies(turned, r, ox, oy)
    BY CopyRectOrdered, BltIsTurn DEF Ordered
  <1>2. ASSUME NEW p \in pairs, p[1] = a
        PROVE  p[2] = (y + oy) * SourcePitch + x + ox /\ Covers(r, x, y)
    <2>1. PICK u \in r.left .. r.right - 1, v \in r.top .. r.bottom - 1 :
            p = <<At(turned, u, v), (v + oy) * SourcePitch + u + ox>>
      BY <1>1 DEF Copies
    <2>2. /\ u \in 0 .. TurnedWidth(turned) - 1 /\ v \in 0 .. TurnedHeight(turned) - 1
          /\ Covers(r, u, v)
      BY FrameAssumption DEF Ordered, Rects, TurnedWidth, TurnedHeight, Covers
    <2>3. At(turned, u, v) = At(turned, x, y)
      BY <1>2, <2>1
    <2>4. u = x /\ v = y
      BY <2>2, <2>3, AtInjective
    <2> QED
      BY <2>1, <2>2, <2>4
  <1>3. CASE Covers(r, x, y)
    <2>1. x \in r.left .. r.right - 1 /\ y \in r.top .. r.bottom - 1
      BY <1>3, FrameAssumption DEF Ordered, Rects, Covers, TurnedWidth, TurnedHeight
    <2>2. <<a, (y + oy) * SourcePitch + x + ox>> \in pairs
      BY <1>1, <2>1 DEF Copies
    <2> HIDE DEF a
    <2>3. \E p \in pairs : p[1] = a
      BY <2>2
    <2> DEFINE q == CHOOSE p \in pairs : p[1] = a
    <2>4. q \in pairs /\ q[1] = a
      BY <2>3
    <2> QED
      BY <1>2, <1>3, <2>3, <2>4 DEF a
  <1>4. CASE ~Covers(r, x, y)
    BY <1>2, <1>4
  <1> QED
    BY <1>3, <1>4

\* What is overwritten is on the screen.
LEMMA CopyOnScreen ==
    ASSUME NEW turned \in Rotations, NEW ox \in Int, NEW oy \in Int, NEW w, NEW h,
           NEW r, Ordered(r, TurnedWidth(turned), TurnedHeight(turned)),
           NEW p \in BltBits(Screen(turned), Picture(ox, oy, w, h), r)
    PROVE  OnScreen(p[1])
  <1>1. p \in Copies(turned, r, ox, oy)
    BY CopyRectOrdered, BltIsTurn DEF Ordered
  <1>2. PICK x \in r.left .. r.right - 1, y \in r.top .. r.bottom - 1 :
          p[1] = At(turned, x, y)
    BY <1>1 DEF Copies
  <1>3. x \in 0 .. TurnedWidth(turned) - 1 /\ y \in 0 .. TurnedHeight(turned) - 1
    BY FrameAssumption DEF Ordered, Rects, TurnedWidth, TurnedHeight
  <1> QED
    BY <1>2, <1>3, AtOnScreen

\* So overwriting cells of the screen keeps OnlyScreenWritten.
LEMMA OverwritingKeeps ==
    ASSUME OnlyScreenWritten, NEW to, \A a \in to : OnScreen(a),
           \A a \in Memory : a \notin to => fb'[a] = fb[a]
    PROVE  OnlyScreenWritten'
  <1> SUFFICES ASSUME NEW a \in Memory, fb'[a] # Foreign, ~OnScreen(a)
               PROVE  FALSE
    BY DEF OnlyScreenWritten, OnScreen, Memory, Foreign, Cell
  <1>1. fb'[a] = fb[a]
    OBVIOUS
  <1> QED
    BY <1>1 DEF OnlyScreenWritten, OnScreen

-----------------------------------------------------------------------------
\* What is drawn and what is presented lies in the surface.
OnSurface(rects) ==
    /\ rects \in Seq(Rects)
    /\ \A i \in DOMAIN rects : Ordered(rects[i], SurfaceWidth, SurfaceHeight)

Sound ==
    /\ rotation \in Accepted /\ rotate \in BOOLEAN
    /\ OnSurface(drawn) /\ OnSurface(todo)
    /\ DOMAIN screen = (0 .. Width - 1) \X (0 .. Height - 1)

InPlace(x, y) == fb[At(RotationNeededByFb, x, y)] = Cell("frame", x, y)

\* The rectangle that has been copied, but not reported, is in place.
HeadInPlace ==
    copied =>
        /\ todo # <<>>
        /\ \A x \in 0 .. SurfaceWidth - 1, y \in 0 .. SurfaceHeight - 1 :
              Covers(Head(todo), x, y) => InPlace(x, y)

\* BugcheckInPlace holds of the states before the bugcheck because NoRect is
\* empty, so its steps are those that leave bug alone and SystemDisplayWrite.
IndInv ==
    /\ Sound
    /\ HeadInPlace
    /\ FrameInPlace
    /\ OnlyScreenWritten
    /\ HostShowsFrame
    /\ BugcheckInPlace

LEMMA SurfaceTurned ==
    ASSUME rotation \in Accepted
    PROVE  /\ RotationNeededByFb \in Rotations /\ rotation \in Rotations
           /\ SurfaceWidth = TurnedWidth(RotationNeededByFb)
           /\ SurfaceHeight = TurnedHeight(RotationNeededByFb)
           /\ SystemWidth = TurnedWidth(rotation)
           /\ SystemHeight = TurnedHeight(rotation)
  BY DEF Accepted, RotationNeededByFb, Rotations, SurfaceWidth, SurfaceHeight, SystemWidth,
         SystemHeight, TurnedWidth, TurnedHeight

\* The sizes of the surface and of the bugcheck's screen.
LEMMA Sizes ==
    /\ SurfaceWidth \in Nat /\ SurfaceHeight \in Nat
    /\ SystemWidth \in Nat /\ SystemHeight \in Nat
    /\ SurfaceWidth <= SourcePitch /\ SurfaceHeight <= SourcePitch
    /\ SystemWidth <= SourcePitch /\ SystemHeight <= SourcePitch
  BY FrameAssumption DEF SurfaceWidth, SurfaceHeight, SystemWidth, SystemHeight

LEMMA SurfaceInMemory ==
    ASSUME rotation \in Accepted,
           NEW x \in 0 .. SurfaceWidth - 1, NEW y \in 0 .. SurfaceHeight - 1
    PROVE  At(RotationNeededByFb, x, y) \in Memory
  BY SurfaceTurned, AtOnScreen

\* The rectangles of a surface.
LEMMA RectsAreOrdered ==
    ASSUME NEW w \in Nat, NEW h \in Nat, NEW r \in RectsIn(w, h)
    PROVE  r \in Rects /\ Ordered(r, w, h) /\ r # NoRect
  <1>1. PICK l \in 0 .. w - 1, t \in 0 .. h - 1 :
           r \in {Rect(l, t, dx, dy) : dx \in 1 .. w - l, dy \in 1 .. h - t}
    BY DEF RectsIn
  <1>2. PICK dx \in 1 .. w - l, dy \in 1 .. h - t : r = Rect(l, t, dx, dy)
    BY <1>1
  <1> QED
    BY <1>2 DEF Rect, Rects, Ordered, NoRect

\* The whole surface.
LEMMA WholeIsOrdered ==
    ASSUME NEW w \in Nat, NEW h \in Nat
    PROVE  /\ Rect(0, 0, w, h) \in Rects /\ Ordered(Rect(0, 0, w, h), w, h)
           /\ \A x \in 0 .. w - 1, y \in 0 .. h - 1 : Touched(<<Rect(0, 0, w, h)>>, x, y)
  <1>1. Rect(0, 0, w, h) \in Rects /\ Ordered(Rect(0, 0, w, h), w, h)
    BY DEF Rect, Rects, Ordered
  <1>2. ASSUME NEW x \in 0 .. w - 1, NEW y \in 0 .. h - 1
        PROVE  Touched(<<Rect(0, 0, w, h)>>, x, y)
    <2>1. Covers(Rect(0, 0, w, h), x, y)
      BY DEF Rect, Covers
    <2> DEFINE s == <<Rect(0, 0, w, h)>>
    <2>2. 1 \in DOMAIN s /\ s[1] = Rect(0, 0, w, h)
      OBVIOUS
    <2> QED
      BY <2>1, <2>2 DEF Touched
  <1> QED
    BY <1>1, <1>2

\* Before the bugcheck there is nothing of its picture to be in place.
LEMMA NoBugYet ==
    ASSUME bug = NoRect
    PROVE  BugcheckInPlace
  BY DEF BugcheckInPlace, NoRect, Rect

\* Drawing over r makes old what shows a pixel of r, and nothing else.
LEMMA AgedCell ==
    ASSUME NEW r
    PROVE  /\ Aged(Foreign, r) = Foreign
           /\ \A x, y : ~Covers(r, x, y) => Aged(Cell("frame", x, y), r) = Cell("frame", x, y)
  BY DEF Aged, Foreign, Cell

-----------------------------------------------------------------------------
LEMMA InitIndInv ==
    ASSUME Init
    PROVE  IndInv
  <1>1. Sound
    <2>1. DOMAIN screen = (0 .. Width - 1) \X (0 .. Height - 1)
      BY DEF Init
    <2> QED
      BY <2>1, Sizes, WholeIsOrdered DEF Init, Sound, OnSurface
  <1>2. \A x \in 0 .. SurfaceWidth - 1, y \in 0 .. SurfaceHeight - 1 : Touched(drawn, x, y)
    BY Sizes, WholeIsOrdered DEF Init
  <1>3. HeadInPlace
    BY DEF Init, HeadInPlace
  <1>4. FrameInPlace
    BY <1>2 DEF FrameInPlace
  <1>5. OnlyScreenWritten
    BY DEF Init, OnlyScreenWritten
  <1>6. HostShowsFrame
    BY <1>2 DEF HostShowsFrame, SurfaceWidth, SurfaceHeight, Swaps
  <1>7. BugcheckInPlace
    BY NoBugYet DEF Init
  <1> QED
    BY <1>1, <1>3, <1>4, <1>5, <1>6, <1>7 DEF IndInv

\* What a step that leaves the path alone leaves alone.
LEMMA SamePath ==
    ASSUME UNCHANGED <<rotation, rotate>>
    PROVE  /\ RotationNeededByFb' = RotationNeededByFb
           /\ SurfaceWidth' = SurfaceWidth /\ SurfaceHeight' = SurfaceHeight
           /\ \A turned, x, y : At(turned, x, y)' = At(turned, x, y)
  BY DEF RotationNeededByFb, SurfaceWidth, SurfaceHeight, At

LEMMA DrawKeeps ==
    ASSUME IndInv, NEW r \in RectsIn(SurfaceWidth, SurfaceHeight), Draw(r)
    PROVE  IndInv'
  <1>1. /\ UNCHANGED <<rotation, rotate, todo, copied, reports, bug>>
        /\ todo = <<>> /\ drawn' = Append(drawn, r) /\ bug = NoRect
    BY DEF Draw, Running
  <1>2. Sound'
    <2>1. Ordered(r, SurfaceWidth, SurfaceHeight) /\ r \in Rects
      BY Sizes, RectsAreOrdered
    <2>2. DOMAIN screen' = DOMAIN screen
      BY DEF Draw
    <2> QED
      BY <1>1, <2>1, <2>2, SamePath DEF IndInv, Sound, OnSurface
  <1>3. HeadInPlace'
    BY <1>1 DEF IndInv, HeadInPlace
  <1>4. ASSUME NEW x, NEW y, ~Touched(drawn, x, y)'
        PROVE  ~Touched(drawn, x, y) /\ ~Covers(r, x, y)
    <2>1. drawn \in Seq(Rects) /\ r \in Rects
      BY Sizes, RectsAreOrdered DEF IndInv, Sound, OnSurface
    <2>2. /\ \A i \in DOMAIN drawn : i \in DOMAIN drawn' /\ drawn'[i] = drawn[i]
          /\ Len(drawn) + 1 \in DOMAIN drawn' /\ drawn'[Len(drawn) + 1] = r
      BY <1>1, <2>1
    <2> QED
      BY <1>4, <2>2 DEF Touched
  <1>5. FrameInPlace'
    <2> SUFFICES ASSUME NEW x \in 0 .. SurfaceWidth - 1, NEW y \in 0 .. SurfaceHeight - 1,
                        ~Touched(drawn, x, y)', ~Touched(todo, x, y)
                 PROVE  fb'[At(RotationNeededByFb, x, y)] = Cell("frame", x, y)
      BY <1>1, SamePath DEF FrameInPlace, Touched
    <2>1. fb[At(RotationNeededByFb, x, y)] = Cell("frame", x, y)
      BY <1>1, <1>4 DEF IndInv, FrameInPlace, Running
    <2>2. At(RotationNeededByFb, x, y) \in Memory
      BY SurfaceInMemory DEF IndInv, Sound
    <2> QED
      BY <1>4, <2>1, <2>2, AgedCell DEF Draw
  <1>6. OnlyScreenWritten'
    BY AgedCell DEF Draw, IndInv, OnlyScreenWritten
  <1>7. HostShowsFrame'
    <2> SUFFICES ASSUME RotationNeededByFb = "identity",
                        NEW x \in 0 .. Width - 1, NEW y \in 0 .. Height - 1,
                        ~Touched(drawn, x, y)', ~Touched(todo, x, y),
                        ~ \E s \in reports : Covers(s, x, y)
                 PROVE  screen'[<<x, y>>] = Cell("frame", x, y)
      BY <1>1, SamePath DEF HostShowsFrame, Touched
    <2>1. screen[<<x, y>>] = Cell("frame", x, y)
      BY <1>1, <1>4 DEF IndInv, HostShowsFrame, Running
    <2>2. <<x, y>> \in DOMAIN screen
      BY DEF IndInv, Sound
    <2> QED
      BY <1>4, <2>1, <2>2, AgedCell DEF Draw
  <1>8. BugcheckInPlace'
    BY <1>1 DEF BugcheckInPlace, NoRect, Rect
  <1> QED
    BY <1>2, <1>3, <1>5, <1>6, <1>7, <1>8 DEF IndInv

LEMMA PathKeeps ==
    ASSUME IndInv, NEW r \in Accepted, NEW by_driver \in BOOLEAN,
           UpdateActiveVidPnPresentPath(r, by_driver)
    PROVE  IndInv'
  <1>1. /\ rotation' \in Accepted /\ rotate' \in BOOLEAN
        /\ UNCHANGED <<todo, copied, reports, bug>>
        /\ todo = <<>> /\ bug = NoRect
    BY DEF UpdateActiveVidPnPresentPath, Running
  <1>2. drawn' = <<Rect(0, 0, SurfaceWidth', SurfaceHeight')>>
    BY DEF UpdateActiveVidPnPresentPath
  <1>3. SurfaceWidth' \in Nat /\ SurfaceHeight' \in Nat
    BY FrameAssumption DEF SurfaceWidth, SurfaceHeight
  <1>4. Sound'
    <2>1. DOMAIN screen' = DOMAIN screen
      BY DEF UpdateActiveVidPnPresentPath
    <2>2. OnSurface(drawn)'
      BY <1>2, <1>3, WholeIsOrdered DEF OnSurface
    <2>3. OnSurface(todo)'
      BY <1>1 DEF OnSurface
    <2> QED
      BY <1>1, <2>1, <2>2, <2>3 DEF IndInv, Sound
  <1>5. HeadInPlace'
    BY <1>1 DEF IndInv, HeadInPlace
  <1>6. \A x \in 0 .. SurfaceWidth' - 1, y \in 0 .. SurfaceHeight' - 1 : Touched(drawn', x, y)
    BY <1>2, <1>3, WholeIsOrdered
  <1>7. FrameInPlace'
    BY <1>6 DEF FrameInPlace
  <1>8. OnlyScreenWritten'
    BY DEF UpdateActiveVidPnPresentPath, IndInv, OnlyScreenWritten, Foreign, Cell
  <1>9. HostShowsFrame'
    BY <1>6 DEF HostShowsFrame, SurfaceWidth, SurfaceHeight, Swaps
  <1>10. BugcheckInPlace'
    BY <1>1 DEF BugcheckInPlace, NoRect, Rect
  <1> QED
    BY <1>4, <1>5, <1>7, <1>8, <1>9, <1>10 DEF IndInv

LEMMA PresentKeeps ==
    ASSUME IndInv, PresentDisplayOnly
    PROVE  IndInv'
  <1>1. /\ UNCHANGED <<rotation, rotate, copied, fb, reports, screen, bug>>
        /\ todo = <<>> /\ todo' = drawn /\ drawn' = <<>> /\ bug = NoRect
    BY DEF PresentDisplayOnly, Running
  <1>2. Sound'
    <2>1. OnSurface(drawn)'
      BY <1>1 DEF OnSurface
    <2>2. OnSurface(todo)'
      BY <1>1, SamePath DEF IndInv, Sound, OnSurface
    <2> QED
      BY <1>1, <2>1, <2>2 DEF IndInv, Sound
  <1>3. HeadInPlace'
    BY <1>1 DEF IndInv, HeadInPlace
  <1>4. FrameInPlace'
    BY <1>1, SamePath DEF IndInv, FrameInPlace, Running, Touched
  <1>5. OnlyScreenWritten'
    BY <1>1 DEF IndInv, OnlyScreenWritten
  <1>6. HostShowsFrame'
    BY <1>1, SamePath DEF IndInv, HostShowsFrame, Running, Touched
  <1>7. BugcheckInPlace'
    BY <1>1 DEF BugcheckInPlace, NoRect, Rect
  <1> QED
    BY <1>2, <1>3, <1>4, <1>5, <1>6, <1>7 DEF IndInv

LEMMA CopyRectKeeps ==
    ASSUME IndInv, CopyRect
    PROVE  IndInv'
  <1>1. /\ UNCHANGED <<rotation, rotate, drawn, todo, reports, screen, bug>>
        /\ todo # <<>> /\ copied' = TRUE /\ bug = NoRect
    BY DEF CopyRect, Running
  <1>2. Ordered(Head(todo), SurfaceWidth, SurfaceHeight)
    BY <1>1 DEF IndInv, Sound, OnSurface
  <1>3. /\ RotationNeededByFb \in Rotations
        /\ SurfaceWidth = TurnedWidth(RotationNeededByFb)
        /\ SurfaceHeight = TurnedHeight(RotationNeededByFb)
    BY SurfaceTurned DEF IndInv, Sound
  <1> DEFINE pairs == BltBits(Screen(RotationNeededByFb),
                              Picture(0, 0, SurfaceWidth, SurfaceHeight), Head(todo))
             to == {p[1] : p \in pairs}
  <1>4. fb' = [a \in Memory |->
                 IF a \in to THEN FromSurface((CHOOSE p \in pairs : p[1] = a)[2]) ELSE fb[a]]
    BY DEF CopyRect, Overwritten, Destination, Surface, Screen, Picture
  <1>5. ASSUME NEW x \in 0 .. SurfaceWidth - 1, NEW y \in 0 .. SurfaceHeight - 1
        PROVE  fb'[At(RotationNeededByFb, x, y)] =
                 IF Covers(Head(todo), x, y) THEN Cell("frame", x, y)
                                             ELSE fb[At(RotationNeededByFb, x, y)]
    <2> DEFINE at == At(RotationNeededByFb, x, y)
    <2>1. /\ Covers(Head(todo), x, y) =>
               /\ at \in to
               /\ (CHOOSE p \in pairs : p[1] = at)[2] = (y + 0) * SourcePitch + x + 0
          /\ ~Covers(Head(todo), x, y) => at \notin to
      BY <1>2, <1>3, CopyResult
    <2>2. (y + 0) * SourcePitch + x + 0 = y * SourcePitch + x
      BY FrameAssumption
    <2>3. FromSurface(y * SourcePitch + x) = Cell("frame", x, y)
      BY Sizes, PictureShows DEF FromSurface
    <2>4. at \in Memory
      BY SurfaceInMemory DEF IndInv, Sound
    <2> HIDE DEF to, pairs, at
    <2>5. fb'[at] = IF at \in to THEN FromSurface((CHOOSE p \in pairs : p[1] = at)[2]) ELSE fb[at]
      BY <1>4, <2>4
    <2> QED
      BY <2>1, <2>2, <2>3, <2>5 DEF at
  <1>6. Sound'
    BY <1>1, SamePath DEF IndInv, Sound, OnSurface
  <1>7. HeadInPlace'
    BY <1>1, <1>5, SamePath DEF HeadInPlace, InPlace
  <1>8. FrameInPlace'
    BY <1>1, <1>5, SamePath DEF IndInv, FrameInPlace, Running, Touched
  <1>9. OnlyScreenWritten'
    <2>1. \A a \in to : OnScreen(a)
      BY <1>2, <1>3, CopyOnScreen
    <2> HIDE DEF to, pairs
    <2>2. \A a \in Memory : a \notin to => fb'[a] = fb[a]
      BY <1>4
    <2> QED
      BY <2>1, <2>2, OverwritingKeeps DEF IndInv
  <1>10. HostShowsFrame'
    BY <1>1, SamePath DEF IndInv, HostShowsFrame, Running, Touched
  <1>11. BugcheckInPlace'
    BY <1>1 DEF BugcheckInPlace, NoRect, Rect
  <1> QED
    BY <1>6, <1>7, <1>8, <1>9, <1>10, <1>11 DEF IndInv

LEMMA InvalidateKeeps ==
    ASSUME IndInv, InvalidateRegion
    PROVE  IndInv'
  <1>1. /\ UNCHANGED <<rotation, rotate, drawn, fb, screen, bug>>
        /\ todo # <<>> /\ copied /\ todo' = Tail(todo) /\ copied' = FALSE
        /\ reports' = reports \union {Head(todo)} /\ bug = NoRect
    BY DEF InvalidateRegion, Running
  <1>2. /\ todo' \in Seq(Rects)
        /\ \A i \in DOMAIN todo' : i + 1 \in DOMAIN todo /\ todo'[i] = todo[i + 1]
        /\ \A i \in DOMAIN todo : i = 1 \/ (i - 1 \in DOMAIN todo' /\ todo'[i - 1] = todo[i])
        /\ Head(todo) = todo[1]
    BY <1>1 DEF IndInv, Sound, OnSurface
  <1>3. ASSUME NEW x, NEW y, Touched(todo, x, y), ~Covers(Head(todo), x, y)
        PROVE  Touched(todo', x, y)
    BY <1>2, <1>3 DEF Touched
  <1>4. Sound'
    BY <1>1, <1>2, SamePath DEF IndInv, Sound, OnSurface
  <1>5. HeadInPlace'
    BY <1>1 DEF HeadInPlace
  <1>6. FrameInPlace'
    <2> SUFFICES ASSUME NEW x \in 0 .. SurfaceWidth - 1, NEW y \in 0 .. SurfaceHeight - 1,
                        ~Touched(drawn, x, y), ~Touched(todo, x, y)'
                 PROVE  InPlace(x, y)
      BY <1>1, SamePath DEF FrameInPlace, InPlace, Touched
    <2>1. CASE Covers(Head(todo), x, y)
      BY <1>1, <2>1 DEF IndInv, HeadInPlace
    <2>2. CASE ~Covers(Head(todo), x, y)
      BY <1>1, <1>3, <2>2 DEF IndInv, FrameInPlace, Running, InPlace
    <2> QED
      BY <2>1, <2>2
  <1>7. OnlyScreenWritten'
    BY <1>1 DEF IndInv, OnlyScreenWritten
  <1>8. HostShowsFrame'
    <2> SUFFICES ASSUME RotationNeededByFb = "identity",
                        NEW x \in 0 .. Width - 1, NEW y \in 0 .. Height - 1,
                        ~Touched(drawn, x, y), ~Touched(todo, x, y)',
                        ~ \E s \in reports' : Covers(s, x, y)
                 PROVE  screen[<<x, y>>] = Cell("frame", x, y)
      BY <1>1, SamePath DEF HostShowsFrame, Touched
    <2>1. ~Covers(Head(todo), x, y) /\ ~ \E s \in reports : Covers(s, x, y)
      BY <1>1
    <2>2. ~Touched(todo, x, y)
      BY <1>3, <2>1
    <2> QED
      BY <1>1, <2>1, <2>2 DEF IndInv, HostShowsFrame, Running
  <1>9. BugcheckInPlace'
    BY <1>1 DEF BugcheckInPlace, NoRect, Rect
  <1> QED
    BY <1>4, <1>5, <1>6, <1>7, <1>8, <1>9 DEF IndInv

LEMMA RefreshKeeps ==
    ASSUME IndInv, NEW r \in reports, HostRefreshes(r)
    PROVE  IndInv'
  <1>1. /\ UNCHANGED <<rotation, rotate, drawn, todo, copied, fb, bug>>
        /\ reports' = reports \ {r} /\ bug = NoRect /\ DOMAIN screen' = DOMAIN screen
    BY DEF HostRefreshes, Running
  <1>2. Sound'
    BY <1>1, SamePath DEF IndInv, Sound, OnSurface
  <1>3. HeadInPlace'
    BY <1>1, SamePath DEF IndInv, HeadInPlace, InPlace
  <1>4. FrameInPlace'
    BY <1>1, SamePath DEF IndInv, FrameInPlace, Running, Touched
  <1>5. OnlyScreenWritten'
    BY <1>1 DEF IndInv, OnlyScreenWritten
  <1>6. HostShowsFrame'
    <2> SUFFICES ASSUME RotationNeededByFb = "identity",
                        NEW x \in 0 .. Width - 1, NEW y \in 0 .. Height - 1,
                        ~Touched(drawn, x, y), ~Touched(todo, x, y),
                        ~ \E s \in reports' : Covers(s, x, y)
                 PROVE  screen'[<<x, y>>] = Cell("frame", x, y)
      BY <1>1, SamePath DEF HostShowsFrame, Touched
    <2>1. <<x, y>> \in DOMAIN screen
      BY DEF IndInv, Sound
    <2>2. screen'[<<x, y>>] = IF Covers(r, x, y) THEN fb[y * Pitch + x] ELSE screen[<<x, y>>]
      BY <2>1 DEF HostRefreshes
    <2>3. CASE Covers(r, x, y)
      <3>1. /\ x \in 0 .. SurfaceWidth - 1 /\ y \in 0 .. SurfaceHeight - 1
            /\ At(RotationNeededByFb, x, y) = y * Pitch + x
        BY DEF SurfaceWidth, SurfaceHeight, Swaps, At, Turned
      <3> QED
        BY <1>1, <2>2, <2>3, <3>1 DEF IndInv, FrameInPlace, Running
    <2>4. CASE ~Covers(r, x, y)
      <3>1. ~ \E s \in reports : Covers(s, x, y)
        BY <1>1, <2>4
      <3> QED
        BY <1>1, <2>2, <2>4, <3>1 DEF IndInv, HostShowsFrame, Running
    <2> QED
      BY <2>3, <2>4
  <1>7. BugcheckInPlace'
    BY <1>1 DEF BugcheckInPlace, NoRect, Rect
  <1> QED
    BY <1>2, <1>3, <1>4, <1>5, <1>6, <1>7 DEF IndInv

LEMMA BugcheckKeeps ==
    ASSUME IndInv, NEW r \in RectsIn(SystemWidth, SystemHeight), SystemDisplayWrite(r)
    PROVE  IndInv'
  <1>1. /\ UNCHANGED <<rotation, rotate, drawn>> /\ todo' = <<>> /\ copied' = FALSE
        /\ bug' = r /\ DOMAIN screen' = DOMAIN screen
    BY DEF SystemDisplayWrite
  <1>2. /\ rotation \in Rotations
        /\ SystemWidth = TurnedWidth(rotation) /\ SystemHeight = TurnedHeight(rotation)
    BY SurfaceTurned DEF IndInv, Sound
  <1>3. r \in Rects /\ Ordered(r, TurnedWidth(rotation), TurnedHeight(rotation)) /\ r # NoRect
    BY <1>2, Sizes, RectsAreOrdered
  <1> DEFINE w == r.right - r.left
             h == r.bottom - r.top
             FromBug(a) == InPicture("bug", a, SourcePitch, w, h)
  <1>5. PICK ox \in Int, oy \in Int : ox = -r.left /\ oy = -r.top
    BY <1>3 DEF Rects
  <1> DEFINE pairs == BltBits(Screen(rotation), Picture(ox, oy, w, h), r)
             to == {p[1] : p \in pairs}
  <1>4. fb' = [a \in Memory |->
                 IF a \in to THEN FromBug((CHOOSE p \in pairs : p[1] = a)[2]) ELSE fb[a]]
    BY <1>5 DEF SystemDisplayWrite, Overwritten, SystemDestination, SystemSource, Screen, Picture
  <1>6. ~Running'
    BY <1>1, <1>3 DEF Running
  <1>7. Sound'
    BY <1>1, SamePath DEF IndInv, Sound, OnSurface
  <1>8. HeadInPlace' /\ FrameInPlace' /\ HostShowsFrame'
    BY <1>1, <1>6 DEF HeadInPlace, FrameInPlace, HostShowsFrame
  <1>9. OnlyScreenWritten'
    <2> HIDE DEF FromBug, w, h
    <2>1. \A a \in to : OnScreen(a)
      BY <1>2, <1>3, CopyOnScreen
    <2> HIDE DEF to, pairs
    <2>2. \A a \in Memory : a \notin to => fb'[a] = fb[a]
      BY <1>4
    <2> QED
      BY <2>1, <2>2, OverwritingKeeps DEF IndInv
  <1>10. BugcheckInPlace'
    <2> SUFFICES ASSUME NEW x \in r.left .. r.right - 1, NEW y \in r.top .. r.bottom - 1
                 PROVE  fb'[At(rotation, x, y)] = Cell("bug", x - r.left, y - r.top)
      BY <1>1, SamePath DEF BugcheckInPlace
    <2>1. /\ x \in 0 .. TurnedWidth(rotation) - 1 /\ y \in 0 .. TurnedHeight(rotation) - 1
          /\ Covers(r, x, y)
      BY <1>3, FrameAssumption DEF Ordered, Rects, TurnedWidth, TurnedHeight, Covers
    <2> DEFINE at == At(rotation, x, y)
    <2>2. at \in to /\ (CHOOSE p \in pairs : p[1] = at)[2]
                          = (y + oy) * SourcePitch + x + ox
      <3> HIDE DEF FromBug, w, h
      <3> QED
        BY <1>2, <1>3, <2>1, CopyResult
    <2>3. (y + oy) * SourcePitch + x + ox = (y - r.top) * SourcePitch + (x - r.left)
      BY <1>3, <1>5, FrameAssumption DEF Rects
    <2>4. /\ x - r.left \in 0 .. w - 1 /\ y - r.top \in 0 .. h - 1
          /\ w \in Nat /\ h \in Nat /\ w <= SourcePitch
      <3>1. TurnedWidth(rotation) \in Nat /\ TurnedWidth(rotation) <= SourcePitch
        BY <1>2, Sizes
      <3>2. SourcePitch \in Nat
        BY FrameAssumption
      <3> QED
        BY <1>3, <3>1, <3>2 DEF Ordered, Rects
    <2>5. FromBug((y - r.top) * SourcePitch + (x - r.left)) = Cell("bug", x - r.left, y - r.top)
      <3> HIDE DEF w, h
      <3> QED
        BY <2>4, PictureShows
    <2>6. at \in Memory
      BY <1>2, <2>1, AtOnScreen
    <2> HIDE DEF FromBug, to, pairs, at
    <2>7. fb'[at] = FromBug((CHOOSE p \in pairs : p[1] = at)[2])
      BY <1>4, <2>2, <2>6
    <2> QED
      BY <2>2, <2>3, <2>5, <2>7 DEF at
  <1> QED
    BY <1>7, <1>8, <1>9, <1>10 DEF IndInv

LEMMA StutterKeeps ==
    ASSUME IndInv, UNCHANGED vars
    PROVE  IndInv'
  <1>1. UNCHANGED <<rotation, rotate, drawn, todo, copied, fb, reports, screen, bug>>
    BY DEF vars
  <1>2. Sound'
    BY <1>1, SamePath DEF IndInv, Sound, OnSurface
  <1>3. HeadInPlace'
    BY <1>1, SamePath DEF IndInv, HeadInPlace, InPlace
  <1>4. FrameInPlace'
    BY <1>1, SamePath DEF IndInv, FrameInPlace, Running, Touched
  <1>5. OnlyScreenWritten'
    BY <1>1 DEF IndInv, OnlyScreenWritten
  <1>6. HostShowsFrame'
    BY <1>1, SamePath DEF IndInv, HostShowsFrame, Running, Touched
  <1>7. BugcheckInPlace'
    BY <1>1, SamePath DEF IndInv, BugcheckInPlace
  <1> QED
    BY <1>2, <1>3, <1>4, <1>5, <1>6, <1>7 DEF IndInv

LEMMA NextKeepsIndInv ==
    ASSUME IndInv, [Next]_vars
    PROVE  IndInv'
  BY DrawKeeps, PathKeeps, PresentKeeps, CopyRectKeeps, InvalidateKeeps, RefreshKeeps,
     BugcheckKeeps, StutterKeeps DEF Next

LEMMA IndInvHolds == Spec => []IndInv
  BY InitIndInv, NextKeepsIndInv, PTL DEF Spec

-----------------------------------------------------------------------------
\* Presents and the bugcheck write to pixels of the screen and to nothing else
\* around the framebuffer.
THEOREM StaysOnScreen == Spec => []OnlyScreenWritten
  <1>1. IndInv => OnlyScreenWritten
    BY DEF IndInv
  <1> QED
    BY <1>1, IndInvHolds, PTL

\* Whatever is drawn, presented and turned, every pixel that is not waiting to
\* be copied is in its place in the framebuffer.
THEOREM PresentsArrive == Spec => []FrameInPlace
  <1>1. IndInv => FrameInPlace
    BY DEF IndInv
  <1> QED
    BY <1>1, IndInvHolds, PTL

\* The host shows what Windows drew, if the copy does not rotate.
THEOREM HostUpToDate == Spec => []HostShowsFrame
  <1>1. IndInv => HostShowsFrame
    BY DEF IndInv
  <1> QED
    BY <1>1, IndInvHolds, PTL

\* The bugcheck's picture is where Windows wants it.
THEOREM BugcheckArrives == Spec => []BugcheckInPlace
  <1>1. IndInv => BugcheckInPlace
    BY DEF IndInv
  <1> QED
    BY <1>1, IndInvHolds, PTL

\* Whichever corners name a rectangle, it is turned.
LEMMA RectTurned ==
    ASSUME NEW turned \in Rotations, NEW w, NEW h,
           NEW r \in Rects, r.left <= r.right, r.top <= r.bottom
    PROVE  CopyTurns(turned, r, w, h)
  <1> SUFFICES ASSUME NEW s \in Named(r)
               PROVE  BltBits(Screen(turned), Picture(0, 0, w, h), s)
                        = {<<At(turned, x, y), y * SourcePitch + x>> :
                             x \in r.left .. r.right - 1, y \in r.top .. r.bottom - 1}
    BY DEF CopyTurns, Screen, Picture
  <1>1. copy_rect(s) = r
    <2>1. CASE s = r
      BY <2>1, CopyRectOrdered
    <2>2. CASE s = [r EXCEPT !.left = r.right, !.right = r.left]
      BY <2>2 DEF copy_rect, Rects
    <2>3. CASE s = [r EXCEPT !.top = r.bottom, !.bottom = r.top]
      BY <2>3 DEF copy_rect, Rects
    <2> QED
      BY <2>1, <2>2, <2>3 DEF Named
  <1>2. BltBits(Screen(turned), Picture(0, 0, w, h), s) = Copies(turned, r, 0, 0)
    <2>1. \A ox, oy \in Int :
            BltBits(Screen(turned), Picture(ox, oy, w, h), s) = Copies(turned, r, ox, oy)
      BY <1>1, BltIsTurn
    <2> QED
      BY <2>1
  <1>3. \A x \in r.left .. r.right - 1, y \in r.top .. r.bottom - 1 :
          (y + 0) * SourcePitch + x + 0 = y * SourcePitch + x
    BY FrameAssumption DEF Rects
  <1> QED
    BY <1>2, <1>3 DEF Copies

\* BltBits turns every rectangle of a present, in each of the four rotations
\* and whichever corners name it.
THEOREM CopiesAreTurns == Spec => []CopiesTurn
  <1>1. ASSUME IndInv
        PROVE  CopiesTurn
    <2>1. ASSUME NEW i \in DOMAIN todo
          PROVE  todo[i] \in Rects /\ todo[i].left <= todo[i].right /\ todo[i].top <= todo[i].bottom
      BY <1>1 DEF IndInv, Sound, OnSurface, Ordered
    <2>2. ASSUME NEW turned \in Rotations, NEW i \in DOMAIN todo, NEW w, NEW h
          PROVE  CopyTurns(turned, todo[i], w, h)
      BY <2>1, RectTurned
    <2> QED
      BY <2>2 DEF CopiesTurn
  <1> QED
    BY <1>1, IndInvHolds, PTL
=============================================================================
