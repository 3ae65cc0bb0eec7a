------------------------------ MODULE MCModes --------------------------------
(* The base list of PVChild.h and sizes a host may ask for: one of it, one *)
(* between two of its entries, one that is high, one that is bigger than   *)
(* all of it and one that is wider than a 4K framebuffer.                  *)
EXTENDS Modes

D(w, h) == [width |-> w, height |-> h]

MCBase == <<D(640, 480), D(800, 600), D(1024, 768), D(1280, 1024), D(1680, 1050)>>
MCRequests == {D(1024, 768), D(1280, 720), D(1200, 1400), D(1920, 1080), D(5120, 1440)}
MCHD == D(1920, 1200)
MCFourK == D(3840, 2160)
MCDefault == D(1024, 768)
=============================================================================
