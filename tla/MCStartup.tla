------------------------------ MODULE MCStartup ------------------------------
(* One panel from reset to the loop, small instance for TLC.                 *)
EXTENDS Startup

MCNumLeds == <<16, 4>>
MCRingCmds ==
    {[r |-> 200, g |-> 10, b |-> Keep, brightness |-> Keep],
     [r |-> Keep, g |-> Keep, b |-> Keep, brightness |-> 128],
     [r |-> 256, g |-> 0, b |-> 0, brightness |-> Keep]}
=============================================================================
