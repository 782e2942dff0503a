---------------------------- MODULE MCPanelLoop ----------------------------
(* Connections one after the other, and a few kinds of line. *)
EXTENDS PanelLoop

\* A colour command that leaves most fields alone, one out of range, an
\* overlong line whose rest would be a command, and the trigger.
MCLines == {<<Verb("ring"), Value("id", 1), Value("r", 9)>>,
            <<Value("id", 1), Value("r", 256), Verb("ring")>>,
            <<Value("id", 2), Value("id", 2), Value("id", 2), Verb("lamp"),
              Value("on", 1)>>,
            <<Verb("ota")>>}
=============================================================================
