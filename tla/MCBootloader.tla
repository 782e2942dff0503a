---------------------------- MODULE MCBootloader ----------------------------
(* The boot chain with a good and a bad image, for TLC. *)
EXTENDS Bootloader, TLC

CONSTANTS good, bad

MCImage == {good, bad}
MCSize == (good :> 3) @@ (bad :> 2)
MCHealthy == {good}
=============================================================================
