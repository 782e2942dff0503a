---------------------------- MODULE MCOtaTransfer ----------------------------
(* One host flashing one panel, small instance for TLC. *)
EXTENDS OtaTransfer, TLC

CONSTANTS old, new

MCImage == {old, new}
MCSize == (old :> 2) @@ (new :> 2)
MCFactory == {old}

\* What a host that was pushing the old image may have sent before it stopped.
MCOthers == {Sync, Trigger, EndCmd, GoCmd, BegnFor(old),
             DataFor(old, 1), DataFor(old, 2)}
=============================================================================
