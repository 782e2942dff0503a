------------------------------- MODULE Startup -------------------------------
(***************************************************************************)
(* main.c from reset to the super-loop: the rings are darkened, net_init   *)
(* configures the CH9120, the status LED blinks the address it read, and   *)
(* the loop serves LED and rings.  RESET, or the watchdog, may come at any *)
(* moment and leads to the app again or to recovery, which takes the       *)
(* CH9120 as it is.                                                        *)
(*                                                                         *)
(* Lines, buttons and events are PanelLoop's subject, what the boot chain  *)
(* does with a confirmation Bootloader's.                                  *)
(***************************************************************************)
EXTENDS NetConfig, StatusLed, Rings

CONSTANT MaxResets     \* bound

ASSUME StartupAssumption == MaxResets \in Nat

VARIABLES
    stage,        \* "rings", "net", "loop" or "recovery"
    confirmed,    \* this start has called ota_confirm
    resets

vars == <<netVars, ledVars, readerVars, ringVars, stage, confirmed, resets>>

PowerOnGarbage == -1

Init ==
    /\ wired \in BOOLEAN /\ dhcp \in BOOLEAN /\ addr \in Octets
    /\ stored \in {{}, Settings} /\ staged = stored /\ active = stored
    /\ cfg = FALSE /\ at = 1 /\ waiting = FALSE /\ air = <<>> /\ rx = <<>>
    /\ responding = FALSE /\ mac = <<0, 0>> /\ ip = <<0, 0>>
    /\ acked = FALSE /\ slow = FALSE /\ faulty = FALSE /\ good = FALSE /\ faults = 0
    /\ LedInit /\ RingsInit(PowerOnGarbage)
    /\ stage = "rings" /\ confirmed = FALSE /\ resets = 0

\* rings_flush before the network comes up, then net_init from its reset pulse.
BootFlush ==
    /\ stage = "rings" /\ Flush
    /\ UNCHANGED <<netVars, ledVars, readerVars, stage, confirmed, resets>>

StartNet ==
    /\ stage = "rings" /\ turn = RINGS + 1
    /\ stage' = "net" /\ turn' = 1 /\ NetStart
    /\ UNCHANGED <<ledVars, readerVars, st, dirty, wire, confirmed, resets>>

NetStep ==
    /\ stage = "net" /\ NetInit
    /\ UNCHANGED <<ledVars, readerVars, ringVars, stage, confirmed, resets>>

NetWire ==
    /\ stage = "net" /\ (Arrive \/ Garbage)
    /\ UNCHANGED <<ledVars, readerVars, ringVars, stage, confirmed, resets>>

\* status_led_show_octet(st.ip[3]) and ota_confirm; net_init took seconds.
EnterLoop ==
    /\ stage = "net" /\ InDataMode
    /\ stage' = "loop" /\ confirmed' = responding
    /\ LedShow(ip[2])
    /\ wire' = [i \in Ring |-> Wait(wire[i], 1000 * TickSleep)]
    /\ UNCHANGED <<netVars, st, dirty, turn, resets>>

LoopLed ==
    /\ stage = "loop" /\ turn = 1 /\ LedTask
    /\ UNCHANGED <<netVars, ringVars, stage, confirmed, resets>>

\* A pass that has nothing to push changes nothing and is left out.  Bound: colour
\* commands come only where net_init met no fault, which is nothing to them.
LoopRings ==
    /\ stage = "loop"
    /\ \/ ~faulty /\ \E i \in Ring, c \in RingCmds : Set(i, c)
       \/ (turn = 1 => \E i \in Ring : dirty[i]) /\ Flush
       \/ NextPass
    /\ UNCHANGED <<netVars, ledVars, readerVars, stage, confirmed, resets>>

\* The RP2040 restarts; the CH9120 and the LEDs keep their power.  The way through
\* the bootloader is long against every LED timing.
Reset ==
    /\ resets < MaxResets /\ resets' = resets + 1
    /\ confirmed' = FALSE
    /\ \/ /\ stage' = "rings"
          /\ RingsRestart
          /\ UNCHANGED <<netVars, ledVars, readerVars>>
       \/ /\ stage' = "recovery" /\ Attach
          /\ UNCHANGED <<ledVars, readerVars, ringVars>>

Next ==
    \/ BootFlush \/ StartNet \/ NetStep \/ NetWire \/ EnterLoop
    \/ LoopLed \/ LoopRings \/ Reset
    \* Recovery runs until somebody pushes an image and resets.
    \/ stage = "recovery" /\ UNCHANGED vars

Spec == Init /\ [][Next]_vars
\* The processor runs, bytes on their way arrive, and the loop calls
\* status_led_task in every pass.
FairSpec ==
    /\ Spec
    /\ WF_vars(BootFlush \/ StartNet \/ NetStep \/ EnterLoop)
    /\ WF_vars(stage = "net" /\ Arrive /\ NetWire)
    /\ WF_vars(LoopRings) /\ SF_vars(LoopLed)
-----------------------------------------------------------------------------
TypeOK ==
    /\ LedTypeOK /\ RingTypeOK
    /\ staged \subseteq Settings /\ stored \subseteq Settings
    /\ active \subseteq Settings
    /\ at \in 1..Len(Script) + 2
    /\ Len(rx) <= 2 * MaxFaults + 2 /\ Len(air) <= 2 * MaxFaults + 2
    /\ Len(mac) = 2 /\ Len(ip) = 2
    /\ stage \in {"rings", "net", "loop", "recovery"}

\* Whatever gets lost on the way to the CH9120, and wherever a reset cuts
\* net_init short: a chip that was configured once stays so, and recovery, which
\* trusts it, finds it at the data baud rate (docs/OTA.md, recovery is fast).
StaysConfigured == good => stored = Settings /\ active = Settings

\* Without a fault the whole configuration is in force when the loop starts, and
\* the image is confirmed.
CleanStartWorks ==
    stage = "loop" /\ wired /\ ~faulty => active = Settings /\ confirmed

\* An image is confirmed only if the chip took a command of this very start: no
\* late answer and no garbage stands in for that (main.c:203-207).
ConfirmedIsAnswered == confirmed => wired /\ acked

\* Whoever reads the status LED reads the address the chip had when it was asked,
\* digit by digit, zeros included, or 0 where the asking failed (status_led.h:4-9).
\* An answer that comes too late is not told from the one awaited, whose result
\* net_init does not look at (net.c:115, 225): then the number may be an octet of
\* the MAC or of the network, but never anything else.
Astray == {Mac[1], Mac[2], Network}
LedTellsAddress ==
    stage = "loop" /\ reading # Unread =>
        Value(reading) \in IF wired /\ ~faulty THEN {addr}
                          ELSE {addr, 0} \cup (IF slow THEN Astray ELSE {})

\* net_init always comes to an end, with a chip that answers or without, and then
\* the address is shown.
AddressShown == <>[](stage = "recovery" \/ reading # Unread)
=============================================================================
