------------------------------ MODULE NetConfig ------------------------------
(***************************************************************************)
(* net_init: the CH9120 is configured over the UART, one command and one   *)
(* answer at a time, and asked for its address.  Commands and answers get  *)
(* lost, answers come after their timeout and are taken for the next one's.*)
(*                                                                         *)
(* Of a setting only counts whether the chip holds the value of config.h.  *)
(* The four octets of the address are shortened to the network's and the   *)
(* host's, the MAC to two bytes.                                           *)
(***************************************************************************)
EXTENDS Integers, SequencesExt

CONSTANTS
    Octets,       \* host octets the chip may have, by lease or setting
    MaxFaults     \* bound

ACK == 170        \* what the chip acknowledges with, and garbage may look like
Mac == <<2, 31>>
Network == 10

ASSUME NetAssumption == Octets \subseteq 1..255 /\ MaxFaults \in Nat

VARIABLES
    wired,                    \* the chip answers at all
    dhcp,                     \* NET_USE_DHCP of this build
    staged, stored, active,   \* settings: received, in EEPROM, in force
    addr,                     \* the host octet the chip has
    cfg,                      \* CFG is low
    at, waiting,              \* the step of net_init; its answer is awaited
    air, rx,                  \* bytes on their way; in the UART's FIFO
    responding, mac, ip,      \* s_status
    acked, slow, faulty,      \* history of this net_init: the chip took MODE; an
                              \* answer came late; anything went wrong
    good,                     \* history: some net_init went right
    faults

chip == <<wired, dhcp, staged, stored, active, addr>>
status == <<responding, mac, ip>>
uart == <<cfg, air, rx>>
history == <<acked, slow, faulty, good, faults>>
netVars == <<chip, uart, at, waiting, status, history>>

Static == {"IP", "SUBNET", "GATEWAY"}
Settings == {"MODE", "DHCP", "PORT", "BAUD"} \cup (IF dhcp THEN {} ELSE Static)

\* Bug: executed before it is saved.
ScriptSavedLast ==
    IF dhcp
    THEN <<"enter", "MODE", "DHCP", "PORT", "BAUD", "EXEC", "SAVE", "exit",
           "enter", "READ_MAC", "READ_IP", "exit">>
    ELSE <<"enter", "MODE", "DHCP", "PORT", "IP", "SUBNET", "GATEWAY", "BAUD",
           "EXEC", "SAVE", "exit", "enter", "READ_MAC", "READ_IP", "exit">>
\* Bug: the addresses go to the chip in the wrong mode.
ScriptInverted ==
    IF ~dhcp
    THEN <<"enter", "MODE", "DHCP", "PORT", "BAUD", "SAVE", "EXEC", "exit",
           "enter", "READ_MAC", "READ_IP", "exit">>
    ELSE <<"enter", "MODE", "DHCP", "PORT", "IP", "SUBNET", "GATEWAY", "BAUD",
           "SAVE", "EXEC", "exit", "enter", "READ_MAC", "READ_IP", "exit">>
\* net_init with commit, a fixed sequence.
Script ==
    IF dhcp
    THEN <<"enter", "MODE", "DHCP", "PORT", "BAUD", "SAVE", "EXEC", "exit",
           "enter", "READ_MAC", "READ_IP", "exit">>
    ELSE <<"enter", "MODE", "DHCP", "PORT", "IP", "SUBNET", "GATEWAY", "BAUD",
           "SAVE", "EXEC", "exit", "enter", "READ_MAC", "READ_IP", "exit">>

Step == Script[at]
Finished == at > Len(Script)
IsCommand == ~Finished /\ Step \notin {"enter", "exit"}
Expected == IF Step \in {"READ_MAC", "READ_IP"} THEN 2 ELSE 1

Reply == CASE Step = "READ_MAC" -> Mac
           [] Step = "READ_IP" -> <<Network, addr>>
           [] OTHER -> <<ACK>>

\* The reset pulse: the chip starts from its EEPROM, pending answers are gone.
NetStart ==
    /\ active' = stored /\ staged' = stored
    /\ addr' \in Octets
    /\ at' = 1 /\ waiting' = FALSE /\ cfg' = FALSE /\ air' = <<>>
    /\ rx' = <<>>
    /\ responding' = FALSE /\ mac' = <<0, 0>> /\ ip' = <<0, 0>>
    /\ acked' = FALSE /\ slow' = FALSE /\ faulty' = FALSE
    /\ UNCHANGED <<wired, dhcp, stored, good, faults>>

\* net_attach_data_mode: the chip is left as it is.
Attach ==
    /\ cfg' = FALSE /\ rx' = <<>> /\ air' = <<>>
    /\ UNCHANGED <<chip, at, waiting, status, history>>

-----------------------------------------------------------------------------
(* The RP2040 *)

\* rx_flush.  Bug: not here.
KeptRx == rx
FlushedRx == <<>>

\* enter_config, after the 100 ms of the last exit_config: answers are late by
\* less than that.
Enter ==
    /\ ~Finished /\ Step = "enter" /\ air = <<>>
    /\ cfg' = TRUE /\ rx' = FlushedRx /\ at' = at + 1
    /\ UNCHANGED <<chip, air, waiting, status, history>>

Exit ==
    /\ ~Finished /\ Step = "exit"
    /\ cfg' = FALSE /\ at' = at + 1
    /\ UNCHANGED <<chip, air, rx, waiting, status, history>>

\* The chip takes a command: a setting, SAVE, or EXEC, which puts in force what it
\* has, or what it finds in its EEPROM.
Taken ==
    /\ stored' = IF Step = "SAVE" THEN staged ELSE stored
    /\ IF Step = "EXEC"
       THEN /\ active' \in {staged, stored} /\ staged' = active'
            /\ addr' \in Octets
       ELSE /\ staged' = IF Step \in Settings THEN staged \cup {Step} ELSE staged
            /\ UNCHANGED <<active, addr>>
    /\ acked' = (acked \/ Step = "MODE")
    /\ UNCHANGED <<wired, dhcp>>

\* tx_cmd, rd_cmd: flush, send.  The answer to EXEC may be lost in the reset.
Send ==
    /\ IsCommand /\ ~waiting /\ waiting' = TRUE
    /\ rx' = FlushedRx
    /\ wired /\ Taken
    /\ air' \in {air \o Reply} \cup (IF Step = "EXEC" THEN {<<>>} ELSE {})
    /\ UNCHANGED <<cfg, at, status, slow, faulty, good, faults>>

SendInVain ==
    /\ IsCommand /\ ~waiting /\ waiting' = TRUE
    /\ rx' = FlushedRx
    /\ ~wired
    /\ UNCHANGED <<cfg, air, at, status, chip, history>>

\* The command does not get through, or its answer does not.
SendLossy ==
    /\ IsCommand /\ ~waiting /\ waiting' = TRUE
    /\ wired /\ faults < MaxFaults /\ faults' = faults + 1 /\ faulty' = TRUE
    /\ rx' = FlushedRx
    /\ \/ UNCHANGED <<chip, acked>>
       \/ Taken
    /\ UNCHANGED <<cfg, air, at, status, slow, good>>

\* What the caller does with the bytes it got, all of them or fewer.
IsAck(bytes) == bytes = <<ACK>>
Padded(bytes) == bytes \o SubSeq(<<0, 0>>, 1, 2 - Len(bytes))

Answered(bytes) ==
    /\ waiting' = FALSE /\ at' = at + 1
    /\ responding' = IF Step = "MODE" THEN IsAck(bytes) ELSE responding
    /\ mac' = IF Step = "READ_MAC" THEN Padded(bytes) ELSE mac
    /\ ip' = IF Step = "READ_IP" THEN Padded(bytes) ELSE ip

\* rx_bytes got what it waited for ...
Receive ==
    /\ waiting /\ Len(rx) >= Expected
    /\ Answered(SubSeq(rx, 1, Expected))
    /\ rx' = SubSeq(rx, Expected + 1, Len(rx))
    /\ UNCHANGED <<chip, cfg, air, history>>

\* ... or waited in vain ...
\* Bug: the command is sent again until it is answered.
TimeOutRetries ==
    /\ waiting /\ Len(rx) < Expected /\ air = <<>>
    /\ waiting' = FALSE /\ rx' = <<>>
    /\ UNCHANGED <<chip, cfg, air, at, status, history>>
TimeOut ==
    /\ waiting /\ Len(rx) < Expected /\ air = <<>>
    /\ Answered(rx) /\ rx' = <<>>
    /\ UNCHANGED <<chip, cfg, air, history>>

\* ... or gave up on an answer that then still comes.
TimeOutEarly ==
    /\ waiting /\ Len(rx) < Expected /\ air # <<>>
    /\ faults < MaxFaults /\ faults' = faults + 1 /\ slow' = TRUE /\ faulty' = TRUE
    /\ Answered(rx) /\ rx' = <<>>
    /\ UNCHANGED <<chip, cfg, air, acked, good>>

\* The data baud rate, a flush, and the interrupt takes over.
ToDataMode ==
    /\ at = Len(Script) + 1 /\ air = <<>>
    /\ at' = at + 1 /\ rx' = FlushedRx
    /\ good' = (good \/ (wired /\ ~faulty))
    /\ UNCHANGED <<chip, cfg, air, waiting, status, acked, slow, faulty, faults>>

-----------------------------------------------------------------------------
(* The wire *)

Arrive ==
    /\ air # <<>> /\ air' = Tail(air) /\ rx' = Append(rx, Head(air))
    /\ UNCHANGED <<chip, cfg, at, waiting, status, history>>

\* A client of a chip that was configured before: at the wrong rate, garbage.
Garbage ==
    /\ ~cfg /\ "BAUD" \in active /\ at <= Len(Script) + 1 /\ rx = <<>>
    /\ rx' = <<ACK>>
    /\ UNCHANGED <<chip, cfg, air, at, waiting, status, history>>

NetInit ==
    Enter \/ Exit \/ Send \/ SendInVain \/ SendLossy \/ Receive \/ TimeOut
    \/ TimeOutEarly \/ ToDataMode
-----------------------------------------------------------------------------
InDataMode == at = Len(Script) + 2
=============================================================================
