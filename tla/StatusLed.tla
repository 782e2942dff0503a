------------------------------ MODULE StatusLed ------------------------------
(***************************************************************************)
(* status_led.c: an address's last octet blinked out digit by digit, and   *)
(* somebody who reads it off the light alone.                              *)
(*                                                                         *)
(* status_led_task is called again and again; the calls that find s_next   *)
(* not reached yet change nothing and are left out, the one that finds it  *)
(* reached comes late by any of `Lateness'.  Times are in milliseconds.    *)
(***************************************************************************)
EXTENDS Integers, SequencesExt

CONSTANTS
    Lateness,    \* by how much a call may come after s_next
    Unread       \* nothing has been read yet

PulseOn == 180
PulseOff == 220
ZeroOn == 600
DigitGap == 700
RepeatGap == 2200

\* How the reader tells them apart: a long pulse is a zero, a longer pause ends a
\* digit, a very long one the number.
LongPulse == 390
NewDigit == 460
NewNumber == 1900

ASSUME LatenessAssumption ==
    \A d \in Lateness : /\ d \in Nat
                        /\ PulseOn + d < LongPulse /\ PulseOff + d < NewDigit
                        /\ DigitGap + d < NewNumber

VARIABLES
    digits, di,           \* s_digits, s_di
    pulses_done, phase,
    next,                 \* how long the phase is to last
    dark,                 \* reader: how long the light has been off
    count,                \* reader: pulses of this digit
    number,               \* reader: digits of this number before that
    reading               \* the last number read

ledVars == <<digits, di, pulses_done, phase, next>>
readerVars == <<dark, count, number, reading>>

\* Decimal digits, no leading zeros.
\* Bug: zeros are dropped wherever they stand.
DigitsNoZeros(octet) ==
    IF octet >= 10 THEN SelectSeq(<<octet \div 100, (octet \div 10) % 10, octet % 10>>,
                                  LAMBDA d : d # 0)
    ELSE <<octet>>
DigitsOf(octet) ==
    IF octet >= 100 THEN <<octet \div 100, (octet \div 10) % 10, octet % 10>>
    ELSE IF octet >= 10 THEN <<octet \div 10, octet % 10>>
    ELSE <<octet>>

\* A zero is one long pulse.
TargetOfDigit(d) == IF d = 0 THEN 1 ELSE d
FirstPulse(d) == IF d = 0 THEN ZeroOn ELSE PulseOn

\* Before status_led_show_octet the machine is at rest, all zeros.
LedInit ==
    /\ digits = <<0>> /\ di = 1 /\ pulses_done = 0
    /\ phase = "pulse_on" /\ next = 0
    /\ dark = 0 /\ count = 0 /\ number = <<>> /\ reading = Unread

\* status_led_show_octet, begin_digit(0); the reader begins with the first pulse.
LedShow(octet) ==
    /\ digits' = DigitsOf(octet) /\ di' = 1 /\ pulses_done' = 0
    /\ phase' = "pulse_on" /\ next' = FirstPulse(DigitsOf(octet)[1])
    /\ dark' = 0 /\ count' = 0 /\ number' = <<>> /\ reading' = Unread

BeginDigit(i) ==
    /\ di' = i /\ pulses_done' = 0
    /\ phase' = "pulse_on" /\ next' = FirstPulse(digits[i])

\* What the reader makes of a pulse and of a pause.
SeesPulse(t) ==
    /\ dark' = 0
    /\ count' = IF t >= LongPulse THEN 0 ELSE count + 1
    /\ UNCHANGED <<number, reading>>
SeesPause(t) ==
    /\ dark' = 0
    /\ IF t < NewDigit THEN UNCHANGED <<count, number, reading>>
       ELSE /\ count' = 0
            /\ IF t < NewNumber
               THEN number' = Append(number, count) /\ UNCHANGED reading
               ELSE number' = <<>> /\ reading' = Append(number, count)
StaysDark(t) == dark' = dark + t /\ UNCHANGED <<count, number, reading>>

\* ST_PULSE_ON: off, and on with the digit or to the next.
LastPulse == pulses_done + 1 >= TargetOfDigit(digits[di])
EndPulse(late) ==
    /\ phase = "pulse_on"
    /\ pulses_done' = pulses_done + 1
    /\ IF LastPulse THEN phase' = "digit_gap" /\ next' = DigitGap
                    ELSE phase' = "pulse_off" /\ next' = PulseOff
    /\ UNCHANGED <<digits, di>>
    /\ SeesPulse(next + late)

\* ST_PULSE_OFF
NextPulse(late) ==
    /\ phase = "pulse_off"
    /\ phase' = "pulse_on" /\ next' = PulseOn
    /\ UNCHANGED <<digits, di, pulses_done>>
    /\ SeesPause(next + late)

\* ST_DIGIT_GAP
NextDigit(late) ==
    /\ phase = "digit_gap"
    /\ IF di + 1 > Len(digits)
       THEN /\ di' = di + 1 /\ phase' = "repeat_gap" /\ next' = RepeatGap
            /\ UNCHANGED pulses_done /\ StaysDark(next + late)
       ELSE BeginDigit(di + 1) /\ SeesPause(next + late)
    /\ UNCHANGED digits

\* ST_REPEAT_GAP
Repeat(late) ==
    /\ phase = "repeat_gap"
    /\ BeginDigit(1) /\ UNCHANGED digits
    /\ SeesPause(dark + next + late)

LedTask ==
    \E late \in Lateness :
        EndPulse(late) \/ NextPulse(late) \/ NextDigit(late) \/ Repeat(late)
-----------------------------------------------------------------------------
\* The octet that has these decimal digits; a longer number is none.
Value(ds) ==
    CASE Len(ds) = 1 -> ds[1]
      [] Len(ds) = 2 -> 10 * ds[1] + ds[2]
      [] Len(ds) = 3 -> 100 * ds[1] + 10 * ds[2] + ds[3]
      [] OTHER -> -1

LedTypeOK ==
    /\ digits \in Seq(0..9) /\ Len(digits) \in 1..3
    /\ di \in 1..Len(digits) + 1 /\ pulses_done \in 0..9
    /\ phase \in {"pulse_on", "pulse_off", "digit_gap", "repeat_gap"}
    /\ next \in {0, PulseOn, PulseOff, ZeroOn, DigitGap, RepeatGap}
    /\ count \in 0..9 /\ number \in Seq(0..9) /\ dark \in Nat
    /\ reading \in Seq(0..9) \cup {Unread}
=============================================================================
