----------------------------- MODULE ClockStart -----------------------------
(* The clock at reset (main.c, main and clock_wait_set): HSI16 runs, the PLL is   *)
(* stopped, set up and started, and the system clock is switched to it, each    *)
(* register bit waited for with a counter. g_clock_fail forbids the power stage *)
(* (pwm.c:221; DriveSafety takes it as the constant ClockFail). The hardware    *)
(* changes a bit between any two polls, late or never.                          *)
EXTENDS Integers, Bitwise

CONSTANTS
    Limit,    \* CLOCK_TIMEOUT_CYCLES
    Width,    \* 2^32: a uint32_t counts modulo Width
    PllLocks  \* FALSE: the PLL is defective

VARIABLES
    pc,         \* the wait main() is in, or where it is after the waits
    n,          \* the counter of that wait
    pllOn,      \* RCC_CR PLLON
    pllReady,   \* RCC_CR PLLRDY
    select,     \* RCC_CFGR SW, as the clock it selects
    clock,      \* RCC_CFGR SWS: the clock the system runs on
    coreClock,  \* the clock SystemCoreClock was computed from
    clockFail   \* g_clock_fail

rcc == <<pllOn, pllReady, select, clock>>
vars == <<pc, n, rcc, coreClock, clockFail>>

Waits == {"hsi", "pllOff", "pllOn", "switch"}
Clocks == {"HSI", "PLL"}

\* The SW and SWS fields of two bits; every other value is unused here.
Field(c) == IF c = "HSI" THEN 1 ELSE 3

Init ==
    /\ pc = "hsi" /\ n = Limit
    /\ pllOn = FALSE /\ pllReady = FALSE
    /\ select = "HSI" /\ clock = "HSI" /\ coreClock = "HSI"
    /\ clockFail = FALSE

-----------------------------------------------------------------------------
(* The hardware.                                                                *)

PllFollows ==
    /\ pllReady # pllOn
    /\ pllOn => PllLocks
    /\ pllReady' = pllOn
    /\ UNCHANGED <<pc, n, pllOn, select, clock, coreClock, clockFail>>

\* A switch to a clock that is not ready happens when it becomes ready.
SwitchHappens ==
    /\ clock # select
    /\ select = "PLL" => pllReady
    /\ clock' = select
    /\ UNCHANGED <<pc, n, pllOn, pllReady, select, coreClock, clockFail>>

-----------------------------------------------------------------------------
(* clock_wait_set and clock_wait_clear. Any bit of the mask ends the wait for   *)
(* SWS_PLL, both of whose bits are in the mask.                                 *)

Arrived ==
    CASE pc = "hsi"    -> TRUE
      [] pc = "pllOff" -> ~pllReady
      [] pc = "pllOn"  -> pllReady
      [] pc = "switch" -> (Field(clock) & Field("PLL")) # 0

Poll ==
    /\ pc \in Waits /\ ~Arrived /\ n # 0
    /\ n' = n - 1
    /\ UNCHANGED <<pc, rcc, coreClock, clockFail>>

\* The counter that the last poll leaves: a time-out decrements zero.
Left == IF Arrived THEN n ELSE (n - 1) % Width

\* The wait of `w` returns `failed`, and the next one, if any, starts.
WaitEnds(w, failed) ==
    /\ pc = w
    /\ Arrived \/ n = 0
    /\ failed = (Left = 0)
    /\ n' = Limit
    /\ clockFail' = (clockFail \/ (failed /\ w # "pllOff"))
    /\ UNCHANGED <<pllReady, clock, coreClock>>

HsiWaited(failed) ==
    /\ WaitEnds("hsi", failed)
    /\ pc' = "pllOff"
    /\ pllOn' = FALSE
    /\ UNCHANGED select

\* The result of this wait is not looked at.
PllStopped(failed) ==
    /\ WaitEnds("pllOff", failed)
    /\ pc' = "pllOn"
    /\ pllOn' = TRUE
    /\ UNCHANGED select

PllStarted(failed) ==
    /\ WaitEnds("pllOn", failed)
    /\ IF failed
         THEN pc' = "update" /\ pllOn' = FALSE /\ UNCHANGED select
         ELSE pc' = "switch" /\ select' = "PLL" /\ UNCHANGED pllOn

SwitchWaited(failed) ==
    /\ WaitEnds("switch", failed)
    /\ pc' = "update"
    /\ pllOn' = (pllOn /\ ~failed)
    /\ UNCHANGED select

\* SystemCoreClockUpdate, from the clock that SWS names at that moment.
CoreClockUpdate ==
    /\ pc = "update"
    /\ coreClock' = clock
    /\ pc' = "adc"
    /\ UNCHANGED <<n, rcc, clockFail>>

\* ADC_Init and ADC_InjectedInit; the rest of main() does not touch this state.
AdcInitialised(failed) ==
    /\ pc = "adc"
    /\ clockFail' = (clockFail \/ failed)
    /\ pc' = "up"
    /\ UNCHANGED <<n, rcc, coreClock>>

Boot == Poll \/ CoreClockUpdate
        \/ \E failed \in BOOLEAN :
              HsiWaited(failed) \/ PllStopped(failed) \/ PllStarted(failed)
              \/ SwitchWaited(failed) \/ AdcInitialised(failed)

Next == Boot \/ PllFollows \/ SwitchHappens

Spec == Init /\ [][Next]_vars

-----------------------------------------------------------------------------
(* What the code says of itself and does not keep.                              *)

\* "Timeout -> we stay on HSI16 (16 MHz), g_clock_fail=1 -> PWM_Enable() is
\* forbidden" (main.c:446-447): a drive that came up without the PLL refuses.
DeadPllIsReported == pc = "up" /\ ~pllReady => clockFail

\* The baud rate, the SysTick and the PWM clock are computed from the clock
\* the drive has, or the power stage is locked (main.c:668-676).
CoreClockIsTheClock == pc = "up" /\ clock # coreClock => clockFail
=============================================================================
