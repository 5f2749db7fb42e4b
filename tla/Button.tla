------------------------------- MODULE Button -------------------------------
(***************************************************************************)
(* DebouncedButton (cortex-m-demo/src/button.rs) as the main loop uses it  *)
(* (cortex-m-demo/src/main.rs): an iteration reads the clock, polls the    *)
(* network and the application, then polls the button with the time it     *)
(* read; the SysTick interrupt advances the clock meanwhile.               *)
(*                                                                         *)
(* Time is kept as ages, which stop at Threshold + 1: the code compares an *)
(* age only with the threshold.                                            *)
(***************************************************************************)
EXTENDS Integers, TLAPS

CONSTANTS
  Threshold,   \* debounce_threshhold
  MaxLag       \* bound: ticks between two readings of the clock

ASSUME ButtonAssumption == Threshold \in Nat /\ MaxLag \in Nat \ {0}

VARIABLES
  pin,           \* level of the pin
  last_state,    \* level last reported
  since,         \* time - last_time, where time is the last reading of the clock
  lag,           \* ticks since that reading
  sinceReport,   \* time - the time of the last reported change
  at             \* where the main loop is

vars == <<pin, last_state, since, lag, sinceReport, at>>

State == {"High", "Low"}

Ages == 0 .. Threshold + 1

Older(age, ticks) == IF age + ticks <= Threshold THEN age + ticks ELSE Threshold + 1

\* DebouncedButton::new; nothing was reported so far.
Init ==
  /\ pin \in State /\ last_state = pin
  /\ since = 0 /\ lag = 0
  /\ sinceReport = Threshold + 1
  /\ at = "start"

SysTick ==
  /\ lag < MaxLag
  /\ lag' = lag + 1
  /\ UNCHANGED <<pin, last_state, since, sinceReport, at>>

\* The button moves, or its contact bounces.
Move ==
  /\ pin' \in State \ {pin}
  /\ UNCHANGED <<last_state, since, lag, sinceReport, at>>

\* The start of an iteration: the clock is read.
ReadTime ==
  /\ at = "start" /\ at' = "buttons"
  /\ since' = Older(since, lag)
  /\ sinceReport' = Older(sinceReport, lag)
  /\ lag' = 0
  /\ UNCHANGED <<pin, last_state>>

\* Variant: a change after exactly the threshold is reported.
debounced_state_early ==
  \/ /\ pin = last_state
     /\ UNCHANGED <<last_state, since, sinceReport>>
  \/ /\ pin # last_state /\ since >= Threshold
     /\ last_state' = pin /\ sinceReport' = 0
     /\ since' = 0
  \/ /\ pin # last_state /\ since < Threshold
     /\ since' = 0
     /\ UNCHANGED <<last_state, sinceReport>>

\* A change that comes too soon is a bounce: only the time is updated.
debounced_state ==
  \/ /\ pin = last_state
     /\ UNCHANGED <<last_state, since, sinceReport>>
  \/ /\ pin # last_state /\ since > Threshold
     /\ last_state' = pin /\ sinceReport' = 0
     /\ since' = 0
  \/ /\ pin # last_state /\ since <= Threshold
     /\ since' = 0
     /\ UNCHANGED <<last_state, sinceReport>>

\* is_rising_edge and is_falling_edge: the edge is the change of last_state.
PollButton ==
  /\ at = "buttons" /\ at' = "start"
  /\ debounced_state
  /\ UNCHANGED <<pin, lag>>

Next == SysTick \/ Move \/ ReadTime \/ PollButton

Spec == Init /\ [][Next]_vars

-----------------------------------------------------------------------------
(* Properties *)

\* The type of the state.
TypeOK ==
  /\ pin \in State /\ last_state \in State
  /\ since \in Ages /\ sinceReport \in Ages
  /\ lag \in 0 .. MaxLag
  /\ at \in {"start", "buttons"}

\* debounced_state stores the time of every reported change, so last_time is
\* never older than the last report.
AgeInv == TypeOK /\ since <= sinceReport

\* "A button that removes bounces that happen within bounce_threshhold"
\* (button.rs:9): the edges of two reported changes are more than the threshold
\* apart by the clock of the main loop, whatever the pin does in between and
\* however far the clock runs ahead of its last reading.
ReportsApart == [][last_state' # last_state => sinceReport > Threshold]_vars

-----------------------------------------------------------------------------
(* Proofs *)

\* Every step of the main loop, the interrupt and the pin keeps AgeInv.
LEMMA AgeInvHolds == Spec => []AgeInv
<1>1. Init => AgeInv
  BY ButtonAssumption DEF Init, AgeInv, TypeOK, Ages, State
<1>2. AgeInv /\ [Next]_vars => AgeInv'
  <2> SUFFICES ASSUME AgeInv, [Next]_vars PROVE AgeInv'
    OBVIOUS
  <2> USE ButtonAssumption DEF AgeInv, TypeOK, Ages
  <2>1. CASE SysTick
    BY <2>1 DEF SysTick
  <2>2. CASE Move
    BY <2>2 DEF Move
  <2>3. CASE ReadTime
    BY <2>3 DEF ReadTime, Older
  <2>4. CASE PollButton
    BY <2>4 DEF PollButton, debounced_state
  <2>5. CASE UNCHANGED vars
    BY <2>5 DEF vars
  <2> QED
    BY <2>1, <2>2, <2>3, <2>4, <2>5 DEF Next
<1> QED
  BY <1>1, <1>2, PTL DEF Spec

\* Two reported changes of a button are more than the threshold apart, for every
\* threshold and every delay between two readings of the clock.
THEOREM ReportsAreApart == Spec => ReportsApart
<1>1. AgeInv /\ [Next]_vars => [last_state' # last_state => sinceReport > Threshold]_vars
  <2> SUFFICES ASSUME AgeInv, Next, last_state' # last_state PROVE sinceReport > Threshold
    BY DEF vars
  <2>1. PollButton
    BY DEF Next, SysTick, Move, ReadTime
  <2> QED
    BY <2>1, ButtonAssumption DEF PollButton, debounced_state, AgeInv, TypeOK, Ages
<1> QED
  BY <1>1, AgeInvHolds, PTL DEF Spec, ReportsApart
=============================================================================
