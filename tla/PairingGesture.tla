---------------------------- MODULE PairingGesture ----------------------------
(***************************************************************************)
(* The BOOT button gesture (tasks/ble/pairing.rs): a long press opens the  *)
(* pairing window, a longer one asks for the saved bonds to be cleared.    *)
(*                                                                         *)
(* The code adds the poll interval to its counters at every poll, so time  *)
(* is counted in polls.  How long a press lasted matters only until it     *)
(* exceeds both thresholds: pressed stays there (bound Longest).           *)
(***************************************************************************)
EXTENDS Naturals

CONSTANTS
    HoldPolls,    \* hold_millis, in polls
    ClearPolls,   \* clear_hold_millis, in polls; 0 disables clearing
    WindowPolls   \* window_millis, in polls

ASSUME GestureAssumption ==
    /\ HoldPolls \in Nat
    /\ ClearPolls \in Nat
    /\ WindowPolls \in Nat \ {0}

VARIABLES
    button,       \* the button is down
    pressed,      \* pressed_millis, in polls
    opened,       \* opened_for_current_press
    cleared,      \* cleared_for_current_press
    window        \* remaining_millis of the open window, in polls; 0 is closed

gestureVars == <<button, pressed, opened, cleared, window>>

InitGesture ==
    /\ button = FALSE
    /\ pressed = 0
    /\ opened = FALSE /\ cleared = FALSE
    /\ window = 0

Longest == IF HoldPolls < ClearPolls THEN ClearPolls ELSE HoldPolls

\* pressed_millis after one more poll with the button down.
Longer == IF pressed < Longest THEN pressed + 1 ELSE Longest

\* Mutant of Ticked: the last poll does not close the window.
TickedToOne == IF window <= 1 THEN window ELSE window - 1

\* tick_pairing_window
Ticked == IF window = 0 THEN 0 ELSE window - 1

\* open_window
OpenWindow ==
    /\ window' = WindowPolls
    /\ opened' = TRUE

ClearDue == ClearPolls > 0 /\ ~cleared /\ Longer >= ClearPolls

\* Mutant of OpenDue: a press opens the window as long as it lasts.
OpenDueAgain == window = 0 /\ Longer >= HoldPolls

OpenDue == ~opened /\ Longer >= HoldPolls

\* External: the user.
PushOrRelease ==
    /\ button' = ~button
    /\ UNCHANGED <<pressed, opened, cleared, window>>

\* update with the button up.
SampleReleased ==
    /\ ~button
    /\ pressed' = 0
    /\ opened' = FALSE /\ cleared' = FALSE
    /\ window' = Ticked
    /\ UNCHANGED button

\* update with the button down, when no threshold is passed.
SampleHeld ==
    /\ ~ClearDue /\ ~OpenDue
    /\ button
    /\ pressed' = Longer
    /\ window' = Ticked
    /\ UNCHANGED <<button, opened, cleared>>

\* update, when the press is long enough to open the window.
SampleOpens ==
    /\ ~ClearDue /\ OpenDue
    /\ button
    /\ pressed' = Longer
    /\ OpenWindow
    /\ UNCHANGED <<button, cleared>>

\* update, when the press is long enough to clear; the window is opened again
\* if the records were cleared.
SampleClears(succeeded) ==
    /\ ClearDue
    /\ button
    /\ pressed' = Longer
    /\ cleared' = TRUE
    /\ IF succeeded THEN OpenWindow ELSE window' = Ticked /\ UNCHANGED opened
    /\ UNCHANGED button

TypeGesture ==
    /\ button \in BOOLEAN
    /\ pressed \in 0 .. Longest
    /\ opened \in BOOLEAN /\ cleared \in BOOLEAN
    /\ window \in 0 .. WindowPolls

===============================================================================
