----------------------------- MODULE KeyRouting -----------------------------
(***************************************************************************)
(* The two routes a key press takes to the Mac                             *)
(* (src/src/app/keyboard_hook.cpp, window.cpp, input.cpp and the event     *)
(* handlers of viewer.cpp).                                                *)
(*                                                                         *)
(* While a window of the viewer has the focus a low-level hook sees every  *)
(* key first.  It reports the command modifiers (Windows, Ctrl, left Alt)  *)
(* and whatever is pressed together with one, and swallows them; the rest  *)
(* goes on as window messages, which report the keys that have a keysym of *)
(* their own and send printable ones as a press and a release at once.     *)
(* The hook is installed and removed by the focus messages, which reach    *)
(* the window after the foreground has already changed.                    *)
(***************************************************************************)
EXTENDS Naturals, Sequences

CONSTANTS
  Side,       \* sides the keyboard's command modifiers are on, "left" and "right"
  Bit,        \* kinds of command modifiers: M_WIN, M_CTRL, M_ALT
  Named,      \* keys with a keysym of their own in vk_to_keysym (arrows, Shift)
  Printable,  \* keys with a keysym only in vk_to_keysym_letter
  View,       \* windows of the viewer
  MaxNotice   \* bound: focus messages waiting

\* is_command_modifier: a key of each kind on each side; mods_ has one bit for both.
Modifier == Side \X Bit
ModBit(k) == k[2]

\* The key whose keysym disable() releases for a bit.
LeftOf(m) == <<"left", m>>

Letter == {"char"} \X Printable
Key == Modifier \cup ({"named"} \X Named) \cup Letter

Elsewhere == "elsewhere"

VARIABLES
  down,     \* keys held on the keyboard
  front,    \* GetForegroundWindow: a view or another application
  notice,   \* focus messages not yet handled, in order
  inbox,    \* key message waiting in the viewer's queue, behind the focus messages
  hook,     \* hook_ is installed
  hwnd,     \* window the hook serves
  mods,     \* kinds of command modifiers the hook believes held, mods_
  held,     \* keys the Mac believes held
  byHook    \* keys whose last press was reported by the hook

krVars == <<down, front, notice, inbox, hook, hwnd, mods, held, byHook>>

NoKey == [key |-> <<"none", "none">>, press |-> FALSE]

KrInit ==
  /\ down = {} /\ front = Elsewhere /\ notice = <<>> /\ inbox = NoKey
  /\ hook = FALSE /\ hwnd \in View /\ mods = {} /\ held = {} /\ byHook = {}

Report(k, press) == held' = IF press THEN held \cup {k} ELSE held \ {k}

HookReports(k, press) ==
  /\ Report(k, press)
  /\ byHook' = IF press THEN byHook \cup {k} ELSE byHook
  /\ UNCHANGED inbox

\* CallNextHookEx: the key becomes a message of the front window, if that is ours.
PassedOn(k, press) ==
  /\ inbox = NoKey \/ front = Elsewhere
  /\ inbox' = IF front \in View THEN [key |-> k, press |-> press] ELSE inbox
  /\ UNCHANGED <<held, byHook>>

HookSeesFront == hook /\ front = hwnd

\* Mutant: whichever window is in front.
HandleAnywhere(k, press) ==
  IF hook /\ k \in Modifier
    THEN /\ mods' = IF press THEN mods \cup {ModBit(k)} ELSE mods \ {ModBit(k)}
         /\ HookReports(k, press)
    ELSE PassedOn(k, press) /\ UNCHANGED mods

\* KeyboardHook::handle, run for a key event on its way to the front window.
Handle(k, press) ==
  \/ /\ ~HookSeesFront
     /\ PassedOn(k, press)
     /\ UNCHANGED mods
  \/ /\ HookSeesFront /\ k \in Modifier
     /\ mods' = IF press THEN mods \cup {ModBit(k)} ELSE mods \ {ModBit(k)}
     /\ HookReports(k, press)
  \/ /\ HookSeesFront /\ k \notin Modifier
     /\ IF mods = {} THEN PassedOn(k, press) ELSE HookReports(k, press)
     /\ UNCHANGED mods

KeyEvent(k) ==
  /\ Handle(k, k \notin down)
  /\ down' = IF k \in down THEN down \ {k} ELSE down \cup {k}
  /\ UNCHANGED <<front, notice, hook, hwnd>>

\* WM_KEYDOWN and WM_KEYUP: on_key reports the key when vk_to_keysym knows it;
\* a printable key's press arrives as WM_CHAR, which on_char sends down and up
\* (a control code is not sent), and its release is not reported.
WindowKey ==
  /\ notice = <<>> /\ inbox # NoKey
  /\ LET k == inbox.key IN
       /\ IF k \in Letter
            THEN held' \in IF inbox.press THEN {held, held \ {k}} ELSE {held}
            ELSE Report(k, inbox.press)
       /\ byHook' = IF inbox.press THEN byHook \ {k} ELSE byHook
  /\ inbox' = NoKey
  /\ UNCHANGED <<down, front, notice, hook, hwnd, mods>>

\* The user switches windows; Windows posts the loss before the gain.
Switch(f) ==
  /\ f # front /\ Len(notice) + 2 <= MaxNotice
  /\ notice' = notice \o (IF front \in View THEN <<[view |-> front, gained |-> FALSE]>> ELSE <<>>)
                     \o (IF f \in View THEN <<[view |-> f, gained |-> TRUE]>> ELSE <<>>)
  /\ front' = f
  /\ UNCHANGED <<down, inbox, hook, hwnd, mods, held, byHook>>

\* Mutant: the state is cleared, and nothing released.
DisableForgets ==
  /\ mods' = IF hook THEN {} ELSE mods
  /\ UNCHANGED held

\* disable(): releases the left-hand keysym of every kind believed held.
DisableReleases ==
  /\ held' = IF hook THEN held \ {LeftOf(m) : m \in mods} ELSE held
  /\ mods' = IF hook THEN {} ELSE mods

\* on_focus: set_window, then enable() or disable().  Installing may fail.
FocusMessage ==
  /\ notice # <<>>
  /\ hwnd' = notice[1].view
  /\ IF notice[1].gained
       THEN hook' \in {TRUE, hook} /\ UNCHANGED <<mods, held>>
       ELSE hook' = FALSE /\ DisableReleases
  /\ notice' = Tail(notice)
  /\ UNCHANGED <<down, front, inbox, byHook>>

KrNext ==
  \/ \E k \in Key : KeyEvent(k)
  \/ WindowKey
  \/ \E f \in View \cup {Elsewhere} : Switch(f)
  \/ FocusMessage

KrSpec == KrInit /\ [][KrNext]_krVars

-----------------------------------------------------------------------------
(* "Release any modifiers we reported as held so the host doesn't see a    *)
(* stuck Cmd/Ctrl" (keyboard_hook.cpp:30): once the hook is gone, no       *)
(* command modifier it had reported as pressed is still down at the Mac,   *)
(* whatever was pressed and released while the focus was on its way.       *)
NoStuckModifier == ~hook => held \cap byHook \cap Modifier = {}

(* What is typed into another application never reaches the Mac: a key     *)
(* goes down at the Mac only when it went down while a window of the       *)
(* viewer was in front, although the hook outlives the foreground.         *)
OnlyTypedHere ==
  [][\A k \in held' \ held :
       front \in View \/ (inbox.key = k /\ inbox.press)]_krVars
=============================================================================
