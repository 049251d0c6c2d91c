------------------------------- MODULE Widget -------------------------------
(***************************************************************************)
(* The floating widget of the desktop (apps/desktop/src/main-v2.ts and      *)
(* widget-state.ts): collapsed, expanded while the pointer is on it, or     *)
(* pinned.  Hover, clicks and drags reach the main process from three       *)
(* sides that may each miss or repeat an event: mail of the renderer, which *)
(* takes its time, the native input of the window (Windows only), and a     *)
(* poll of the cursor.  Two timers open and close.                          *)
(*                                                                          *)
(* w is what the main process knows; a handler is an operator from w to the *)
(* next w, given the zone the cursor is in by then.  The zones are those of *)
(* the screen that the modes tell apart: on the small surface, on the part  *)
(* only the full one covers, or out of both.  Where the window stands is    *)
(* left out; that it moves under the cursor is not.                         *)
(***************************************************************************)
EXTENDS Naturals, Sequences, FiniteSets

CONSTANTS
  MaxActs,   \* bound: commands of menus, buttons and settings, and crashes
  MaxMail    \* bound: messages of the renderer that are under way

VARIABLES
  w,
  native,    \* hookWindowMessage exists: process.platform is win32
  enabled,   \* settings.widgetEnabled
  cursor,
  button,    \* the primary button is held down on the widget
  mail,      \* messages of the renderer
  acts

WidgetAssumption == MaxActs \in Nat /\ MaxMail \in Nat

env == <<native, enabled, cursor, button, mail, acts>>
vars == <<w, env>>

Modes == {"collapsed", "expanded", "pinned"}
Startup == {"collapsed", "pinned"}
Zones == {"out", "near", "on"}
Mail == {"enter", "leave", "focus", "blur", "begin", "move", "end",
         "pin", "unpin", "collapse", "open"}

Covers(x, c) ==
  x.window # "none" /\ c \in (IF x.mode = "collapsed" THEN {"on"} ELSE {"near", "on"})

-----------------------------------------------------------------------------
(* widget-state.ts *)

Idle(x) == [x EXCEPT !.dragging = FALSE, !.pointerInside = FALSE, !.focusInside = FALSE]
ShouldCollapse(x) == x.mode = "expanded" /\ ~x.dragging /\ ~x.pointerInside
ShouldOpen(x) ==
  x.mode = "collapsed" /\ x.visible /\ ~x.dragging /\ (x.pointerInside \/ x.focusInside)

-----------------------------------------------------------------------------
(* main-v2.ts *)

ApplyWidgetVisibility(x) ==
  IF x.window = "none" THEN x
  ELSE [x EXCEPT !.window = IF x.visible THEN "shown" ELSE "hidden"]

EnsureWidgetWindow(x) ==
  IF x.window # "none" THEN x ELSE ApplyWidgetVisibility([x EXCEPT !.window = "hidden"])

Closed(x) ==
  [x EXCEPT !.window = "none", !.timers = {}, !.pointerOrigin = FALSE,
            !.widgetDragging = FALSE, !.cursorInside = FALSE]

OnPointerEnter(x) ==
  LET y == [x EXCEPT !.timers = @ \ {"close"}, !.pointerInside = TRUE]
  IN IF ShouldOpen(y) /\ ~y.justDragged THEN [y EXCEPT !.timers = @ \cup {"open"}] ELSE y

OnPointerLeave(x) ==
  LET y == [x EXCEPT !.timers = @ \ {"open"}, !.pointerInside = FALSE, !.focusInside = FALSE]
  IN IF ShouldCollapse(y) THEN [y EXCEPT !.timers = @ \cup {"close"}] ELSE y

SetWidgetMode(x, mode, c) ==
  LET y == ApplyWidgetVisibility([x EXCEPT !.timers = {}, !.mode = mode, !.visible = TRUE])
  IN IF mode = "expanded" /\ ~Covers(y, c)
     THEN OnPointerLeave([y EXCEPT !.cursorInside = FALSE])
     ELSE y
PersistWidgetMode(x, mode, c) == [SetWidgetMode(x, mode, c) EXCEPT !.startup = mode]

OnFocusWithin(x, focused, c) ==
  LET y == [x EXCEPT !.focusInside = focused]
  IN IF focused \/ Covers(y, c) THEN y ELSE OnPointerLeave(y)

BeginWidgetPointer(x) ==
  [x EXCEPT !.timers = {}, !.pointerOrigin = TRUE, !.widgetDragging = FALSE, !.dragging = FALSE]

\* far: DRAG_THRESHOLD_PX from the origin.
ApplyWidgetPointerMove(x, far) ==
  IF x.pointerOrigin /\ far
  THEN [x EXCEPT !.widgetDragging = TRUE, !.dragging = @ \/ ~x.widgetDragging]
  ELSE x

EndWidgetPointer(x, c) ==
  LET dragged == x.widgetDragging
      y == IF dragged THEN [x EXCEPT !.justDragged = TRUE]
           ELSE IF x.mode = "collapsed" THEN PersistWidgetMode(x, "pinned", c) ELSE x
      z == [y EXCEPT !.widgetDragging = FALSE, !.pointerOrigin = FALSE, !.dragging = FALSE]
  IN IF ~x.pointerOrigin /\ ~dragged THEN x
     ELSE IF ~dragged \/ z.mode # "expanded" THEN z
     ELSE IF Covers(z, c) THEN [z EXCEPT !.cursorInside = TRUE, !.pointerInside = TRUE]
     ELSE OnPointerLeave([z EXCEPT !.cursorInside = FALSE])

\* The poll of a code that waits for the edge to the outside.
PolledOnEdge(x, c) ==
  LET out == [x EXCEPT !.cursorInside = FALSE]
  IN IF x.widgetDragging /\ x.pointerOrigin THEN x
     ELSE IF x.window = "hidden" \/ ~Covers(x, c)
     THEN IF x.cursorInside THEN OnPointerLeave(out) ELSE x
     ELSE IF x.cursorInside THEN x ELSE OnPointerEnter([x EXCEPT !.cursorInside = TRUE])

Polled(x, c) ==
  LET y == IF x.widgetDragging THEN [x EXCEPT !.widgetDragging = FALSE, !.dragging = FALSE] ELSE x
      out == [y EXCEPT !.cursorInside = FALSE]
  IN IF x.widgetDragging /\ x.pointerOrigin THEN x
     ELSE IF y.window = "hidden"
     THEN IF y.cursorInside \/ y.mode = "expanded" THEN OnPointerLeave(out) ELSE y
     ELSE IF Covers(y, c)
     THEN IF y.cursorInside THEN y ELSE OnPointerEnter([y EXCEPT !.cursorInside = TRUE])
     ELSE IF y.mode = "expanded" \/ y.pointerInside \/ y.focusInside
     THEN OnPointerLeave(out) ELSE out

ShowWidget(x, on) ==
  LET y == [x EXCEPT !.visible = TRUE]
  IN ApplyWidgetVisibility(IF on THEN EnsureWidgetWindow(y) ELSE y)
HideWidgetUnapplied(x) == [Idle(x) EXCEPT !.timers = {}, !.visible = FALSE]
HideWidget(x) == ApplyWidgetVisibility([Idle(x) EXCEPT !.timers = {}, !.visible = FALSE])
ResetWidgetPosition(x) == ApplyWidgetVisibility([x EXCEPT !.timers = {}, !.visible = TRUE])
\* after: settings.widgetModeAfterOpenMain
ShowMainWindow(x, after) ==
  IF x.window # "none" /\ x.mode = "expanded"
  THEN ApplyWidgetVisibility([x EXCEPT !.mode = after]) ELSE x

Recovered(x) ==
  ApplyWidgetVisibility([Idle(x) EXCEPT !.mode = x.startup, !.timers = {}, !.justDragged = FALSE])

-----------------------------------------------------------------------------
Init ==
  /\ \E mode \in Startup, on, shown \in BOOLEAN :
       LET x == [mode |-> mode, visible |-> TRUE, dragging |-> FALSE, pointerInside |-> FALSE,
                 focusInside |-> FALSE, window |-> "none", timers |-> {},
                 pointerOrigin |-> FALSE, widgetDragging |-> FALSE, cursorInside |-> FALSE,
                 justDragged |-> FALSE, startup |-> mode]
       IN enabled = on /\ w = IF on /\ shown THEN ShowWidget(x, on) ELSE x
  /\ native \in BOOLEAN /\ cursor = "out" /\ button = FALSE /\ mail = <<>> /\ acts = 0

\* The renderer's next message; with the native input some never come.
Sends(m) == mail' = Append(mail, m)
Reported(m) == Sends(m) \/ (native /\ UNCHANGED mail)
Room == w.window = "shown" /\ Len(mail) < MaxMail

\* The window goes back to its dock when a drag ends and whenever a handler
\* positions it in the middle of one: the cursor may then be anywhere.
Settled(dragged) == IF dragged THEN cursor' \in Zones ELSE UNCHANGED cursor

(* The user's pointer. *)

MovesAcross ==
  /\ ~button /\ Room
  /\ \E c \in Zones \ {cursor} :
       /\ cursor' = c
       /\ IF Covers(w, c) = Covers(w, cursor) THEN UNCHANGED mail
          ELSE Reported(IF Covers(w, c) THEN "enter" ELSE "leave")
  /\ UNCHANGED <<w, native, enabled, button, acts>>

\* The cursor moves while the window is hidden or absent, or the display
\* changes under it: no message.
MovesUnseen ==
  /\ ~button
  /\ \E c \in Zones \ {cursor} : cursor' = c
  /\ w.window # "shown" \/ native
  /\ UNCHANGED <<w, native, enabled, button, mail, acts>>

\* The surface changed under the cursor, and the renderer notices.
Rehovers ==
  /\ Room /\ ~button
  /\ Sends(IF Covers(w, cursor) THEN "enter" ELSE "leave")
  /\ UNCHANGED <<w, native, enabled, cursor, button, acts>>

\* A control gets or loses the keyboard focus.
Focuses ==
  /\ Room /\ (Sends("focus") \/ Sends("blur"))
  /\ UNCHANGED <<w, native, enabled, cursor, button, acts>>

Presses ==
  /\ Room /\ ~button /\ Covers(w, cursor)
  /\ button' = TRUE
  /\ w' = IF native THEN BeginWidgetPointer(w) ELSE w
  /\ Reported("begin")
  /\ UNCHANGED <<native, enabled, cursor, acts>>

\* Held down the pointer is the window's: natively at once, by mail later.
Drags ==
  /\ button /\ Room
  /\ w' = IF native THEN ApplyWidgetPointerMove(w, TRUE) ELSE w
  /\ Reported("move")
  /\ UNCHANGED <<native, enabled, cursor, button, acts>>

Releases ==
  /\ button /\ (w.window # "shown" \/ Room)
  /\ button' = FALSE
  /\ Settled(native /\ w.widgetDragging)
  /\ w' = IF native /\ w.pointerOrigin THEN EndWidgetPointer(w, cursor') ELSE w
  /\ IF w.window = "shown" THEN Reported("end") ELSE UNCHANGED mail
  /\ UNCHANGED <<native, enabled, acts>>

(* Mail of the renderer. *)

Handled(m, c) ==
  CASE m = "enter" -> {OnPointerEnter(w)}
    [] m = "leave" -> {OnPointerLeave(w)}
    [] m \in {"focus", "blur"} -> {OnFocusWithin(w, m = "focus", c)}
    [] m = "begin" -> {BeginWidgetPointer(w)}
    [] m = "move" -> {ApplyWidgetPointerMove(w, far) : far \in BOOLEAN}
    [] m = "end" -> {EndWidgetPointer(w, c)}
    [] m = "pin" -> {PersistWidgetMode(w, "pinned", c)}
    [] m = "unpin" -> {SetWidgetMode(w, "expanded", c)}
    [] m = "collapse" -> {PersistWidgetMode(w, "collapsed", c)}
    [] m = "open" -> {ShowMainWindow(w, after) : after \in {"collapsed", "expanded"}}

Receive ==
  /\ mail # <<>> /\ mail' = Tail(mail)
  /\ Settled(w.widgetDragging /\ Head(mail) \in {"end", "pin", "unpin", "collapse", "open"})
  /\ w' \in Handled(Head(mail), cursor')
  /\ UNCHANGED <<native, enabled, button, acts>>

(* Timers of the main process. *)

Fires(timer, due, mode) ==
  /\ timer \in w.timers
  /\ Settled(due /\ w.widgetDragging)
  /\ LET x == [w EXCEPT !.timers = @ \ {timer}]
     IN w' = IF due THEN SetWidgetMode(x, mode, cursor') ELSE x
  /\ UNCHANGED <<native, enabled, button, mail, acts>>
OpenTimer == Fires("open", ShouldOpen(w), "expanded")
CloseTimer == Fires("close", ShouldCollapse(w), "collapsed")

Poll ==
  /\ w.window # "none" /\ w' = Polled(w, cursor)
  /\ UNCHANGED env

\* ACTIVATION_SUPPRESSION_MS go by.
Reactivates ==
  /\ w.justDragged /\ w' = [w EXCEPT !.justDragged = FALSE]
  /\ UNCHANGED env

(* Commands. *)

Acts == acts < MaxActs /\ acts' = acts + 1

\* The buttons of the surface; a double click pins as well.
Commands ==
  /\ Acts /\ Room /\ ~button /\ Covers(w, cursor)
  /\ IF w.mode = "collapsed" THEN Sends("pin")
     ELSE \E m \in {"pin", "unpin", "collapse", "open"} : Sends(m)
  /\ UNCHANGED <<w, native, enabled, cursor, button>>

DoubleClicks ==
  /\ Acts /\ native /\ Room /\ ~button /\ Covers(w, cursor)
  /\ w' = PersistWidgetMode(w, "pinned", cursor)
  /\ Reported("pin")
  /\ UNCHANGED <<native, enabled, cursor, button>>

\* The menus of the widget and of the tray, which has no Show for a widget
\* that is switched off but does not know it.
Menu ==
  /\ Acts /\ ~button
  /\ w' \in {ShowWidget(w, enabled), HideWidget(w), ResetWidgetPosition(w)}
            \cup {ShowMainWindow(w, after) : after \in {"collapsed", "expanded"}}
  /\ Settled(w.widgetDragging)
  /\ UNCHANGED <<native, enabled, button, mail>>

\* UPDATE_SETTINGS, whatever the patch is about: again : showWidgetOnStartup.
UpdatesSettings ==
  /\ Acts /\ ~button
  /\ \E on, again \in BOOLEAN, mode \in Startup :
       LET x == [w EXCEPT !.startup = mode]
       IN /\ enabled' = on
          /\ w' = IF ~on THEN Closed(x) ELSE IF again THEN ShowWidget(x, on) ELSE x
          /\ mail' = IF on THEN mail ELSE <<>>
  /\ Settled(w.widgetDragging)
  /\ UNCHANGED <<native, button>>

\* The renderer crashes and is loaded again.
Crashes ==
  /\ Acts /\ w.window # "none"
  /\ w' = Recovered(w) /\ mail' = <<>>
  /\ Settled(w.widgetDragging)
  /\ UNCHANGED <<native, enabled, button>>

ByItself == Receive \/ OpenTimer \/ CloseTimer \/ Poll \/ Reactivates
ByUser ==
  \/ MovesAcross \/ MovesUnseen \/ Rehovers \/ Focuses \/ Presses \/ Drags \/ Releases
  \/ Commands \/ DoubleClicks \/ Menu \/ UpdatesSettings \/ Crashes
Next == ByItself \/ ByUser

\* Intervals and timeouts elapse and mail arrives.
Spec ==
  /\ Init /\ [][Next]_vars
  /\ WF_vars(Receive) /\ WF_vars(OpenTimer) /\ WF_vars(CloseTimer) /\ WF_vars(Poll)

-----------------------------------------------------------------------------
\* Types; the window shows what visible says, and no drag is without an origin,
\* so that the poll's repair of such a drag has nothing to do.
TypeOK ==
  /\ w.mode \in Modes /\ w.startup \in Startup
  /\ \A flag \in {"visible", "dragging", "pointerInside", "focusInside", "pointerOrigin",
                  "widgetDragging", "cursorInside", "justDragged"} : w[flag] \in BOOLEAN
  /\ w.window \in {"none", "hidden", "shown"} /\ w.timers \subseteq {"open", "close"}
  /\ {native, enabled, button} \subseteq BOOLEAN /\ cursor \in Zones
  /\ mail \in Seq(Mail) /\ Len(mail) <= MaxMail /\ acts \in 0..MaxActs
  /\ w.window # "none" => w.visible = (w.window = "shown")
  /\ w.widgetDragging => w.pointerOrigin
  /\ w.window = "none" => w.timers = {} /\ mail = <<>>

\* Only the unpin and collapse buttons, and a crash, end a pin: no timer that was
\* running, no late message about the pointer and no drag does (the specification,
\* 16.4: "pinned | pointer/focus leave | pinned").
PinnedStays ==
  w.mode = "pinned" /\ w'.mode # "pinned" =>
    \/ acts' # acts
    \/ mail # <<>> /\ Head(mail) \in {"unpin", "collapse"} /\ mail' = Tail(mail)

\* An expanded widget that the cursor has left retracts, also when the renderer
\* did not notice, when a click or a focus made it believe the cursor inside, and
\* when it was hidden meanwhile.  A drag whose end got lost in a crash, or with
\* the window, is the exception: the poll then waits for that end.
StuckOpen ==
  /\ w.mode = "expanded" /\ w.window # "none" /\ cursor = "out" /\ ~button
  /\ ~w.dragging /\ ~w.widgetDragging
Retracts == []<>~StuckOpen

\* "any | hide command | window hidden without changing mode" (16.4): what is
\* hidden appears on a command only.
HiddenStays == [][Poll \/ OpenTimer \/ CloseTimer => w'.visible = w.visible]_vars
=============================================================================
