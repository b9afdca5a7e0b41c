----------------------------- MODULE QnxScreen -----------------------------
(***************************************************************************)
(* The windows of the Ozone platform qnx_screen, the surfaces drawn for    *)
(* them, and the event source.  The UI thread creates, shows, hides and    *)
(* destroys windows, drains the BPS queue and repaints the toolbar; the    *)
(* compositor's thread creates surfaces and presents frames.               *)
(*                                                                         *)
(* A window is its AcceleratedWidget, a number given in order of creation. *)
(* A size is a number of rows.  What a compositor or the application does  *)
(* with the platform is upstream code, modelled from the calls it makes.   *)
(***************************************************************************)
EXTENDS Naturals, Sequences

CONSTANTS
  MaxWindows,  \* bound: windows created in a behaviour
  MaxEvents,   \* bound: BPS events in a behaviour
  MaxChanges,  \* bound: changes of what the toolbar shows
  MaxWork,     \* bound: windows, events and changes together
  Panel,       \* rows of the display
  Sizes        \* the sizes that callers ask for

ASSUME ScreenAssumption ==
  /\ MaxWindows \in Nat /\ MaxEvents \in Nat /\ MaxChanges \in Nat /\ MaxWork \in Nat
  /\ Panel \in Nat \ {0} /\ Sizes \subseteq Nat \ {0}

VARIABLES
  created,      \* g_next_widget_id - 1
  alive,        \* the QnxScreenWindow objects
  native,       \* those with a screen_window_t
  visible,      \* visible_
  onScreen,     \* SCREEN_PROPERTY_VISIBLE of the native window
  bounds,       \* bounds_, rows
  windows,      \* the manager's map
  dispatchers,  \* the event source's dispatchers, asked in order of creation
  focus,        \* the window that has the keyboard focus of its group
  compositor,   \* the windows whose compositor wants a surface
  canvas,       \* canvas[w]: rows of w's canvas, 0 if it has none
  beyond,       \* history: canvases that their compositor asked to be taller than
                \* the window says it is
  egl,          \* the windows with an EGL window surface
  frame,        \* the window PresentCanvas is at work for, 0 if none
  queue,        \* the BPS events not yet read, each with its number
  sent,         \* events sent so far
  unanswered,   \* the orientation requests that the Navigator waits for
  input,        \* history: <<input events processed, who got the last one>>
  ui,           \* the UI thread: idle, draining the queue, painting, posting
  toolbar,      \* how often what the toolbar shows has changed
  asked,        \* history: the change that the latest repaint request is for
  requested,    \* g_repaint_requested
  painted,      \* history: the change that the latest painted toolbar shows
  skipped       \* history: has RepaintToolbar returned early since then?

windowVars == <<created, alive, native, visible, onScreen, bounds, windows, dispatchers,
                focus>>
surfaceVars == <<compositor, canvas, beyond, egl, frame>>
inputVars == <<queue, sent, unanswered, input>>
toolbarVars == <<toolbar, asked, requested, painted, skipped>>
vars == <<windowVars, surfaceVars, inputVars, ui, toolbarVars>>

Widgets == 1 .. MaxWindows
None == 0
Consumed == MaxWindows + 1

Inputs == {"touch", "key"}
Requests == {"orientationCheck", "orientation"}
Events == Inputs \cup Requests \cup {"other"}

Work == created + sent + toolbar

\* The delegate's code runs between events of a drain as well.
DelegateRuns == ui \in {"idle", "drain"}

Init ==
  /\ created = 0
  /\ alive = {} /\ native = {} /\ visible = {} /\ onScreen = {}
  /\ bounds = [w \in Widgets |-> 0]
  /\ windows = {} /\ dispatchers = {} /\ focus = None
  /\ compositor = {} /\ canvas = [w \in Widgets |-> 0] /\ beyond = {}
  /\ egl = {} /\ frame = None
  /\ queue = <<>> /\ sent = 0 /\ unanswered = {} /\ input = <<0, None>>
  /\ ui = "idle"
  /\ toolbar = 0 /\ asked = 0 /\ requested = FALSE /\ painted = 0 /\ skipped = FALSE

-----------------------------------------------------------------------------
(* Windows, on the UI thread. *)

\* Screen may refuse the focus.
ClaimKeyboardFocus(w) == focus' \in (IF w \in native' THEN {focus, w} ELSE {focus})

\* Faulty variant: visible_ is left to Show, which aura may never call.
RegisterHidden(w) ==
  /\ native' = native \cup {w}
  /\ onScreen' = onScreen \cup {w}
  /\ visible' = visible
  /\ windows' = windows \cup {w}
  /\ dispatchers' = dispatchers \cup {w}
  /\ compositor' = compositor \cup {w}
  /\ ClaimKeyboardFocus(w)

\* The constructor once screen_create_window has succeeded.
Register(w) ==
  /\ native' = native \cup {w}
  /\ onScreen' = onScreen \cup {w}
  /\ visible' = visible \cup {w}
  /\ windows' = windows \cup {w}
  /\ dispatchers' = dispatchers \cup {w}
  /\ compositor' = compositor \cup {w}  \* OnAcceleratedWidgetAvailable
  /\ ClaimKeyboardFocus(w)

\* Faulty variant: the id is taken before the counter is raised.
StaleWidget == created

NewWidget == created + 1

CreateWindow ==
  LET w == NewWidget IN
  /\ DelegateRuns /\ created < MaxWindows /\ Work < MaxWork
  /\ created' = created + 1
  /\ alive' = alive \cup {w}
  /\ bounds' = [bounds EXCEPT ![w] = Panel]
  /\ \/ Register(w)
     \/ UNCHANGED <<native, onScreen, visible, windows, dispatchers, compositor, focus>>
  /\ UNCHANGED <<canvas, beyond, egl, frame, inputVars, ui, toolbarVars>>

Show(w, inactive) ==
  /\ DelegateRuns /\ w \in alive
  /\ visible' = visible \cup {w}
  /\ onScreen' = onScreen \cup ({w} \cap native)
  /\ UNCHANGED <<created, alive, native, bounds, windows, dispatchers>>
  /\ IF inactive THEN UNCHANGED focus ELSE ClaimKeyboardFocus(w)
  /\ UNCHANGED <<surfaceVars, inputVars, ui, toolbarVars>>

Hide(w) ==
  /\ DelegateRuns /\ w \in alive
  /\ visible' = visible \ {w}
  /\ onScreen' = onScreen \ ({w} \cap native)
  /\ UNCHANGED <<created, alive, native, bounds, windows, dispatchers, focus>>
  /\ UNCHANGED <<surfaceVars, inputVars, ui, toolbarVars>>

\* Faulty variant: the window takes the size it is asked for.
RequestedBounds(w, size) == size

\* SetBoundsInPixels keeps the window pinned to the panel.
NewBounds(w, size) == bounds[w]

SetBounds(w, size) ==
  /\ DelegateRuns /\ w \in alive
  /\ bounds' = [bounds EXCEPT ![w] = NewBounds(w, size)]
  /\ UNCHANGED <<created, alive, native, visible, onScreen, windows, dispatchers, focus>>
  /\ UNCHANGED <<surfaceVars, inputVars, ui, toolbarVars>>

\* The host destroys its compositor before its window, and waits until the
\* compositor's thread has let go of the surface.
DestroyCompositor(w) ==
  /\ DelegateRuns /\ w \in compositor /\ frame # w
  /\ compositor' = compositor \ {w}
  /\ canvas' = [canvas EXCEPT ![w] = 0]
  /\ beyond' = beyond \ {w}
  /\ egl' = egl \ {w}
  /\ UNCHANGED <<windowVars, frame, inputVars, ui, toolbarVars>>

\* Faulty variant: the window stays in the map.
DestroyWindowKeepingEntry(w) ==
  /\ DelegateRuns /\ w \in alive \ compositor
  /\ dispatchers' = dispatchers \ {w}
  /\ native' = native \ {w}
  /\ onScreen' = onScreen \ {w}
  /\ alive' = alive \ {w}
  /\ visible' = visible \ {w}
  /\ focus' = IF focus = w THEN None ELSE focus
  /\ UNCHANGED <<created, bounds, windows, surfaceVars, inputVars, ui, toolbarVars>>

DestroyWindow(w) ==
  /\ DelegateRuns /\ w \in alive \ compositor
  /\ dispatchers' = dispatchers \ {w}
  /\ windows' = windows \ {w}
  /\ native' = native \ {w}
  /\ onScreen' = onScreen \ {w}
  /\ alive' = alive \ {w}
  /\ visible' = visible \ {w}
  /\ focus' = IF focus = w THEN None ELSE focus
  /\ UNCHANGED <<created, bounds, surfaceVars, inputVars, ui, toolbarVars>>

-----------------------------------------------------------------------------
(* Surfaces, on the compositor's thread. *)

CreateCanvasForWidget(w) ==
  /\ w \in compositor /\ canvas[w] = 0 /\ w \notin egl
  /\ w \in windows
  /\ canvas' = [canvas EXCEPT ![w] = bounds[w]]
  /\ UNCHANGED <<windowVars, compositor, beyond, egl, frame, inputVars, ui, toolbarVars>>

\* With GPU compositing the compositor asks for an EGL surface instead.
CreateViewGLSurface(w) ==
  /\ w \in compositor /\ canvas[w] = 0 /\ w \notin egl
  /\ w \in windows \cap native
  /\ egl' = egl \cup {w}
  /\ UNCHANGED <<windowVars, compositor, canvas, beyond, frame, inputVars, ui, toolbarVars>>

\* The canvas takes any size its caller asks for: nothing compares it with the
\* window's bounds or with the native buffer.
ResizeCanvas(w, size) ==
  /\ canvas[w] # 0 /\ frame = None
  /\ canvas' = [canvas EXCEPT ![w] = size]
  /\ beyond' = IF size > bounds[w] THEN beyond \cup {w} ELSE beyond \ {w}
  /\ UNCHANGED <<windowVars, compositor, egl, frame, inputVars, ui, toolbarVars>>

\* PresentCanvas paints the overlay, copies the rows and posts the window.
PresentCanvas(w) ==
  /\ canvas[w] # 0 /\ frame = None
  /\ frame' = w
  /\ UNCHANGED <<windowVars, compositor, canvas, beyond, egl, inputVars, ui, toolbarVars>>

PostFrame ==
  /\ frame # None
  /\ frame' = None
  /\ UNCHANGED <<windowVars, compositor, canvas, beyond, egl, inputVars, ui, toolbarVars>>

-----------------------------------------------------------------------------
(* The event source, on the UI thread. *)

\* Screen and the Navigator put an event into this thread's BPS queue.
SendEvent(e) ==
  /\ sent < MaxEvents /\ Work < MaxWork
  /\ e = "key" => focus # None
  /\ sent' = sent + 1
  /\ queue' = Append(queue, [number |-> sent + 1, kind |-> e])
  /\ unanswered' = unanswered \cup (IF e \in Requests THEN {sent + 1} ELSE {})
  /\ UNCHANGED <<windowVars, surfaceVars, input, ui, toolbarVars>>

\* The poll timer fires.
PollEvents ==
  /\ ui = "idle"
  /\ ui' = "drain"
  /\ UNCHANGED <<windowVars, surfaceVars, inputVars, toolbarVars>>

ReadEvent(kinds) ==
  /\ ui = "drain" /\ queue # <<>> /\ Head(queue).kind \in kinds
  /\ queue' = Tail(queue)
  /\ UNCHANGED <<windowVars, surfaceVars, sent, ui, toolbarVars>>

\* PlatformEventSource gives an event to the first dispatcher that takes it.
Takers == dispatchers \cap visible
Target == IF Takers = {} THEN None ELSE CHOOSE w \in Takers : \A v \in Takers : w <= v

\* Touches and keys are dispatched unless a callback consumes them or the key
\* means nothing to Chromium.
ProcessInput ==
  /\ ReadEvent(Inputs)
  /\ \E to \in {Consumed, Target} : input' = <<input[1] + 1, to>>
  /\ UNCHANGED unanswered

\* Faulty variant: only the check is answered.
AnswerCheckOnly ==
  /\ ReadEvent(Requests)
  /\ unanswered' = IF Head(queue).kind = "orientationCheck"
                 THEN unanswered \ {Head(queue).number} ELSE unanswered
  /\ UNCHANGED input

AnswerNavigator ==
  /\ ReadEvent(Requests)
  /\ unanswered' = unanswered \ {Head(queue).number}
  /\ UNCHANGED input

\* Faulty variant: requests of the Navigator are ignored like unknown events.
IgnoreRequests ==
  /\ ReadEvent({"other"} \cup Requests)
  /\ UNCHANGED <<unanswered, input>>

IgnoreEvent ==
  /\ ReadEvent({"other"})
  /\ UNCHANGED <<unanswered, input>>

\* Faulty variant: the consumed request is not acted upon.
DrainedForgetting ==
  /\ ui = "drain" /\ queue = <<>>
  /\ requested' = FALSE
  /\ ui' = "idle"
  /\ UNCHANGED <<windowVars, surfaceVars, inputVars, toolbar, asked, painted, skipped>>

\* The queue is empty: ConsumeQnxScreenRepaintRequest.
Drained ==
  /\ ui = "drain" /\ queue = <<>>
  /\ requested' = FALSE
  /\ ui' = IF requested THEN "repaint" ELSE "idle"
  /\ UNCHANGED <<windowVars, surfaceVars, inputVars, toolbar, asked, painted, skipped>>

\* RepaintToolbar paints what the toolbar shows now into the first window's
\* buffer, or returns early: no callback, no window, no buffer.
PaintToolbar ==
  /\ ui = "repaint"
  /\ \/ /\ windows \cap native # {}
        /\ painted' = toolbar
        /\ ui' = "post"
        /\ UNCHANGED skipped
     \/ skipped' = TRUE /\ ui' = "idle" /\ UNCHANGED painted
  /\ UNCHANGED <<windowVars, surfaceVars, inputVars, toolbar, asked, requested>>

\* Faulty variant: the request is consumed after the repaint.
PostToolbarThenConsume ==
  /\ ui = "post"
  /\ ui' = "idle"
  /\ requested' = FALSE
  /\ UNCHANGED <<windowVars, surfaceVars, inputVars, toolbar, asked, painted, skipped>>

PostToolbar ==
  /\ ui = "post"
  /\ ui' = "idle"
  /\ UNCHANGED <<windowVars, surfaceVars, inputVars, toolbarVars>>

-----------------------------------------------------------------------------
(* Code on any thread that changes what the toolbar shows and says so. *)

ChangeToolbar ==
  /\ toolbar < MaxChanges /\ Work < MaxWork
  /\ toolbar' = toolbar + 1
  /\ UNCHANGED <<windowVars, surfaceVars, inputVars, ui, asked, requested, painted, skipped>>

RequestQnxScreenRepaint ==
  /\ asked < toolbar
  /\ asked' = toolbar
  /\ requested' = TRUE
  /\ skipped' = FALSE
  /\ UNCHANGED <<windowVars, surfaceVars, inputVars, ui, toolbar, painted>>

-----------------------------------------------------------------------------
WindowNext ==
  \/ CreateWindow
  \/ \E w \in Widgets, inactive \in BOOLEAN : Show(w, inactive)
  \/ \E w \in Widgets : Hide(w) \/ DestroyCompositor(w) \/ DestroyWindow(w)
  \/ \E w \in Widgets, size \in Sizes : SetBounds(w, size)

SurfaceNext ==
  \/ \E w \in Widgets : \/ CreateCanvasForWidget(w) \/ CreateViewGLSurface(w)
                        \/ \E size \in Sizes : ResizeCanvas(w, size)
                        \/ PresentCanvas(w)
  \/ PostFrame

SourceNext ==
  \/ PollEvents \/ ProcessInput \/ AnswerNavigator \/ IgnoreEvent
  \/ Drained \/ PaintToolbar \/ PostToolbar

Next ==
  \/ WindowNext \/ SurfaceNext \/ SourceNext
  \/ \E e \in Events : SendEvent(e)
  \/ ChangeToolbar \/ RequestQnxScreenRepaint

Spec == Init /\ [][Next]_vars

\* The poll timer is a RepeatingTimer of 8 ms on a thread that keeps running.
FairSpec == Spec /\ WF_vars(SourceNext)
-----------------------------------------------------------------------------
TypeOK ==
  /\ created \in 0 .. MaxWindows
  /\ alive \subseteq 1 .. created /\ native \subseteq Widgets
  /\ visible \subseteq Widgets /\ onScreen \subseteq Widgets
  /\ bounds \in [Widgets -> Nat]
  /\ windows \subseteq Widgets /\ dispatchers \subseteq Widgets
  /\ focus \in Widgets \cup {None}
  /\ compositor \subseteq Widgets /\ canvas \in [Widgets -> Nat]
  /\ beyond \subseteq Widgets /\ egl \subseteq Widgets /\ frame \in Widgets \cup {None}
  /\ queue \in Seq([number : 1 .. MaxEvents, kind : Events]) /\ sent \in 0 .. MaxEvents
  /\ unanswered \subseteq 1 .. MaxEvents /\ input \in Nat \X (0 .. MaxWindows + 1)
  /\ ui \in {"idle", "drain", "repaint", "post"}
  /\ toolbar \in Nat /\ asked \in Nat /\ painted \in Nat
  /\ requested \in BOOLEAN /\ skipped \in BOOLEAN

Drawn == {w \in Widgets : canvas[w] # 0} \cup egl

\* Whoever keeps a pointer to a window keeps it to a window that is there and
\* has a native window: the manager's map, the dispatcher list, the canvases,
\* the EGL surfaces, a frame being presented and the window group's focus
\* (~QnxScreenWindow, QnxScreenCanvas, ClaimKeyboardFocus). For canvases, EGL
\* surfaces and frames it takes a host that ends its compositor first, upstream.
PointersLive ==
  windows \cup dispatchers \cup Drawn \cup ({frame, focus} \ {None}) \subseteq native \cap alive

\* PresentCanvas copies as many rows as the canvas has into a native buffer of
\* the panel's height. They fit unless the compositor itself asked for a canvas
\* taller than its window, which ResizeCanvas would grant: no size that the shell
\* gives the window, before or after the canvas is made, can cause it
\* (SetBoundsInPixels, QnxScreenCanvas, ResizeCanvas).
RowsFit == \A w \in Widgets : canvas[w] <= Panel \/ w \in beyond

\* A touch or key that reaches the platform while a window is on the screen goes
\* to a window on the screen, or is consumed (CanDispatchEvent, Show, Hide).
InputReachesScreen ==
  [][input' # input /\ onScreen # {} => input'[2] \in onScreen \cup {Consumed}]_vars

\* A repaint that was asked for is pending, at work, done, or was skipped: no
\* request gets lost between its consumption and the painting (PollEvents).
RequestsKept == painted < asked => requested \/ ui = "repaint" \/ skipped

\* What waits for an answer is still in the queue, and the queue holds the latest
\* events in the order they were sent in: no request is dropped or overtaken,
\* whatever is read before it (PollEvents).
RequestsQueued ==
  /\ \A n \in unanswered :
       \E i \in 1 .. Len(queue) : queue[i].number = n /\ queue[i].kind \in Requests
  /\ \A i \in 1 .. Len(queue) : queue[i].number + Len(queue) = sent + i

\* The Navigator gets its answer to every orientation request (PollEvents).
OrientationAnswered == \A n \in 1 .. MaxEvents : n \in unanswered ~> n \notin unanswered

\* What the toolbar was asked to show is painted, or found nothing to paint on.
ToolbarShown == painted < asked ~> painted >= asked \/ skipped
=============================================================================
