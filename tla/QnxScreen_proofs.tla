------------------------- MODULE QnxScreen_proofs -------------------------
(***************************************************************************)
(* Whatever the numbers of windows, events and toolbar changes: no pointer *)
(* to a window outlives it, no size the shell asks of a window makes a     *)
(* frame too tall, input goes to windows on the screen, and no request for *)
(* a repaint or an orientation is lost.                                    *)
(***************************************************************************)
EXTENDS QnxScreen, WellFoundedInduction, TLAPS

\* A window is in the map and in the dispatcher list exactly while it has a
\* native window, and is drawn only while its compositor exists.
WindowInv ==
  /\ windows = native /\ dispatchers = native
  /\ native \subseteq alive
  /\ onScreen = visible \cap native
  /\ compositor \subseteq native
  /\ Drawn \subseteq compositor
  /\ frame # None => canvas[frame] # 0
  /\ focus # None => focus \in native
  /\ \A w \in Widgets : bounds[w] <= Panel /\ (canvas[w] <= Panel \/ w \in beyond)

ToolbarInv ==
  /\ asked <= toolbar
  /\ RequestsKept

ScreenInv == TypeOK /\ WindowInv /\ ToolbarInv

\* A nonempty set of widgets has a smallest element.
LEMMA SmallestWidget ==
  ASSUME NEW S \in SUBSET Nat, S # {}
  PROVE  \E w \in S : \A v \in S : w <= v
  <1>. DEFINE R == {p \in Nat \X Nat : p[1] < p[2]}
  <1>1. IsWellFoundedOn(R, Nat)
    BY NatLessThanWellFounded DEF OpToRel
  <1>. HIDE DEF R
  <1>2. \E w \in S : \A v \in S : ~ (<<v, w>> \in R)
    BY <1>1, WFMin
  <1>3. ASSUME NEW v \in Nat, NEW w \in Nat, v < w PROVE <<v, w>> \in R
    <2>1. <<v, w>>[1] < <<v, w>>[2]
      BY <1>3
    <2>. QED
      BY <2>1 DEF R
  <1>4. ASSUME NEW v \in S, NEW w \in S, ~ (<<v, w>> \in R) PROVE w <= v
    BY <1>3, <1>4
  <1>. QED
    BY <1>2, <1>4

\* A dispatched event goes to a taker if there is one.
LEMMA TargetTakes ==
  ASSUME TypeOK
  PROVE  Target \in 0 .. MaxWindows /\ (Takers # {} => Target \in Takers)
  <1>. USE ScreenAssumption
  <1>1. Takers \subseteq 1 .. MaxWindows
    BY DEF Takers, TypeOK, Widgets
  <1>2. CASE Takers = {}
    BY <1>2 DEF Target, None
  <1>3. CASE Takers # {}
    <2>1. \E w \in Takers : \A v \in Takers : w <= v
      BY <1>1, <1>3, SmallestWidget
    <2>2. Target \in Takers
      BY <1>3, <2>1 DEF Target
    <2>. QED
      BY <1>1, <2>2
  <1>. QED
    BY <1>2, <1>3

\* The initial state is as the invariant says.
LEMMA InitialInv == Init => ScreenInv
  <1>. SUFFICES ASSUME Init PROVE ScreenInv
    OBVIOUS
  <1>. USE ScreenAssumption DEF Init
  <1>1. TypeOK
    <2>1. input \in Nat \X (0 .. MaxWindows + 1)
      BY DEF None
    <2>2. 0 \in 0 .. MaxWindows /\ 0 \in 0 .. MaxEvents
      OBVIOUS
    <2>3. bounds \in [Widgets -> Nat] /\ canvas \in [Widgets -> Nat]
      OBVIOUS
    <2>4. queue \in Seq([number : 1 .. MaxEvents, kind : Events])
      OBVIOUS
    <2>. QED
      BY <2>1, <2>2, <2>3, <2>4 DEF TypeOK, None
  <1>2. WindowInv
    BY DEF WindowInv, Drawn, None
  <1>3. ToolbarInv
    BY DEF ToolbarInv, RequestsKept
  <1>. QED
    BY <1>1, <1>2, <1>3 DEF ScreenInv

\* Every action keeps the types.
LEMMA TypesKept == TypeOK /\ [Next]_vars => TypeOK'
  <1>. SUFFICES ASSUME TypeOK, [Next]_vars PROVE TypeOK'
    OBVIOUS
  <1>. USE ScreenAssumption DEF TypeOK, windowVars, surfaceVars, inputVars, toolbarVars
  <1>1. CASE UNCHANGED vars
    BY <1>1 DEF vars
  <1>2. CASE CreateWindow
    <2>1. created + 1 \in Widgets /\ created' = created + 1 /\ created' \in 0 .. MaxWindows
      BY <1>2 DEF CreateWindow, NewWidget, Widgets
    <2>2. alive' \subseteq 1 .. created'
      BY <1>2, <2>1 DEF CreateWindow, NewWidget
    <2>. QED
      BY <1>2, <2>1, <2>2 DEF CreateWindow, NewWidget, Register, ClaimKeyboardFocus
  <1>3. ASSUME NEW w \in Widgets, NEW size \in Sizes, SetBounds(w, size) PROVE TypeOK'
    <2>1. bounds' \in [Widgets -> Nat]
      BY <1>3 DEF SetBounds, NewBounds
    <2>. QED
      BY <1>3, <2>1 DEF SetBounds
  <1>4. CASE WindowNext
    <2>1. ASSUME NEW w \in Widgets,
                 \/ \E inactive \in BOOLEAN : Show(w, inactive)
                 \/ Hide(w) \/ DestroyCompositor(w) \/ DestroyWindow(w)
          PROVE  TypeOK'
      <3>1. CASE \E inactive \in BOOLEAN : Show(w, inactive)
        BY <3>1 DEF Show, ClaimKeyboardFocus
      <3>2. CASE Hide(w)
        BY <3>2 DEF Hide
      <3>3. CASE DestroyCompositor(w)
        BY <3>3 DEF DestroyCompositor
      <3>4. CASE DestroyWindow(w)
        BY <3>4 DEF DestroyWindow
      <3>. QED
        BY <2>1, <3>1, <3>2, <3>3, <3>4
    <2>. QED
      BY <1>2, <1>3, <1>4, <2>1 DEF WindowNext
  <1>5. CASE SurfaceNext
    <2>1. ASSUME NEW w \in Widgets,
                 \/ CreateCanvasForWidget(w) \/ CreateViewGLSurface(w)
                 \/ PresentCanvas(w) \/ \E size \in Sizes : ResizeCanvas(w, size)
          PROVE  TypeOK'
      BY <2>1 DEF CreateCanvasForWidget, CreateViewGLSurface, ResizeCanvas, PresentCanvas
    <2>2. CASE PostFrame
      BY <2>2 DEF PostFrame
    <2>. QED
      BY <1>5, <2>1, <2>2 DEF SurfaceNext
  <1>6. CASE PollEvents \/ Drained \/ PaintToolbar \/ PostToolbar
    BY <1>6 DEF PollEvents, Drained, PaintToolbar, PostToolbar
  <1>7. ASSUME queue # <<>>, queue' = Tail(queue)
        PROVE  queue' \in Seq([number : 1 .. MaxEvents, kind : Events])
    BY <1>7
  <1>8. CASE ProcessInput
    <2>1. Target \in 0 .. MaxWindows /\ input[1] \in Nat
      BY TargetTakes
    <2>2. input' \in Nat \X (0 .. MaxWindows + 1)
      BY <1>8, <2>1 DEF ProcessInput, Consumed
    <2>. QED
      BY <1>7, <1>8, <2>2 DEF ProcessInput, ReadEvent
  <1>9. CASE AnswerNavigator \/ IgnoreEvent
    BY <1>7, <1>9 DEF AnswerNavigator, IgnoreEvent, ReadEvent
  <1>10. ASSUME NEW e \in Events, SendEvent(e) PROVE TypeOK'
    <2>1. sent + 1 \in 1 .. MaxEvents /\ sent' \in 0 .. MaxEvents
      BY <1>10 DEF SendEvent
    <2>2. [number |-> sent + 1, kind |-> e] \in [number : 1 .. MaxEvents, kind : Events]
      BY <2>1
    <2>3. queue' \in Seq([number : 1 .. MaxEvents, kind : Events])
      BY <1>10, <2>2 DEF SendEvent
    <2>. QED
      BY <1>10, <2>1, <2>3 DEF SendEvent
  <1>11. CASE ChangeToolbar \/ RequestQnxScreenRepaint
    <2>1. CASE ChangeToolbar
      BY <2>1 DEF ChangeToolbar
    <2>2. CASE RequestQnxScreenRepaint
      BY <2>2 DEF RequestQnxScreenRepaint
    <2>. QED
      BY <1>11, <2>1, <2>2
  <1>. QED
    BY <1>1, <1>4, <1>5, <1>6, <1>8, <1>9, <1>10, <1>11 DEF Next, SourceNext

\* Every action keeps the windows registered while, and only while, they have
\* a native window.
LEMMA WindowsKept == TypeOK /\ WindowInv /\ [Next]_vars => WindowInv'
  <1>. SUFFICES ASSUME TypeOK, WindowInv, [Next]_vars PROVE WindowInv'
    OBVIOUS
  <1>. USE ScreenAssumption DEF WindowInv, Drawn, windowVars, surfaceVars
  <1>1. CASE UNCHANGED <<windowVars, surfaceVars>>
    BY <1>1
  <1>2. CASE CreateWindow
    <2>. DEFINE w == created + 1
    <2>1. w \in Widgets /\ w \notin alive
      BY <1>2 DEF CreateWindow, Widgets, TypeOK
    <2>2. bounds' = [bounds EXCEPT ![w] = Panel] /\ alive' = alive \cup {w}
      BY <1>2 DEF CreateWindow, NewWidget
    <2>3. \A v \in Widgets : bounds'[v] <= Panel /\ (canvas'[v] <= Panel \/ v \in beyond')
      BY <1>2, <2>1, <2>2 DEF CreateWindow, TypeOK
    <2>4. Register(w) \/ UNCHANGED <<native, onScreen, visible, windows, dispatchers, compositor, focus>>
      BY <1>2 DEF CreateWindow, NewWidget
    <2>5. UNCHANGED <<canvas, egl, frame>>
      BY <1>2 DEF CreateWindow
    <2>6. windows' = native' /\ dispatchers' = native' /\ native' \subseteq alive'
          /\ onScreen' = visible' \cap native' /\ compositor' \subseteq native'
          /\ compositor \subseteq compositor' /\ (focus' # None => focus' \in native')
      BY <2>1, <2>2, <2>4 DEF Register, ClaimKeyboardFocus
    <2>. QED
      BY <2>3, <2>5, <2>6
  <1>3. ASSUME NEW w \in Widgets, NEW size \in Sizes, SetBounds(w, size) PROVE WindowInv'
    <2>1. bounds' = bounds
      BY <1>3 DEF SetBounds, NewBounds, TypeOK
    <2>. QED
      BY <1>3, <2>1 DEF SetBounds
  <1>4. ASSUME NEW w \in Widgets, Hide(w) \/ \E inactive \in BOOLEAN : Show(w, inactive)
        PROVE  WindowInv'
    BY <1>4 DEF Show, Hide, ClaimKeyboardFocus
  <1>5. ASSUME NEW w \in Widgets, DestroyCompositor(w) PROVE WindowInv'
    <2>1. canvas' = [canvas EXCEPT ![w] = 0]
      BY <1>5 DEF DestroyCompositor
    <2>2. \A v \in Widgets \ {w} : canvas'[v] = canvas[v]
      BY <2>1 DEF TypeOK
    <2>3. canvas'[w] = 0
      BY <2>1 DEF TypeOK
    <2>4. \A v \in Widgets : canvas'[v] <= Panel \/ v \in beyond'
      BY <1>5, <2>2, <2>3 DEF DestroyCompositor
    <2>. QED
      BY <1>5, <2>2, <2>3, <2>4 DEF DestroyCompositor, TypeOK, None
  <1>6. ASSUME NEW w \in Widgets, DestroyWindow(w) PROVE WindowInv'
    BY <1>6 DEF DestroyWindow
  <1>7. CASE WindowNext
    BY <1>2, <1>3, <1>4, <1>5, <1>6, <1>7 DEF WindowNext
  <1>8. ASSUME NEW w \in Widgets, NEW size \in Sizes, ResizeCanvas(w, size) PROVE WindowInv'
    <2>1. canvas' = [canvas EXCEPT ![w] = size] /\ canvas[w] # 0 /\ frame = None /\ frame' = frame
      BY <1>8 DEF ResizeCanvas
    <2>2. \A v \in Widgets \ {w} : canvas'[v] = canvas[v]
      BY <2>1 DEF TypeOK
    <2>3. canvas'[w] = size /\ size # 0 /\ size \in Nat
      BY <2>1 DEF TypeOK
    <2>4. beyond' = IF size > bounds[w] THEN beyond \cup {w} ELSE beyond \ {w}
      BY <1>8 DEF ResizeCanvas
    <2>5. size <= Panel \/ w \in beyond'
      <3>1. bounds[w] \in Nat /\ bounds[w] <= Panel
        BY DEF TypeOK
      <3>. QED
        BY <2>3, <2>4, <3>1
    <2>6. \A v \in Widgets : canvas'[v] <= Panel \/ v \in beyond'
      BY <2>2, <2>3, <2>4, <2>5
    <2>7. \A v \in Widgets : canvas'[v] # 0 <=> canvas[v] # 0
      BY <2>1, <2>2, <2>3
    <2>. QED
      BY <1>8, <2>1, <2>6, <2>7 DEF ResizeCanvas
  <1>9. ASSUME NEW w \in Widgets, CreateCanvasForWidget(w) PROVE WindowInv'
    <2>1. canvas[w] = 0 /\ canvas' = [canvas EXCEPT ![w] = bounds[w]]
      BY <1>9 DEF CreateCanvasForWidget
    <2>2. \A v \in Widgets \ {w} : canvas'[v] = canvas[v]
      BY <2>1 DEF TypeOK
    <2>3. canvas'[w] = bounds[w]
      BY <2>1 DEF TypeOK
    <2>4. \A v \in Widgets : canvas'[v] <= Panel \/ v \in beyond'
      BY <1>9, <2>2, <2>3 DEF CreateCanvasForWidget
    <2>5. frame # None => frame # w /\ frame \in Widgets
      BY <2>1 DEF TypeOK
    <2>. QED
      BY <1>9, <2>2, <2>4, <2>5 DEF CreateCanvasForWidget
  <1>10. ASSUME NEW w \in Widgets,
                \/ CreateViewGLSurface(w) \/ PresentCanvas(w)
                \/ \E size \in Sizes : ResizeCanvas(w, size)
         PROVE  WindowInv'
    <2>1. CASE CreateViewGLSurface(w)
      BY <2>1 DEF CreateViewGLSurface
    <2>2. CASE \E size \in Sizes : ResizeCanvas(w, size)
      BY <1>8, <2>2
    <2>3. CASE PresentCanvas(w)
      BY <2>3 DEF PresentCanvas
    <2>. QED
      BY <1>10, <2>1, <2>2, <2>3
  <1>11. CASE SurfaceNext
    BY <1>9, <1>10, <1>11 DEF SurfaceNext, PostFrame
  <1>12. CASE SourceNext \/ ChangeToolbar \/ RequestQnxScreenRepaint
              \/ \E e \in Events : SendEvent(e)
    BY <1>1, <1>12 DEF SourceNext, PollEvents, ProcessInput, AnswerNavigator, IgnoreEvent,
                       ReadEvent, Drained, PaintToolbar, PostToolbar, ChangeToolbar,
                       RequestQnxScreenRepaint, SendEvent
  <1>. QED
    BY <1>1, <1>7, <1>11, <1>12 DEF Next, vars

\* Every action keeps track of the repaint that was asked for.
LEMMA RequestKept == TypeOK /\ ToolbarInv /\ [Next]_vars => ToolbarInv'
  <1>. SUFFICES ASSUME TypeOK, ToolbarInv, [Next]_vars PROVE ToolbarInv'
    OBVIOUS
  <1>. USE DEF ToolbarInv, RequestsKept, toolbarVars
  <1>1. CASE UNCHANGED <<ui, toolbarVars>>
    BY <1>1
  <1>2. CASE PollEvents
    BY <1>2 DEF PollEvents
  <1>3. CASE Drained
    BY <1>3 DEF Drained
  <1>4. CASE PaintToolbar \/ PostToolbar
    <2>1. CASE PaintToolbar
      BY <2>1 DEF PaintToolbar, TypeOK
    <2>2. CASE PostToolbar
      BY <2>2 DEF PostToolbar
    <2>. QED
      BY <1>4, <2>1, <2>2
  <1>5. CASE ChangeToolbar
    BY <1>5 DEF ChangeToolbar, TypeOK
  <1>6. CASE RequestQnxScreenRepaint
    BY <1>6 DEF RequestQnxScreenRepaint, TypeOK
  <1>7. CASE WindowNext \/ SurfaceNext \/ ProcessInput \/ AnswerNavigator \/ IgnoreEvent
             \/ \E e \in Events : SendEvent(e)
    <2>1. CASE WindowNext
      BY <1>1, <2>1 DEF WindowNext, CreateWindow, Show, Hide, DestroyCompositor, DestroyWindow, SetBounds
    <2>2. CASE SurfaceNext
      BY <1>1, <2>2 DEF SurfaceNext, CreateCanvasForWidget, CreateViewGLSurface, ResizeCanvas, PresentCanvas, PostFrame
    <2>. QED
      BY <1>1, <1>7, <2>1, <2>2 DEF ProcessInput, AnswerNavigator, IgnoreEvent, ReadEvent, SendEvent
  <1>. QED
    BY <1>1, <1>2, <1>3, <1>4, <1>5, <1>6, <1>7 DEF Next, SourceNext, vars

\* The invariant is inductive.
LEMMA Inductive == ScreenInv /\ [Next]_vars => ScreenInv'
  BY TypesKept, WindowsKept, RequestKept DEF ScreenInv

\* In every behaviour the variables keep their types.
THEOREM TypeCorrect == Spec => []TypeOK
  <1>1. ScreenInv => TypeOK
    BY DEF ScreenInv
  <1>. QED
    BY InitialInv, Inductive, <1>1, PTL DEF Spec

\* No pointer to a window outlives the window, however many windows are
\* created, hidden and destroyed while frames are presented.
THEOREM PointersStayLive == Spec => []PointersLive
  <1>1. ScreenInv => PointersLive
    <2>. SUFFICES ASSUME ScreenInv PROVE PointersLive
      OBVIOUS
    <2>1. Drawn \subseteq native
      BY DEF ScreenInv, WindowInv
    <2>2. frame # None => frame \in Drawn
      BY DEF ScreenInv, WindowInv, TypeOK, Drawn
    <2>. QED
      BY <2>1, <2>2 DEF PointersLive, ScreenInv, WindowInv
  <1>. QED
    BY InitialInv, Inductive, <1>1, PTL DEF Spec

\* No frame is taller than the buffer it is copied into unless the compositor
\* itself asked for a canvas taller than its window: whatever the panel, and
\* whatever sizes the shell asks of the window before and after the canvas is
\* made (SetBoundsInPixels, QnxScreenCanvas, ResizeCanvas).
THEOREM FramesFit == Spec => []RowsFit
  <1>1. ScreenInv => RowsFit
    BY DEF ScreenInv, WindowInv, RowsFit
  <1>. QED
    BY InitialInv, Inductive, <1>1, PTL DEF Spec

\* No repaint request is lost.
THEOREM NoLostRepaint == Spec => []RequestsKept
  <1>1. ScreenInv => RequestsKept
    BY DEF ScreenInv, ToolbarInv
  <1>. QED
    BY InitialInv, Inductive, <1>1, PTL DEF Spec

\* Input that nobody consumes goes to a window on the screen if there is one.
THEOREM InputIsRouted == Spec => InputReachesScreen
  <1>1. ScreenInv /\ [Next]_vars =>
          [input' # input /\ onScreen # {} => input'[2] \in onScreen \cup {Consumed}]_vars
    <2>. SUFFICES ASSUME ScreenInv, Next, input' # input, onScreen # {}
                  PROVE  input'[2] \in onScreen \cup {Consumed}
      OBVIOUS
    <2>1. ProcessInput
      BY DEF Next, WindowNext, SurfaceNext, SourceNext, inputVars, CreateWindow, Show, Hide,
             DestroyCompositor, DestroyWindow, SetBounds, CreateCanvasForWidget,
             CreateViewGLSurface, ResizeCanvas, PresentCanvas, PostFrame, PollEvents,
             AnswerNavigator, IgnoreEvent, ReadEvent, Drained, PaintToolbar, PostToolbar,
             ChangeToolbar, RequestQnxScreenRepaint, SendEvent
    <2>2. Takers = onScreen
      BY DEF Takers, ScreenInv, WindowInv
    <2>3. Target \in onScreen
      BY <2>2, TargetTakes DEF ScreenInv
    <2>. QED
      BY <2>1, <2>3 DEF ProcessInput
  <1>. QED
    BY InitialInv, Inductive, <1>1, PTL DEF Spec, InputReachesScreen
-----------------------------------------------------------------------------
\* The numbers of the events are numbers.
LEMMA QueueNumbered ==
  ASSUME TypeOK
  PROVE  /\ Len(queue) \in Nat /\ sent \in Nat
         /\ \A i \in 1 .. Len(queue) : queue[i].number \in Nat
  <1>. DEFINE Numbered == [number : 1 .. MaxEvents, kind : Events]
  <1>0. queue \in Seq(Numbered)
    BY DEF TypeOK
  <1>1. \A i \in 1 .. Len(queue) : queue[i] \in Numbered
    <2>. HIDE DEF Numbered
    <2>. QED
      BY <1>0
  <1>2. \A n \in 1 .. MaxEvents : n \in Nat
    BY ScreenAssumption
  <1>3. \A i \in 1 .. Len(queue) : queue[i].number \in 1 .. MaxEvents
    BY <1>1
  <1>4. Len(queue) \in Nat
    BY <1>0
  <1>5. sent \in Nat
    BY ScreenAssumption DEF TypeOK
  <1>. QED
    BY <1>2, <1>3, <1>4, <1>5

\* Reading an event moves the others up by one.
LEMMA ReadMovesUp ==
  ASSUME TypeOK, NEW kinds, ReadEvent(kinds)
  PROVE  /\ Len(queue) \in Nat \ {0} /\ Head(queue) = queue[1]
         /\ Len(queue') = Len(queue) - 1
         /\ \A i \in 1 .. Len(queue') : queue'[i] = queue[i + 1]
  BY DEF TypeOK, ReadEvent

\* A request leaves the queue only by being answered.
LEMMA QueueKept == TypeOK /\ RequestsQueued /\ [Next]_vars => RequestsQueued'
  <1>. SUFFICES ASSUME TypeOK, RequestsQueued, [Next]_vars PROVE RequestsQueued'
    OBVIOUS
  <1>1. CASE UNCHANGED <<queue, sent, unanswered>>
    BY <1>1 DEF RequestsQueued
  <1>2. ASSUME NEW e \in Events, SendEvent(e) PROVE RequestsQueued'
    <2>. DEFINE event == [number |-> sent + 1, kind |-> e]
    <2>1. queue' = Append(queue, event) /\ sent' = sent + 1 /\ sent \in Nat
      BY <1>2, ScreenAssumption DEF SendEvent, TypeOK
    <2>2. /\ Len(queue) \in Nat /\ Len(queue') = Len(queue) + 1
          /\ \A i \in 1 .. Len(queue) : queue'[i] = queue[i]
          /\ queue'[Len(queue')] = event
      BY <2>1 DEF TypeOK
    <2>3. \A i \in 1 .. Len(queue') : queue'[i].number + Len(queue') = sent' + i
      <3>. SUFFICES ASSUME NEW i \in 1 .. Len(queue')
                    PROVE  queue'[i].number + Len(queue') = sent' + i
        OBVIOUS
      <3>1. CASE i \in 1 .. Len(queue)
        <4>1. queue[i].number + Len(queue) = sent + i /\ queue[i].number \in Nat
          BY <3>1, QueueNumbered DEF RequestsQueued
        <4>2. queue'[i].number \in Nat /\ queue'[i].number + Len(queue) = sent + i
          BY <2>2, <3>1, <4>1
        <4>3. /\ Len(queue) \in Nat /\ Len(queue') = Len(queue) + 1
              /\ sent \in Nat /\ sent' = sent + 1 /\ i \in Nat
          BY <2>1, <2>2, <3>1
        <4>. QED
          BY <4>2, <4>3
      <3>2. CASE i \notin 1 .. Len(queue)
        <4>1. i = Len(queue')
          BY <2>2, <3>2
        <4>2. queue'[i].number = sent + 1
          BY <2>2, <4>1
        <4>3. Len(queue) \in Nat /\ Len(queue') = Len(queue) + 1
          BY <2>2
        <4>. QED
          BY <2>1, <4>1, <4>2, <4>3
      <3>. QED
        BY <3>1, <3>2
    <2>4. ASSUME NEW n \in unanswered'
          PROVE  \E i \in 1 .. Len(queue') : queue'[i].number = n /\ queue'[i].kind \in Requests
      <3>1. CASE n \in unanswered
        BY <2>2, <3>1 DEF RequestsQueued
      <3>2. CASE n \notin unanswered
        <4>1. n = sent + 1 /\ e \in Requests
          BY <1>2, <2>4, <3>2 DEF SendEvent
        <4>. QED
          BY <2>2, <4>1
      <3>. QED
        BY <3>1, <3>2
    <2>. QED
      BY <2>3, <2>4 DEF RequestsQueued
  <1>3. ASSUME NEW kinds, ReadEvent(kinds), unanswered' \subseteq unanswered,
               Head(queue).kind \in Requests => Head(queue).number \notin unanswered'
        PROVE  RequestsQueued'
    <2>1. \A i \in 1 .. Len(queue') : queue'[i].number + Len(queue') = sent' + i
      <3>. SUFFICES ASSUME NEW i \in 1 .. Len(queue')
                    PROVE  queue'[i].number + Len(queue') = sent' + i
        OBVIOUS
      <3>1. sent' = sent
        BY <1>3 DEF ReadEvent
      <3>2. i + 1 \in 1 .. Len(queue) /\ queue'[i] = queue[i + 1]
        BY <1>3, ReadMovesUp
      <3>3. queue[i + 1].number + Len(queue) = sent + (i + 1) /\ queue[i + 1].number \in Nat
        BY <3>2, QueueNumbered DEF RequestsQueued
      <3>4. queue'[i].number = queue[i + 1].number
        BY <3>2
      <3>5. Len(queue) \in Nat /\ Len(queue') = Len(queue) - 1 /\ sent \in Nat /\ i \in Nat
        BY <1>3, <3>2, QueueNumbered, ReadMovesUp
      <3>6. queue'[i].number \in Nat /\ queue'[i].number + Len(queue) = sent + (i + 1)
        BY <3>3, <3>4
      <3>. QED
        BY <3>1, <3>5, <3>6
    <2>2. ASSUME NEW n \in unanswered'
          PROVE  \E i \in 1 .. Len(queue') : queue'[i].number = n /\ queue'[i].kind \in Requests
      <3>1. PICK i \in 1 .. Len(queue) : queue[i].number = n /\ queue[i].kind \in Requests
        BY <1>3, <2>2 DEF RequestsQueued
      <3>2. i # 1
        BY <1>3, <2>2, <3>1, ReadMovesUp
      <3>3. i - 1 \in 1 .. Len(queue') /\ queue'[i - 1] = queue[i]
        BY <1>3, <3>2, ReadMovesUp
      <3>. QED
        BY <3>1, <3>3
    <2>. QED
      BY <2>1, <2>2 DEF RequestsQueued
  <1>4. CASE ProcessInput \/ IgnoreEvent
    <2>1. \A k \in Inputs \cup {"other"} : k \notin Requests
      BY DEF Inputs, Requests
    <2>. QED
      BY <1>3, <1>4, <2>1 DEF ProcessInput, IgnoreEvent, ReadEvent
  <1>5. CASE AnswerNavigator
    BY <1>3, <1>5 DEF AnswerNavigator
  <1>6. CASE \/ WindowNext \/ SurfaceNext \/ PollEvents \/ Drained \/ PaintToolbar
             \/ PostToolbar \/ ChangeToolbar \/ RequestQnxScreenRepaint \/ UNCHANGED vars
    BY <1>1, <1>6
       DEF WindowNext, CreateWindow, Show, Hide, DestroyCompositor, DestroyWindow, SetBounds,
           SurfaceNext, CreateCanvasForWidget, CreateViewGLSurface, ResizeCanvas, PresentCanvas,
           PostFrame, PollEvents, Drained, PaintToolbar, PostToolbar, ChangeToolbar,
           RequestQnxScreenRepaint, inputVars, vars
  <1>. QED
    BY <1>2, <1>4, <1>5, <1>6 DEF Next, SourceNext

\* No orientation request is lost before its answer, whatever is read before it:
\* what OrientationAnswered needs besides a poll timer that keeps firing
\* (PollEvents).
THEOREM RequestsWaitInQueue == Spec => []RequestsQueued
  <1>1. Init => RequestsQueued
    BY DEF Init, RequestsQueued
  <1>. QED
    BY TypeCorrect, QueueKept, <1>1, PTL DEF Spec
=============================================================================
