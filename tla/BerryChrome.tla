----------------------------- MODULE BerryChrome -----------------------------
(***************************************************************************)
(* The toolbar of the shells (berry_browser_chrome.cc) and the delegate    *)
(* that owns it and passes on what the page does (shell_platform_delegate_ *)
(* qnx.cc).  Keys and taps come from the input callbacks, page events from *)
(* the browser, and whoever navigates takes the committed URL away.        *)
(***************************************************************************)
EXTENDS Integers, Sequences

CONSTANTS
  Shells,
  Chars,      \* what texts are made of
  MaxText,    \* bound: characters of a text
  Widths, Heights   \* window sizes asked for, 0 for the default

Texts == UNION {[1 .. n -> Chars] : n \in 0 .. MaxText}
kToolbarHeight == 56
kButtonWidth == 44
DefaultSide == 1440

VARIABLES
  chrome,  \* chrome[s]: None, or the BerryBrowserChrome of shell s
  view,    \* view[s]: the size last given to the web content
  told     \* history: told[s]: the page has told its URL since the last Enter

vars == <<chrome, view, told>>

None == [width |-> -1]
NoView == <<-1, -1>>

\* A rectangle as gfx::Rect has it: an extent below zero is zero.
Rect(x, y, w, h) == [x |-> x, y |-> y, w |-> IF w < 0 THEN 0 ELSE w, h |-> IF h < 0 THEN 0 ELSE h]
Inside(r, px, py) == px >= r.x /\ px < r.x + r.w /\ py >= r.y /\ py < r.y + r.h

\* The constructor: three buttons and the URL bar from left to right.
Button(x) == Rect(x, 6, kButtonWidth, kToolbarHeight - 12)
back_rect == Button(4)
forward_rect == Button(4 + kButtonWidth + 2)
reload_rect == Button(4 + 2 * (kButtonWidth + 2))

\* Faulty variant: the bar starts where the last button does.
UrlRectAtButton(width) ==
  LET x == 4 + 2 * (kButtonWidth + 2) + 8 IN Rect(x, 6, width - x - 8, kToolbarHeight - 12)

UrlRect(width) ==
  LET x == 4 + 2 * (kButtonWidth + 2) + kButtonWidth + 8 IN
  Rect(x, 6, width - x - 8, kToolbarHeight - 12)

Rects(width) == [kBack |-> back_rect, kForward |-> forward_rect, kReload |-> reload_rect,
                 kUrlBar |-> UrlRect(width)]

\* The code takes the first rectangle of these four that has the point.
HitTest(width, x, y) ==
  LET order == <<"kBack", "kForward", "kReload", "kUrlBar">>
      hits == {n \in 1 .. 4 : Inside(Rects(width)[order[n]], x, y)} IN
  IF hits = {} THEN "kNone" ELSE order[CHOOSE n \in hits : \A k \in hits : n <= k]

WebContentBounds(c) == Rect(0, kToolbarHeight, c.width, c.height - kToolbarHeight)

Init ==
  /\ chrome = [s \in Shells |-> None] /\ view = [s \in Shells |-> NoView]
  /\ told = [s \in Shells |-> TRUE]

HasChrome(s) == chrome[s] # None

\* What Paint draws in the bar.
Displayed(c) == IF c.editing THEN c.edit_text ELSE c.url
-----------------------------------------------------------------------------
(* The delegate; without a chrome (headless, or a shell cleaned up) its    *)
(* calls have no effect.                                                   *)

CreatePlatformWindow(s, w, h) ==
  /\ chrome' = [chrome EXCEPT ![s] =
       [width |-> IF w > 0 THEN w ELSE DefaultSide, height |-> IF h > 0 THEN h ELSE DefaultSide,
        url |-> <<>>, edit_text |-> <<>>, committed_url |-> <<>>,
        editing |-> FALSE, loading |-> FALSE, can_go_back |-> FALSE, can_go_forward |-> FALSE,
        url_committed |-> FALSE]]
  /\ told' = [told EXCEPT ![s] = TRUE]
  /\ UNCHANGED view

CleanUp(s) == chrome' = [chrome EXCEPT ![s] = None] /\ UNCHANGED <<view, told>>

\* With a chrome the size asked for is not looked at.
ResizeWebContent(s, w, h) ==
  /\ view' = [view EXCEPT ![s] =
       IF HasChrome(s) THEN LET r == WebContentBounds(chrome[s]) IN <<r.w, r.h>> ELSE <<w, h>>]
  /\ UNCHANGED <<chrome, told>>

Replaces(s, c) == HasChrome(s) /\ chrome' = [chrome EXCEPT ![s] = c] /\ UNCHANGED view
Sets(s, c) == Replaces(s, c) /\ UNCHANGED told

\* Faulty variant: what is edited next is not brought up to date.
SetUrlKeepingText(s, u) ==
  /\ Replaces(s, [chrome[s] EXCEPT !.url = u])
  /\ told' = [told EXCEPT ![s] = TRUE]

\* Faulty variant: the page's URL replaces what is being typed.
SetUrlAlways(s, u) ==
  /\ Replaces(s, [chrome[s] EXCEPT !.url = u, !.edit_text = u])
  /\ told' = [told EXCEPT ![s] = TRUE]

SetUrl(s, u) ==
  /\ Replaces(s, [chrome[s] EXCEPT !.url = u, !.edit_text = IF chrome[s].editing THEN @ ELSE u])
  /\ told' = [told EXCEPT ![s] = TRUE]

SetAddressBarURL(s, u) == SetUrl(s, u)

EnableUIControl(s, b) ==
  \/ Sets(s, [chrome[s] EXCEPT !.can_go_back = b])
  \/ Sets(s, [chrome[s] EXCEPT !.can_go_forward = b])

SetIsLoading(s, b) == Sets(s, [chrome[s] EXCEPT !.loading = b])
-----------------------------------------------------------------------------
(* Keys, and the commit they end in. *)

OnChar(s, ch) ==
  /\ HasChrome(s) /\ Len(chrome[s].edit_text) < MaxText
  /\ Sets(s, [chrome[s] EXCEPT !.editing = TRUE, !.edit_text = Append(@, ch)])

OnBackspace(s) ==
  Sets(s, [chrome[s] EXCEPT !.editing = TRUE,
                            !.edit_text = IF @ = <<>> THEN @ ELSE SubSeq(@, 1, Len(@) - 1)])

OnEnter(s) ==
  /\ Replaces(s, [chrome[s] EXCEPT !.committed_url = chrome[s].edit_text, !.url_committed = TRUE,
                                   !.editing = FALSE])
  /\ told' = [told EXCEPT ![s] = FALSE]

ClearCommit(s) == Sets(s, [chrome[s] EXCEPT !.url_committed = FALSE])

Next == \E s \in Shells :
  \/ \E w \in Widths, h \in Heights : CreatePlatformWindow(s, w, h) \/ ResizeWebContent(s, w, h)
  \/ CleanUp(s)
  \/ \E u \in Texts : SetAddressBarURL(s, u)
  \/ \E b \in BOOLEAN : EnableUIControl(s, b) \/ SetIsLoading(s, b)
  \/ \E ch \in Chars : OnChar(s, ch)
  \/ OnBackspace(s) \/ OnEnter(s) \/ ClearCommit(s)

Spec == Init /\ [][Next]_vars
-----------------------------------------------------------------------------
TypeOK ==
  \A s \in Shells :
    /\ view[s][1] \in Nat \cup {-1} /\ view[s][2] \in Nat \cup {-1}
    /\ HasChrome(s) =>
         /\ chrome[s].width \in Nat \ {0} /\ chrome[s].height \in Nat \ {0}
         /\ {chrome[s].url, chrome[s].edit_text, chrome[s].committed_url} \subseteq Texts

\* Enter would commit what the bar displays, whatever order keys and URLs of
\* the page came in; only between an Enter and the URL of the page it led to
\* does the bar show the old one (berry_browser_chrome.cc:29-52, 106).
EnterCommitsWhatIsShown == \A s \in Shells :
  HasChrome(s) /\ (chrome[s].editing \/ told[s]) => chrome[s].edit_text = Displayed(chrome[s])

\* While the user types only a key changes the text in the bar, by its last
\* character (berry_browser_chrome.cc:31).
TypingIsUndisturbed == [][\A s \in Shells :
  HasChrome(s) /\ HasChrome(s)' /\ chrome[s].editing /\ chrome'[s].editing =>
    LET t == Displayed(chrome[s])  t1 == Displayed(chrome'[s]) IN
    t1 = t \/ (\E ch \in Chars : t1 = Append(t, ch) \/ t = Append(t1, ch))]_vars

Apart(q, r) == q.x + q.w <= r.x \/ r.x + r.w <= q.x \/ q.y + q.h <= r.y \/ r.y + r.h <= q.y

\* However narrow or low the window: no point hits two buttons, and none of
\* the web content hits any (berry_browser_chrome.cc:13-25, 54-65).
HitsApart == \A s \in Shells : HasChrome(s) =>
  LET R == Rects(chrome[s].width) IN
  /\ \A a, b \in DOMAIN R : a # b => Apart(R[a], R[b])
  /\ \A a \in DOMAIN R : Apart(R[a], WebContentBounds(chrome[s]))
  /\ \A a \in DOMAIN R : R[a].w > 0 => HitTest(chrome[s].width, R[a].x, R[a].y) = a
=============================================================================
