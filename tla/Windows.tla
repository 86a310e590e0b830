------------------------------ MODULE Windows ------------------------------
(***************************************************************************)
(* The windows of the plugins under the mouse (client/WindowManager.cpp,   *)
(* client/ui/UIBoard.cpp, UISuper.cpp, MiniMap.cpp): who gets a press,     *)
(* dragging, resizing, the icons and close buttons of the dashboard.  A    *)
(* step is one frame: the input of the scene and the Update of every       *)
(* window.                                                                 *)
(*                                                                         *)
(* Only one axis is modelled, the rule is the same on the other.  Windows  *)
(* are docked at a fixed distance, so that absolute_rect_ changes only     *)
(* when it is first computed.                                              *)
(***************************************************************************)
EXTENDS Integers, Sequences, FiniteSets

CONSTANTS
    Boards,   \* the windows made by scripts
    Radars,   \* the native ones
    DockedAt, \* left_ of each
    Size, MinSize, MaxSize, \* width_, min_width_, max_width_
    Screen,   \* the last pixel
    Corner,   \* where a window is resized: 18
    Close,    \* the reach of a close button: 12
    Margin    \* less of a window than this is off the screen: 10

Panes == Boards \cup Radars

ASSUME WindowsAssumption ==
    /\ IsFiniteSet(Panes) /\ Boards \cap Radars = {} /\ DockedAt \in [Panes -> 0..Screen]
    /\ MinSize \in Nat /\ MaxSize \in Nat /\ Size \in MinSize..MaxSize
    /\ Screen \in Nat /\ Corner \in Nat /\ Close \in Nat /\ Margin \in Nat

VARIABLES
    pane,   \* each window, see WindowsTypeOK
    order,  \* the order of CardManager::cards_
    held,   \* static_mouse_left_
    moved   \* [pane |-> those the mouse moved in the last frame, mouse |-> where it was]

windowsVars == <<pane, order, held, moved>>

NoGrip == -1
NothingMoved == [pane |-> {}, mouse |-> 0]
Orders == {s \in [1..Cardinality(Panes) -> Panes] : \A w \in Panes : \E i \in DOMAIN s : s[i] = w}

\* offset and grow are offset_rect_, drag and resize drag_offset_rect_.x and
\* drag_resize_offset_rect_.x; laid: absolute_rect_ was computed; sure, for a
\* property: it was when the drag began, and no icon has reset the size since.
WindowsTypeOK ==
    /\ \A w \in Panes : /\ pane[w].offset \in Int /\ pane[w].grow \in Int
                        /\ pane[w].visible \in BOOLEAN /\ pane[w].laid \in BOOLEAN
                        /\ pane[w].sure \in BOOLEAN
                        /\ pane[w].focus \in -1..Cardinality(Panes)
                        /\ pane[w].drag \in Int /\ pane[w].resize \in Int
    /\ order \in Orders /\ held \in BOOLEAN /\ moved.pane \subseteq Panes

-----------------------------------------------------------------------------
\* UISuper::absolute_x and absolute_width
Left(p, w) == (IF p[w].laid THEN DockedAt[w] ELSE 0) + p[w].offset
Wide(p, w) == (IF p[w].laid THEN Size ELSE 0) + p[w].grow
Right(p, w) == Left(p, w) + Wide(p, w)
Over(p, w, x) == x \in Left(p, w)..Right(p, w)
OverCorner(p, w, x) == x \in (Right(p, w) - Corner)..Right(p, w)

\* Only the order of the indices is ever read: the highest is the number of
\* windows, and the others close up.  Card::focus_index reads ui_board_obj_,
\* which a native card does not have.
Focused(p, w) ==
    LET below(v) == {p[u].focus : u \in {u \in Boards \ {w} : p[u].focus \in 1..p[v].focus}} IN
    [v \in Panes |-> IF v \in Radars THEN p[v]
                     ELSE IF v = w THEN [p[v] EXCEPT !.focus = Cardinality(Boards)]
                     ELSE [p[v] EXCEPT !.focus = IF @ = 0 THEN 0 ELSE Cardinality(below(v))]]

Clamped(grow) == IF Size + grow < MinSize THEN MinSize - Size
                 ELSE IF Size + grow > MaxSize THEN MaxSize - Size ELSE grow

\* UpdateDrag.  in: the mouse of the frame as earlier windows left it; count is
\* GetMouseLeftCount, 2 standing for all above.  A board in an inactive program
\* treats the button as up.
Gripped(p, w, in) ==
    LET down == in.left /\ (w \in Radars \/ in.active)
        press == down /\ in.count = 1
        corner == OverCorner(p, w, in.x)
        me == p[w]
        grabs == press /\ me.drag < 0 /\ Over(p, w, in.x) /\ ~corner
        resizes == press /\ me.resize < 0 /\ corner
    IN  [me EXCEPT !.drag = IF ~down THEN NoGrip ELSE IF grabs THEN in.x - me.offset ELSE @,
                   !.sure = IF ~down THEN FALSE ELSE IF grabs THEN me.laid ELSE @,
                   !.resize = IF ~down THEN NoGrip ELSE IF resizes THEN in.x - me.grow ELSE @]

UpdateDrag(acc, w) ==
    LET in == acc.in
        p == IF Over(acc.pane, w, in.x) /\ in.count = 1 /\ in.active /\ w \in Boards
             THEN Focused(acc.pane, w) ELSE acc.pane
        me == Gripped(p, w, in)
        after == IF me.drag >= 0 THEN [me EXCEPT !.offset = in.x - me.drag]
                 ELSE IF me.resize >= 0 THEN [me EXCEPT !.grow = Clamped(in.x - me.resize)]
                 ELSE me
        takes == me.drag >= 0 \/ me.resize >= 0
    IN  [in |-> IF takes THEN [in EXCEPT !.left = FALSE, !.count = 0] ELSE in,
         pane |-> [p EXCEPT ![w] = after],
         moved |-> IF takes THEN acc.moved \cup {w} ELSE acc.moved]

\* Mutant of ProcessWindow: a window that takes the button leaves it to the next.
ProcessWindowLeaving(acc, w) ==
    IF acc.pane[w].visible THEN [UpdateDrag(acc, w) EXCEPT !.in = acc.in] ELSE acc

\* WindowManager::ProcessInput goes through cards_ from the back to the front.
ProcessWindow(acc, w) == IF acc.pane[w].visible THEN UpdateDrag(acc, w) ELSE acc
ProcessWindows(acc) ==
    LET upTo[i \in 0..Len(order)] ==
            IF i = 0 THEN acc ELSE ProcessWindow(upTo[i - 1], order[i])
    IN  upTo[Len(order)]

\* WindowManager::ProcessInputIcons: the close button, of a hidden window too,
\* then the icon.  icons: those the mouse is over.
OffScreen(p, w) == Right(p, w) < Margin \/ Left(p, w) > Screen - Margin
Closing(acc, w) ==
    LET in == acc.in IN
    IF in.count = 1 /\ in.x \in (Left(acc.pane, w) - Close)..(Left(acc.pane, w) + Close)
    THEN [acc EXCEPT !.pane[w].visible = FALSE, !.in.left = FALSE, !.in.count = 0]
    ELSE acc
Toggled(p, w) ==
    IF OffScreen(p, w)
    THEN [p[w] EXCEPT !.visible = ~@, !.offset = 0, !.grow = 0, !.sure = FALSE]
    ELSE [p[w] EXCEPT !.visible = ~@]
Iconified(acc, w, icons) ==
    IF acc.in.count = 1 /\ w \in icons
    THEN [acc EXCEPT !.pane[w] = Toggled(acc.pane, w), !.in.left = FALSE, !.in.count = 0]
    ELSE acc
ProcessInputIcons(acc, icons) ==
    LET upTo[i \in 0..Len(order)] ==
            IF i = 0 THEN acc
            ELSE Iconified(Closing(upTo[i - 1], order[i]), order[i], icons)
    IN  upTo[Len(order)]

\* UIBoard::Update and MiniMap::Update
Updated(p) == [w \in Panes |-> IF p[w].visible THEN [p[w] EXCEPT !.laid = TRUE] ELSE p[w]]

\* CardManager::ProcessInput
BackToFront(p, s) == \A i, j \in DOMAIN s : i < j => p[s[i]].focus <= p[s[j]].focus

-----------------------------------------------------------------------------
WindowsInit ==
    /\ \E visible \in SUBSET Panes :
           pane = [w \in Panes |-> [offset |-> 0, grow |-> 0, visible |-> w \in visible,
                                    laid |-> FALSE, sure |-> FALSE, focus |-> IF w \in Radars THEN -1 ELSE 0,
                                    drag |-> NoGrip, resize |-> NoGrip]]
    /\ order \in Orders /\ held = FALSE /\ moved = NothingMoved

\* InputManager::Update
Given(x, left, active) ==
    [pane |-> pane, moved |-> {},
     in |-> [x |-> x, left |-> left, active |-> active,
             count |-> IF ~left THEN 0 ELSE IF held THEN 2 ELSE 1]]
Ends(acc, x, left) ==
    /\ pane' = Updated(acc.pane) /\ held' = left
    /\ moved' = [pane |-> acc.moved, mouse |-> IF acc.moved = {} THEN 0 ELSE x]

\* A frame of MainLoop.
MainFrame(x, left, active) ==
    /\ Ends(ProcessWindows(Given(x, left, active)), x, left)
    /\ order' \in {s \in Orders : BackToFront(pane', s)}

\* A frame of Dashboard.  The icons are on a bar of their own: over one, x is
\* nowhere near a window.
IconsFrame(x, left, active) ==
    /\ Ends(ProcessWindows(ProcessInputIcons(Given(x, left, active), {})), x, left)
    /\ UNCHANGED order
IconClicked(w) ==
    /\ ~held
    /\ LET far == 2 * Screen + MaxSize IN
       Ends(ProcessWindows(ProcessInputIcons(Given(far, TRUE, TRUE), {w})), far, TRUE)
    /\ UNCHANGED order

\* A frame of a scene without the windows.
OtherFrame(left) ==
    /\ held' = left /\ left # held /\ moved' = NothingMoved /\ UNCHANGED <<pane, order>>

\* A timer of a script sets visible.
ScriptSets(w) ==
    /\ pane' = [pane EXCEPT ![w].visible = ~@]
    /\ moved' = NothingMoved /\ UNCHANGED <<order, held>>

\* A main loop goes and SavePosition writes the layout, a new one comes, makes
\* the native windows anew and RestorePosition reads it.
Reloaded ==
    /\ pane' = [w \in Panes |-> IF w \in Boards THEN pane[w]
                                ELSE [pane[w] EXCEPT !.laid = FALSE, !.sure = FALSE,
                                                !.drag = NoGrip, !.resize = NoGrip]]
    /\ moved' = NothingMoved /\ UNCHANGED <<order, held>>

WindowsNext ==
    \/ \E x \in 0..Screen, left, active \in BOOLEAN : MainFrame(x, left, active)
    \/ \E x \in 0..Screen, left, active \in BOOLEAN : IconsFrame(x, left, active)
    \/ \E w \in Panes : IconClicked(w)
    \/ \E left \in BOOLEAN : OtherFrame(left)
    \/ \E w \in Boards : ScriptSets(w)
    \/ Reloaded

-----------------------------------------------------------------------------
\* However windows overlap, and whatever one remembers of a drag that was cut
\* short, the mouse moves or resizes one window at a time: UpdateDrag takes the
\* button away from the windows behind it (UIBoard.cpp:216, 220).
OneWindowMoves == Cardinality(moved.pane) <= 1

\* A window the mouse drags stays under the mouse, so that it cannot be dragged
\* off the screen, even when it was hidden or shown again on the way, until its
\* icon puts it back from beyond the edge of the screen (UIBoard.cpp:190-214).
DraggedUnderMouse ==
    \A w \in moved.pane : pane[w].drag >= 0 /\ pane[w].sure => Over(pane, w, moved.mouse)

\* The mouse never leaves a window smaller or larger than its limits
\* (UIBoard.cpp:222-232), and only it and the icon change a size.
SizeWithinLimits == \A w \in Panes : Size + pane[w].grow \in MinSize..MaxSize

\* What the mouse does to windows, together (card/CardManager.cpp, ui/UIBoard.cpp).
WindowsKept == WindowsTypeOK /\ OneWindowMoves /\ DraggedUnderMouse /\ SizeWithinLimits
=============================================================================
