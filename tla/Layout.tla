-------------------------------- MODULE Layout ---------------------------------
(***************************************************************************)
(* Where the parts of a window are (client/ui/UIBase.cpp, UISuper.cpp,     *)
(* UIBoard.cpp, UIGroup.cpp, UIButton.cpp, UILabel.cpp): scripts build a   *)
(* tree of UI objects and dock them to the edges of their parents, the     *)
(* mouse drags and resizes the window, and once a frame every object is    *)
(* laid out in the rectangle of its parent.                                *)
(*                                                                         *)
(* The horizontal axis; the rule of the common objects is the same on the  *)
(* other.  Windows has the mouse: here it moves and resizes the window by  *)
(* any step.  A script gives an object one parent at a time and makes no   *)
(* cycles (nothing stops it).                                              *)
(***************************************************************************)
EXTENDS Integers, Sequences, FiniteSets, SequencesExt

CONSTANTS
    Window,          \* UI object of the card, a board
    Panels, Groups,  \* objects that lay out their children, Window among them
    Leaves,          \* objects that do not: buttons and labels
    Captions,        \* the labels among them
    TextWidth,       \* width of the text of a label, which a script may give no width
    ScreenWidth,
    Dockings,        \* values of docking_ that are set: sets of sides
    Margins,          \* left_ and right_ of every object: [left, right]
    Width,           \* width_ before a script sets it
    Built,           \* parents as the script of the card sets them when it is loaded
    Moves, Widths,   \* what the mouse adds, and widths scripts set
    MaxChanges       \* bound on the changes of a behaviour

Objects == Panels \cup Groups \cup Leaves
NoParent == "none"

ASSUME LayoutAssumption ==
    /\ Window \in Panels /\ Panels \cap Groups = {} /\ (Panels \cup Groups) \cap Leaves = {}
    /\ Captions \subseteq Leaves /\ TextWidth \in Nat
    /\ IsFiniteSet(Objects) /\ NoParent \notin Objects /\ {"left"} \in Dockings
    /\ ScreenWidth \in Int /\ Width \in Int /\ Widths \subseteq Int /\ Moves \subseteq Int
    /\ Margins \in [left : Int, right : Int]
    /\ Built \in [Objects -> Objects \cup {NoParent}] /\ Built[Window] = NoParent
    /\ \A S \in SUBSET Objects : S # {} => \E o \in S : Built[o] \notin S

VARIABLES
    parent, children,  \* parent_ and children_ of each object
    look,    \* [object |-> docking_, width_, visible_, offset_rect_ as x and grow]
    rect,    \* absolute_rect_: [x, width]
    shown,   \* the last thing that happened is a frame
    changes

layoutVars == <<parent, children, look, rect, shown, changes>>

LayoutInit ==
    /\ parent = Built
    /\ children = [o \in Objects |-> SetToSeq({c \in Objects : Built[c] = o})]
    /\ look = [o \in Objects |-> [docking |-> {"left"}, width |-> Width, visible |-> TRUE,
                                  x |-> 0, grow |-> 0]]
    /\ rect = [o \in Objects |-> [x |-> 0, width |-> 0]]
    /\ shown = FALSE /\ changes = 0

-----------------------------------------------------------------------------
\* absolute_x and absolute_width; without a parent, the screen.
X(rects, o) == IF o = NoParent THEN 0 ELSE rects[o].x + look[o].x
WideIn(rects, o) == IF o = NoParent THEN ScreenWidth ELSE rects[o].width + look[o].grow

\* width_, or for a label without one the width of its text
OwnWidth(o) == IF o \in Captions /\ look[o].width <= 0 THEN TextWidth ELSE look[o].width

\* The docking UpdatePosition goes by for x: a label is always at the left.
XDocking(o) == IF o \in Captions THEN {"left"} ELSE look[o].docking

\* UIBase::UpdatePosition and, for labels, UILabel::UpdatePosition
Placed(rects, o) ==
    LET x == X(rects, parent[o])
        end == x + WideIn(rects, parent[o])
        width == IF {"left", "right"} \subseteq look[o].docking
                 THEN end - Margins.right - (x + Margins.left)
                 ELSE OwnWidth(o)
    IN  [width |-> width,
         x |-> IF "center" \in XDocking(o) THEN x + (end - x) \div 2 - width \div 2
               ELSE IF "right" \in XDocking(o) THEN end - Margins.right - width
               ELSE x + Margins.left]

\* Update of a board, a group and the others: rects, as far as it has come, and
\* the objects whose Update is still to be called.
\* Mutant of Update: the children come first, each finds its parent where the
\* last frame left it.
UpdateLate(calls) ==
    LET o == Head(calls.todo)
        rest == Tail(calls.todo)
    IN  IF calls.todo = <<>> THEN calls
        ELSE IF o \in Panels /\ ~look[o].visible THEN [calls EXCEPT !.todo = rest]
        ELSE [rects |-> [calls.rects EXCEPT ![o] = Placed(rect, o)],
              todo |-> IF o \in Leaves THEN rest ELSE children[o] \o rest]

Update(calls) ==
    LET o == Head(calls.todo)
        rest == Tail(calls.todo)
    IN  IF calls.todo = <<>> THEN calls
        ELSE IF o \in Panels /\ ~look[o].visible THEN [calls EXCEPT !.todo = rest]
        ELSE [rects |-> [calls.rects EXCEPT ![o] = Placed(calls.rects, o)],
              todo |-> IF o \in Leaves THEN rest ELSE children[o] \o rest]

\* In a tree no object is called twice.
Laid(rects, o) ==
    LET after[n \in 0..Cardinality(Objects)] ==
            IF n = 0 THEN [rects |-> rects, todo |-> <<o>>] ELSE Update(after[n - 1])
    IN  after[Cardinality(Objects)].rects

\* WindowManager::Update
LayoutFrame ==
    /\ rect' = Laid(rect, Window) /\ shown' = TRUE
    /\ UNCHANGED <<parent, children, look, changes>>

Changes == changes < MaxChanges /\ changes' = changes + 1 /\ shown' = FALSE

\* S holds whatever is above a member of it.
UpToTheTop(S) == \A o \in S : parent[o] \in S \cup {NoParent}

AddChild(p, c) ==
    /\ Changes
    /\ c # Window /\ parent[c] = NoParent
    /\ \E S \in SUBSET (Objects \ {c}) : p \in S /\ UpToTheTop(S)
    /\ parent' = [parent EXCEPT ![c] = p]
    /\ children' = [children EXCEPT ![p] = Append(@, c)]
    /\ UNCHANGED <<look, rect>>

RemoveChild(p, c) ==
    /\ Changes
    /\ \E i \in DOMAIN children[p] :
           children[p][i] = c /\ children' = [children EXCEPT ![p] = RemoveAt(@, i)]
    /\ parent' = [parent EXCEPT ![c] = NoParent]
    /\ UNCHANGED <<look, rect>>

\* Properties scripts set; only a board reads visible_ for its layout.
SetDocking(o, docking) ==
    /\ Changes
    /\ look' = [look EXCEPT ![o].docking = docking]
    /\ UNCHANGED <<parent, children, rect>>
SetWidth(o, width) ==
    /\ Changes
    /\ look' = [look EXCEPT ![o].width = width]
    /\ UNCHANGED <<parent, children, rect>>
SetVisible(o) ==
    /\ Changes
    /\ look' = [look EXCEPT ![o].visible = ~@]
    /\ UNCHANGED <<parent, children, rect>>

\* UIBoard::UpdateDrag
DragWindow(x, grow) ==
    /\ Changes /\ look[Window].visible
    /\ look' = [look EXCEPT ![Window].x = @ + x, ![Window].grow = @ + grow]
    /\ UNCHANGED <<parent, children, rect>>

LayoutNext ==
    \/ LayoutFrame
    \/ \E p, c \in Objects : AddChild(p, c) \/ RemoveChild(p, c)
    \/ \E o \in Objects, docking \in Dockings : SetDocking(o, docking)
    \/ \E o \in Objects, width \in Widths : SetWidth(o, width)
    \/ \E o \in Panels : SetVisible(o)
    \/ \E d \in Moves : DragWindow(d, 0) \/ DragWindow(0, d)

LayoutSpec == LayoutInit /\ [][LayoutNext]_layoutVars

-----------------------------------------------------------------------------
\* An object is on the screen: every board and group above it lays it out.
Seen(o) ==
    \E S \in SUBSET Objects :
        /\ o \in S
        /\ \A s \in S : /\ s \in Panels => look[s].visible
                        /\ s = Window \/ parent[s] \in S \ Leaves

\* Docked to the right, and placed so.
DockedRight(o) == "right" \in look[o].docking /\ (o \in Captions => "left" \in look[o].docking)

(* In a frame that is shown every object keeps its margin to the edges of  *)
(* its parent it is docked to, through all levels, whatever was resized,   *)
(* moved, hidden or moved to another parent before (UIBoard::Update,       *)
(* UIBase::UpdatePosition, UILabel::UpdatePosition).  A label is always at *)
(* its left margin: it has one on the right only if docked on both sides.  *)
DockedKept ==
    shown => \A o \in Objects \ {Window} : Seen(o) =>
        LET docking == look[o].docking
            left == X(rect, parent[o])
            right == left + WideIn(rect, parent[o])
        IN  "center" \notin docking =>
                /\ "left" \in docking => rect[o].x = left + Margins.left
                /\ DockedRight(o) => rect[o].x + rect[o].width = right - Margins.right
===============================================================================
