------------------------------ MODULE ListView ------------------------------
(***************************************************************************)
(* A list of labels (client/ui/UIList.cpp, UILabel.cpp): the wrapping of a *)
(* label's text, its place in the list, the scroll bar.  A step is a call  *)
(* of a script, or one frame: ProcessInput, then Update.                   *)
(*                                                                         *)
(* Positions are counted from the top of the list; a list lies below       *)
(* another as far as its left edge is concerned, so that only y is kept.   *)
(***************************************************************************)
EXTENDS Integers, Sequences, SequencesExt

CONSTANTS
    Labels,     \* the texts that can be added, "\n" being a newline
    LabelWidth, \* in characters, which have the same width
    LineHeight, \* the default font size + 2
    ViewHeight, \* absolute_height of the list
    MinBar,     \* SCROLLBAR_MIN_HEIGHT
    WheelStep,  \* 20
    MaxItems    \* bound on the items

ASSUME ListViewAssumption ==
    /\ Labels \subseteq Seq(STRING)
    /\ LabelWidth \in Nat \ {0} /\ LineHeight \in Nat \ {0} /\ WheelStep \in Nat /\ MaxItems \in Nat
    /\ MinBar \in Nat /\ ViewHeight \in Nat /\ ViewHeight > MinBar

VARIABLES
    items,   \* items_, each its text
    frames,  \* frames since the items last changed, 2 for more, for the properties
    scroll, target, grip, \* scroll_y_, scroll_y_target_, drag_offset_y_
    tops,    \* where the last Update put each item
    drawn,   \* [first |-> item_start_, last |-> item_end_], from 1; first 0: none
    bar,     \* [y |-> scrollbar_y_, height |-> scrollbar_height_, max |-> max_scroll_y_]
    mouseHeld

listVars == <<items, frames, scroll, target, grip, tops, drawn, bar, mouseHeld>>

-----------------------------------------------------------------------------
\* UILabel::UpdatePosition: substr_list_, in pairs.
WrapChar(acc, i, c) ==
    IF c = "\n" THEN [pairs |-> acc.pairs \o <<i - 1, i>>, width |-> 0]
    ELSE IF acc.width + 1 > LabelWidth THEN [pairs |-> acc.pairs \o <<i - 1, i - 1>>, width |-> 1]
    ELSE [acc EXCEPT !.width = @ + 1]
SubstrList(text) ==
    LET upTo[i \in 0..Len(text)] ==
            IF i = 0 THEN [pairs |-> <<0>>, width |-> 0] ELSE WrapChar(upTo[i - 1], i, text[i])
    IN  Append(upTo[Len(text)].pairs, Len(text))

\* UILabel::Draw: the lines between the pairs.
LinesOf(text) ==
    LET s == SubstrList(text) IN
    [n \in 1..(Len(s) \div 2) |-> SubSeq(text, s[2 * n - 1] + 1, s[2 * n])]
HeightOf(text) == LineHeight * (Len(SubstrList(text)) \div 2)

Heights == [text \in Labels |-> HeightOf(text)]
SumOf(list, n) ==
    LET sum[i \in 0..n] == IF i = 0 THEN 0 ELSE sum[i - 1] + Heights[list[i]] IN sum[n]
SumTo(n) == SumOf(items, n)
Content == SumTo(Len(items))
Least(S, else) == IF S = {} THEN else ELSE CHOOSE n \in S : \A m \in S : n <= m
Normalized(n, max) == IF n < 0 THEN 0 ELSE IF n > max THEN max ELSE n
\* A division of C++.
Div(a, b) == IF a < 0 THEN -((-a) \div b) ELSE a \div b

ListViewInit ==
    /\ items = <<>> /\ frames = 0 /\ scroll = 0 /\ target = -1 /\ grip = -1
    /\ tops = <<>> /\ drawn = [first |-> 0, last |-> 0]
    /\ bar = [y |-> 0, height |-> 0, max |-> 0] /\ mouseHeld = FALSE

-----------------------------------------------------------------------------
Scripted == UNCHANGED <<scroll, grip, tops, drawn, bar, mouseHeld>>
Replaced(by) == items' = by /\ frames' = 0 /\ Scripted /\ UNCHANGED target
AddItem(text) == Len(items) < MaxItems /\ Replaced(Append(items, text))
ClearItems == items # <<>> /\ Replaced(<<>>)
SetScrollY(n) == target' = n /\ Scripted /\ UNCHANGED <<items, frames>>

\* UpdateScrollBar.  column: the mouse is over the column of the bar.
OverBar(y, column) == column /\ y \in bar.y..(bar.y + bar.height)
\* Mutant of GripAfter: where the mouse is, not where on the bar.
GripFromTop(y, column, left) ==
    IF ~left THEN -1
    ELSE IF ~mouseHeld /\ grip < 0 /\ OverBar(y, column) THEN y ELSE grip

GripAfter(y, column, left) ==
    IF ~left THEN -1
    ELSE IF ~mouseHeld /\ grip < 0 /\ OverBar(y, column) THEN y - bar.y ELSE grip
ScrollAfter(y, column, left, wheel) ==
    LET held == GripAfter(y, column, left)
        wanted == IF held >= 0 THEN Div((y - held) * bar.max, ViewHeight - bar.height)
                  ELSE IF y \in 0..ViewHeight THEN scroll - wheel * WheelStep ELSE scroll
    IN  Normalized(wanted, bar.max)

\* Update with the items at -at.  The item that sets item_start_ cannot set
\* item_end_.
LaidOut(at) ==
    LET bottom(i) == SumTo(i) - at
        first == Least({i \in DOMAIN items : bottom(i) > 0}, 0)
        last == Least({i \in DOMAIN items \ {first} : bottom(i) > ViewHeight}, Len(items))
        max == IF Content > ViewHeight THEN Content - ViewHeight ELSE 0
        share == (ViewHeight * ViewHeight) \div Content
        height == IF share < MinBar THEN MinBar ELSE share
    IN  /\ tops' = [i \in DOMAIN items |-> SumTo(i - 1) - at]
        /\ drawn' = [first |-> first, last |-> last]
        /\ bar' = IF max = 0 THEN [y |-> 0, height |-> 0, max |-> 0]
                  ELSE [y |-> ((ViewHeight - height) * at) \div max, height |-> height, max |-> max]
        /\ scroll' = IF target >= 0 THEN Normalized(target, max) ELSE at
        /\ target' = -1

ListFrame(y, column, left, wheel) ==
    /\ LaidOut(ScrollAfter(y, column, left, wheel))
    /\ grip' = GripAfter(y, column, left)
    /\ mouseHeld' = left /\ frames' = (IF frames = 2 THEN 2 ELSE frames + 1) /\ UNCHANGED items

\* A frame in which the window of the list is hidden.
HiddenFrame(left) ==
    /\ mouseHeld # left /\ mouseHeld' = left
    /\ UNCHANGED <<items, frames, scroll, target, grip, tops, drawn, bar>>

ListViewNext ==
    \/ \E text \in Labels : AddItem(text)
    \/ ClearItems
    \/ \E n \in {1, ViewHeight} : SetScrollY(n)
    \/ \E y \in -1..ViewHeight, column, left \in BOOLEAN : ListFrame(y, column, left, 0)
    \/ \E left \in BOOLEAN, wheel \in {-1, 1} : ListFrame(1, FALSE, left, wheel)
    \/ \E left \in BOOLEAN : HiddenFrame(left)

ListViewSpec == ListViewInit /\ [][ListViewNext]_listVars

-----------------------------------------------------------------------------
\* Wrapping loses and repeats nothing: a line begins where the one before it
\* ends, or behind the newline that ends it, none is wider than the label or has
\* a newline in it, and only a newline makes an empty one (UILabel.cpp:255-295).
WrapKeepsText ==
    \A i \in DOMAIN items :
        LET text == items[i]
            s == SubstrList(text)
            lines == LinesOf(text)
        IN  /\ s[1] = 0 /\ s[2 * Len(lines)] = Len(text)
            /\ \A n \in DOMAIN lines :
                   /\ s[2 * n - 1] <= s[2 * n] /\ Len(lines[n]) <= LabelWidth
                   /\ ~Contains(lines[n], "\n")
            /\ \A n \in 1..(Len(lines) - 1) :
                   \/ s[2 * n + 1] = s[2 * n] + 1 /\ text[s[2 * n + 1]] = "\n"
                   \/ s[2 * n + 1] = s[2 * n] /\ lines[n] # <<>>

\* Every item of which something is in the list is drawn: item_start_ and
\* item_end_ leave none out (UIList.cpp:268-283, 310-317).
VisibleItemsDrawn ==
    frames > 0 => \A i \in DOMAIN items :
        tops[i] < ViewHeight /\ tops[i] + Heights[items[i]] > 0 =>
            drawn.first > 0 /\ i \in drawn.first..drawn.last

\* Once two Updates have seen the same items, none is drawn past either end
\* while there is room for it: a scroll position that was right for a longer
\* list lasts one frame (UIList.cpp:254, 285-298).
NoGapStays ==
    frames = 2 /\ items # <<>> =>
        /\ tops[1] <= 0
        /\ tops[1] = 0 \/ tops[Len(items)] + Heights[items[Len(items)]] >= ViewHeight

\* Taking hold of the scroll bar does not make the list jump: at most by what a
\* pixel of the bar stands for, and one pixel more (UIList.cpp:233-243, 289), if
\* the list is steady and the bar drawn where it is: not right after a script set scroll_y.
GrabHolds ==
    [][grip < 0 /\ grip' >= 0 /\ frames = 2 /\ items # <<>> /\ tops[1] = -scroll =>
        (scroll + tops'[1]) * (ViewHeight - bar.height) \in 0..(bar.max + ViewHeight - bar.height)]_listVars

\* A list shows its items, all of each and where they belong (ui/UIList.cpp, ui/UILabel.cpp).
ListKept == [](WrapKeepsText /\ VisibleItemsDrawn /\ NoGapStays) /\ GrabHolds
=============================================================================
