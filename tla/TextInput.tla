----------------------------- MODULE TextInput -----------------------------
(***************************************************************************)
(* The text input of the client (client/ui/Input.cpp) in its input box     *)
(* (client/ui/InputBox.cpp), a tab for each plugin that reads what is      *)
(* entered and one, number 0, that runs it as a script.  A step is one     *)
(* frame of InputBox::ProcessInput, written as the stages it goes through, *)
(* or what DxLib does with a key between two frames.                       *)
(*                                                                         *)
(* The string, its cursor, its selection and which input is active are     *)
(* DxLib's; a position the mouse or an arrow key points at is any position *)
(* of the text.  Characters have the same width.                           *)
(***************************************************************************)
EXTENDS Integers, Sequences, SequencesExt

CONSTANTS
    Chars,       \* the characters that can be typed
    NL,          \* '\n'
    MaxText,     \* bound on the text; 400 in the code
    MaxKept,     \* bound on a draft and the clipboard together
    LineLimit,   \* a line breaks behind the character that passes it
    TabCount,    \* tabs of plugins
    ClickFrames  \* frames the mouse is dead after the menu was used; 8

ASSUME TextInputAssumption ==
    /\ NL \notin Chars /\ TabCount \in Nat
    /\ MaxText \in Nat /\ MaxKept \in Nat /\ LineLimit \in Nat /\ ClickFrames \in Nat

VARIABLES
    input,      \* the Input and what DxLib keeps for it
    tab,        \* selecting_tab_index_, from 1; 0 is the script tab
    drafts,     \* the text kept for each tab that is not in front
    clipboard,
    frame       \* what the last frame did and what input it handed on

textInputVars == <<input, tab, drafts, clipboard, frame>>

TextTabs == 0..TabCount
Texts == Seq(Chars \cup {NL})
NoSelection == <<0, 0>>

\* active: GetActiveKeyInput() == input_handle_; cancel: click_cancel_count_.
\* selection is what DxLib has selected, nothing if its ends are the same, and
\* selecting_coursorpoint_; drag is drag_flag_, "lost" once the lines are not
\* those the drag began in (prev_line_size).
TextInputTypeOK ==
    /\ input.text \in Texts /\ input.cursor \in 0..Len(input.text)
    /\ input.selection \in (0..MaxText) \X (0..MaxText) /\ input.drag \in {"no", "yes", "lost"}
    /\ input.active \in BOOLEAN /\ input.menu \in BOOLEAN
    /\ input.cancel \in 0..ClickFrames
    /\ tab \in TextTabs /\ drafts \in [TextTabs -> Texts] /\ clipboard \in Seq(Chars \cup {NL})
    /\ frame \in [done : {"none", "frame", "return", "cut"}, passed : BOOLEAN]

-----------------------------------------------------------------------------
\* The lines of a text, and in cur the one not yet broken.
Break(acc, c) ==
    LET line == IF c = NL THEN acc.cur ELSE Append(acc.cur, c) IN
    IF c = NL \/ Len(line) > LineLimit
    THEN [done |-> Append(acc.done, line), cur |-> <<>>]
    ELSE [acc EXCEPT !.cur = line]
LinesFrom(acc, text) ==
    LET upTo[i \in 0..Len(text)] == IF i = 0 THEN acc ELSE Break(upTo[i - 1], text[i])
    IN  upTo[Len(text)]
EmptyLines == [done |-> <<>>, cur |-> <<>>]

\* The text before the cursor is laid out first, then the one behind it.
LayOut(in) ==
    LET front == LinesFrom(EmptyLines, SubSeq(in.text, 1, in.cursor))
        all == LinesFrom(front, SubSeq(in.text, in.cursor + 1, Len(in.text)))
    IN  [in EXCEPT !.lines = Append(all.done, all.cur), !.caret = Len(front.done)]

\* SetKeyInputString, SetKeyInputCursorPosition and SetActiveKeyInput of DxLib,
\* which keeps positions within the text.
SetString(in, text) ==
    [in EXCEPT !.text = text, !.selection = NoSelection,
               !.drag = IF @ = "no" THEN "no" ELSE "lost",
               !.cursor = IF @ > Len(text) THEN Len(text) ELSE @]
Within(in, at) == IF at > Len(in.text) THEN Len(in.text) ELSE at
SetCursor(in, at) == [in EXCEPT !.cursor = Within(in, at)]
Activated(in, flag) == [in EXCEPT !.active = flag]

TextInputInit ==
    /\ input = [text |-> <<>>, cursor |-> 0, selection |-> NoSelection, active |-> TRUE,
                lines |-> << <<>> >>, caret |-> 0, menu |-> FALSE, drag |-> "no",
                cancel |-> 0]
    /\ tab = (IF TabCount > 0 THEN 1 ELSE 0)
    /\ drafts = [t \in TextTabs |-> <<>>]
    /\ clipboard = <<>>
    /\ frame = [done |-> "frame", passed |-> FALSE]

Insert(text, at, added) == SubSeq(text, 1, at) \o added \o SubSeq(text, at + 1, Len(text))

\* on_enter_ hands the text to the script tab or to the plugin of the tab and
\* returns true, which clears it; an empty text makes the input inactive, and
\* SetActiveKeyInput behind the callback makes it active again.
OnEnter(in) == Activated(SetString(in, <<>>), in.text # <<>>)

\* Mutant of EnterStage: nothing switches the input on again behind the callback.
EnterStageOff(in, key) ==
    IF ~in.active /\ key = "paste" THEN Activated(in, TRUE)
    ELSE IF key = "shift_return" THEN Activated(in, TRUE)
    ELSE IF key = "return" /\ in.active THEN Activated(OnEnter(in), FALSE)
    ELSE in

EnterStage(in, key) ==
    IF ~in.active /\ key = "paste" THEN Activated(in, TRUE)
    ELSE IF key = "shift_return" THEN Activated(in, TRUE)
    ELSE IF key = "return" /\ in.active THEN Activated(OnEnter(in), TRUE)
    ELSE in

\* Shift and return break the line at the cursor.
NewLineStage(in, key) ==
    IF key # "shift_return" THEN in
    ELSE SetCursor(SetString(in, Insert(in.text, in.cursor, <<NL>>)), in.cursor + 1)

\* selecting_text, of the lines of the last frame.  In a text of several lines it
\* also reads before and behind a line: what it returns then is anything.
Sorted(pair) == IF pair[1] > pair[2] THEN <<pair[2], pair[1]>> ELSE pair
SelectingText(in) ==
    LET s == Sorted(in.selection) IN
    IF s[1] = s[2] THEN {<<>>}
    ELSE IF Len(in.lines) = 1 THEN {SubSeq(in.lines[1], s[1] + 1, s[2])}
    ELSE {SubSeq(in.text, s[1] + 1, s[2])} \cup {<<c>> : c \in Chars \cup {NL}}

\* find and substr: the first occurrence goes, and without one the whole text.
Removed(text, part) ==
    LET found == {i \in 0..(Len(text) - Len(part)) : SubSeq(text, i + 1, i + Len(part)) = part}
        first == CHOOSE i \in found : \A j \in found : i <= j
    IN  IF found = {} THEN <<>>
        ELSE SubSeq(text, 1, first) \o SubSeq(text, first + Len(part) + 1, Len(text))

\* The labels of the right-click menu; taken is selecting_text.
Used(in) == [in EXCEPT !.cancel = ClickFrames]
CutLabel(in, taken) == Used(SetString(in, Removed(in.text, taken)))
CopyLabel(in) == Used(in)
PasteLabel(in) == Used(SetString(in, Insert(in.text, in.cursor, clipboard)))

\* A press anywhere hides the menu, after it was used.
MenuStage(in, mouse, taken) ==
    IF ~in.menu \/ mouse.button # "press" THEN in
    ELSE LET used == CASE mouse.label = "cut" -> CutLabel(in, taken)
                       [] mouse.label = "copy" -> CopyLabel(in)
                       [] mouse.label = "paste" -> PasteLabel(in)
                       [] OTHER -> in
         IN  [used EXCEPT !.menu = FALSE]

\* Dragging selects from where it began, until a line changes its length.
Dragged(in, at) ==
    IF in.drag = "lost" THEN in
    ELSE [SetCursor(in, at) EXCEPT
             !.drag = "yes", !.selection = <<IF in.drag = "yes" THEN @[1] ELSE in.cursor, at>>]

Released(in) ==
    LET p == Sorted(in.selection) IN
    [SetCursor(in, p[2]) EXCEPT !.drag = "no", !.selection = IF p[1] = p[2] THEN NoSelection ELSE p]

\* An active input follows the mouse, outside of itself too.
MouseStage(in, mouse) ==
    LET inside == mouse.over = "input" IN
    IF ~in.active THEN in
    ELSE IF inside /\ ~in.menu /\ mouse.button = "press" THEN SetCursor(in, mouse.at)
    ELSE IF inside /\ ~in.menu /\ mouse.button = "held" THEN Dragged(in, mouse.at)
    ELSE IF inside /\ ~in.menu /\ mouse.button = "release" /\ in.drag # "no" THEN Released(in)
    ELSE IF ~inside /\ mouse.button \in {"press", "held"} THEN SetCursor(in, mouse.at)
    ELSE IF inside /\ mouse.button = "right" THEN [in EXCEPT !.menu = TRUE]
    ELSE in

\* The button reaches the box and what lies under it unless the input took it.
Took(in, mouse) ==
    in.active /\ (IF mouse.over = "input" THEN mouse.button = "held" /\ ~in.menu
                                          ELSE mouse.button \in {"press", "held"})

\* Return on an empty input leaves it, as escape does while its first line is
\* empty; return or ctrl+V goes back to it.
KeyStage(in, key, empty) ==
    IF in.active /\ in.lines[1] = <<>> /\ (key = "esc" \/ (key = "return" /\ empty))
    THEN Activated(in, FALSE)
    ELSE IF ~in.active /\ key \in {"return", "paste"} THEN Activated(in, TRUE)
    ELSE in

\* SwitchTab, at the first frame of a press.
SwitchedTab(in, mouse, took) ==
    IF mouse.button = "press" /\ ~took /\ mouse.over = "tab" THEN mouse.tab ELSE tab
SwitchTab(in, index) == IF index = tab THEN in ELSE SetString(in, drafts[index])

\* A press on the box makes it active, one beside it inactive.
BaseStage(in, mouse, took) ==
    IF took \/ mouse.button \notin {"press", "held"} THEN in
    ELSE Activated(in, mouse.over # "outside")

NoMouse == [button |-> "none", over |-> "outside", at |-> 0, label |-> "none", tab |-> 0]

Fits(in) == Len(in.text) <= MaxText

\* One frame; the mouse is dead while cancel counts down, which to the input
\* looks as if a button held had been let go.
InputFrame(key, mouse0) ==
    LET mouse == IF input.cancel = 0 THEN mouse0
                 ELSE [mouse0 EXCEPT !.button = IF @ \in {"held", "release"} THEN "release" ELSE "none"]
        start == [input EXCEPT !.cancel = IF @ > 0 THEN @ - 1 ELSE 0]
        entered == EnterStage(start, key)
    IN
    \E taken \in SelectingText(entered) :
        LET used == NewLineStage(MenuStage(entered, mouse, taken), key)
            took == Took(used, mouse)
            laid == LayOut(MouseStage(used, mouse))
            keyed == KeyStage(laid, key, input.text = <<>>)
            next == SwitchedTab(keyed, mouse, took)
            last == BaseStage(SwitchTab(keyed, next), mouse, took)
            label == IF entered.menu /\ mouse.button = "press" THEN mouse.label ELSE "none"
        IN
        /\ Fits(last)
        /\ input' = last
        /\ tab' = next
        /\ drafts' = IF next = tab THEN drafts ELSE [drafts EXCEPT ![tab] = keyed.text, ![next] = <<>>]
        /\ clipboard' = IF label \in {"cut", "copy"} THEN taken ELSE clipboard
        /\ \A t \in TextTabs : Len(drafts'[t]) + Len(clipboard') <= MaxKept
        /\ frame' = [done |-> IF key = "return" \/ next # tab THEN key
                              ELSE IF label = "cut" THEN label ELSE "frame",
                     passed |-> key # "none" /\ ~laid.active /\ ~last.active]

\* DxLib inserts a character, in place of the selection, or removes one, or
\* moves the cursor, which ends the selection; one key at most between two frames.
Typed(c) ==
    LET s == Sorted(input.selection)
        rest == SubSeq(input.text, 1, s[1]) \o SubSeq(input.text, s[2] + 1, Len(input.text))
        at == IF s[1] = s[2] THEN input.cursor ELSE s[1]
        next == [SetString(input, Insert(rest, at, <<c>>)) EXCEPT !.cursor = at + 1]
    IN
    /\ input.active /\ Fits(next) /\ frame.done # "none"
    /\ input' = next
    /\ frame' = [done |-> "none", passed |-> FALSE]
    /\ UNCHANGED <<tab, drafts, clipboard>>

Keys == {"return", "shift_return", "paste", "esc"}
Mouse(button, over, at) == [NoMouse EXCEPT !.button = button, !.over = over, !.at = at]
Mice ==
    {Mouse(button, "input", at) : button \in {"press", "held"}, at \in 0..Len(input.text)}
    \cup {Mouse("release", "input", 0), Mouse("right", "input", 0)}
    \cup {Mouse(button, "outside", 0) : button \in {"press", "held"}}
    \cup {[Mouse("press", "tab", 0) EXCEPT !.tab = t] : t \in TextTabs}
    \cup {[Mouse("press", "input", 0) EXCEPT !.label = l] : l \in {"cut", "copy", "paste"}}

TextInputNext ==
    \/ \E key \in Keys : InputFrame(key, NoMouse)
    \/ \E mouse \in Mice : InputFrame("none", mouse)
    \/ \E c \in Chars : Typed(c)

TextInputSpec == TextInputInit /\ [][TextInputNext]_textInputVars

-----------------------------------------------------------------------------
\* Return goes into the input and comes out of it: an inactive input becomes
\* active, an active one that is empty inactive, and one that is not has handed
\* on its text and stays (client/ui/InputBox.cpp:347-355), although its callback
\* and Input::ProcessInput, which runs it, switch it off and on in between.
ReturnToggles ==
    [][frame'.done = "return" =>
          /\ input'.active = (~input.active \/ input.text # <<>>)
          /\ input.active => input'.text = <<>>]_textInputVars

\* A key the input was there to read does nothing else: the frames that hand the
\* keys on to the scenes found the input inactive and leave it inactive.
KeysHaveOneReader ==
    [][frame'.passed => ~input.active /\ ~input'.active]_textInputVars

\* Text is laid out the same wherever the cursor stands in it, on at least one
\* line, and the cursor on one of them.
LaidOutAlike ==
    frame.done # "none" =>
                 /\ \E acc \in {LinesFrom(EmptyLines, input.text)} : input.lines = Append(acc.done, acc.cur)
                 /\ input.caret + 1 \in DOMAIN input.lines

\* Cut loses nothing of a text of one line: what goes is on the clipboard.
CutIsKept ==
    [][(frame'.done = "cut" /\ Len(input.lines) = 1) =>
          \E i \in 0..Len(input'.text) : input.text = Insert(input'.text, i, clipboard')]_textInputVars

\* What was typed in a tab is there again when the tab is: it comes back when
\* switching back, and only the tab in front changes.
DraftsKept ==
    [][/\ tab' # tab => /\ input'.text = drafts[tab'] /\ drafts'[tab] = input.text
       /\ \A t \in TextTabs \ {tab, tab'} : drafts'[t] = drafts[t]]_textInputVars

\* The input is well typed and laid out as it reads.
TextSound == TextInputTypeOK /\ LaidOutAlike

\* A key has one reader, and return one meaning.
KeysRead == ReturnToggles /\ KeysHaveOneReader

\* No text is lost but to a key that removes it.
TextKept == CutIsKept /\ DraftsKept

\* What was typed is what the input holds, shows and hands on: it is laid out as
\* it reads, each key has one reader and return one meaning, and no text is lost
\* to a cut, a change of the tab or a message.
TypingKept == []TextSound /\ KeysRead /\ TextKept
=============================================================================
