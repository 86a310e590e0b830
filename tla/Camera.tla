------------------------------- MODULE Camera -------------------------------
(***************************************************************************)
(* The camera of a world (client/3d/gameloop.cpp, GameLoop): dragging it,  *)
(* zooming, and its link to the player's character.  A world is made anew  *)
(* for every channel, the character outlives it.  A step is a frame of the *)
(* main loop: MoveCamera, then FieldPlayer::Move; or one of a fade between *)
(* two channels.                                                           *)
(*                                                                         *)
(* Lengths and angles of view are counted in a fraction of a notch of the  *)
(* wheel; the angles of the camera are not kept.                           *)
(***************************************************************************)
EXTENDS Integers

CONSTANTS
    MinRadius, MaxRadius, StartRadius, \* 2, 40 and 7
    MinFov, MaxFov,                    \* 10 and 60
    Notch,                             \* of the wheel; a gamepad moves by less
    MaxWorlds                          \* bound on the channels visited

ASSUME CameraAssumption ==
    /\ MinRadius \in Nat /\ StartRadius \in MinRadius..MaxRadius /\ MaxRadius \in Nat
    /\ MinFov \in Nat /\ MaxFov \in Nat /\ MinFov < MaxFov /\ Notch \in Nat \ {0}

VARIABLES
    game,    \* the GameLoop: its number, manual_control, radius; fading: it is yet to come
    linked,  \* the world whose camera camera_roty_ points into; 0: null
    fov,     \* camera_fov, a static variable
    lens,    \* the angle of view in effect
    cursor,  \* GetMouseDispFlag
    buttons, \* the buttons held in the last frame
    steered  \* the last frame: the link Move found, whether the program was active; not in a fade

cameraVars == <<game, linked, fov, lens, cursor, buttons, steered>>

NewGame(number) == [number |-> number, manual |-> FALSE, radius |-> StartRadius, fading |-> FALSE]

CameraInit ==
    /\ game = NewGame(1) /\ linked = 0 /\ fov = MaxFov /\ lens = MaxFov
    /\ cursor = TRUE /\ buttons = {} /\ steered = [link |-> 0, active |-> TRUE]

-----------------------------------------------------------------------------
\* MoveCamera, the mouse: a press with no other button, a drag, neither.  Two
\* buttons that come down in the same frame are neither.
Presses(held) == \E b \in held : b \notin buttons /\ held = {b}
Dragging(held) == held \cap buttons # {}

\* Mutant of ZoomIn: narrow before near.
ZoomInNarrow ==
    IF fov > MinFov THEN [radius |-> game.radius, fov |-> fov - Notch, set |-> TRUE]
    ELSE [radius |-> game.radius - Notch, fov |-> fov, set |-> FALSE]

\* The wheel: near, then narrow, and back the other way.
ZoomIn ==
    IF game.radius > MinRadius THEN [radius |-> game.radius - Notch, fov |-> fov, set |-> FALSE]
    ELSE IF fov > MinFov THEN [radius |-> game.radius, fov |-> fov - Notch, set |-> TRUE]
    ELSE [radius |-> game.radius, fov |-> fov, set |-> FALSE]
ZoomOut ==
    IF fov < MaxFov THEN [radius |-> game.radius, fov |-> fov + Notch, set |-> TRUE]
    ELSE IF game.radius < MaxRadius THEN [radius |-> game.radius + Notch, fov |-> fov, set |-> FALSE]
    ELSE [radius |-> game.radius, fov |-> fov, set |-> FALSE]

\* The gamepad, after the wheel: by less than a notch, and cut off at the limits.
AtLeast(n, low) == IF n < low THEN low ELSE n
AtMost(n, high) == IF n > high THEN high ELSE n
PadIn(z, by) ==
    IF z.radius - by >= MinRadius THEN [radius |-> z.radius - by, fov |-> z.fov, set |-> z.set]
    ELSE [radius |-> MinRadius, fov |-> AtLeast(z.fov - by, MinFov), set |-> TRUE]
PadOut(z, by) ==
    [radius |-> IF z.fov + by > MaxFov THEN AtMost(z.radius + by, MaxRadius) ELSE z.radius,
     fov |-> AtMost(z.fov + by, MaxFov), set |-> TRUE]

Wheel(turn) ==
    IF turn = "in" THEN ZoomIn ELSE IF turn = "out" THEN ZoomOut
    ELSE [radius |-> game.radius, fov |-> fov, set |-> FALSE]
Pad(z, push) == IF push = "in" THEN PadIn(z, 1) ELSE IF push = "out" THEN PadOut(z, 1) ELSE z

Zoomed(z) ==
    /\ fov' = z.fov /\ lens' = (IF z.set THEN z.fov ELSE lens)

\* A frame of the main loop, with moved for FieldPlayer::any_move and view for
\* the POV of a gamepad, which takes over too.  An inactive program leaves
\* everything as it was, the link and the cursor too.
MoveCamera(held, turn, push, moved, view) ==
    LET z == Pad(Wheel(turn), push) IN
    /\ Zoomed(z)
    /\ cursor' = (IF Presses(held) THEN FALSE ELSE IF Dragging(held) THEN cursor ELSE TRUE)
    /\ linked' = (IF Presses(held) THEN IF "left" \in held THEN game.number ELSE linked
                  ELSE IF Dragging(held) THEN linked ELSE 0)
    /\ game' = [game EXCEPT
                  !.radius = z.radius,
                  !.manual = Presses(held) \/ (held = {} /\ view)
                             \/ (@ /\ (Dragging(held) \/ ~moved))]

GameFrame(held, active, turn, push, moved, view) ==
    /\ ~game.fading
    /\ IF active THEN MoveCamera(held, turn, push, moved, view)
                 ELSE UNCHANGED <<game, fov, lens, cursor, linked>>
    /\ buttons' = held
    /\ steered' = [link |-> linked', active |-> active]

\* The player warps; frames of a fade; a new world, whose constructor sets the
\* angle of view and does not know of the static variable.
WarpAway ==
    /\ ~game.fading /\ game.number < MaxWorlds
    /\ game' = [NewGame(game.number + 1) EXCEPT !.fading = TRUE]
    /\ steered' = [link |-> 0, active |-> FALSE]
    /\ UNCHANGED <<linked, fov, lens, cursor, buttons>>
FadingFrame(held) ==
    /\ game.fading /\ buttons' = held
    /\ UNCHANGED <<game, linked, fov, lens, cursor, steered>>
NewWorld ==
    /\ game.fading
    /\ game' = [game EXCEPT !.fading = FALSE]
    /\ lens' = MaxFov
    /\ UNCHANGED <<linked, fov, cursor, buttons, steered>>

CameraFrame ==
    \/ \E held \in SUBSET {"left", "right"}, active, moved, view \in BOOLEAN :
           GameFrame(held, active, "none", "none", moved, view)
    \/ \E turn, push \in {"in", "out", "none"} :
           GameFrame(buttons, TRUE, turn, push, FALSE, FALSE)
CameraNext ==
    \/ CameraFrame \/ WarpAway \/ NewWorld
    \/ \E held \in SUBSET {"left", "right"} : FadingFrame(held)
CameraSpec == CameraInit /\ [][CameraNext]_cameraVars

-----------------------------------------------------------------------------
\* The character never turns the camera of a world that is gone, unless a button
\* is held on from the last channel or the program is inactive: nobody unlinks it
\* when a world goes, only the first frame without a button does (gameloop.cpp:208, 243).
LinkAlive ==
    steered.active /\ buttons = {} => steered.link \in {0, game.number}

\* Distance and lens are one scale, whatever the wheel and a gamepad do in turn:
\* the view narrows only when the camera is as near as it comes, and neither
\* passes its limits by a notch.  Until the first warp: the new world is wide
\* again, camera_fov is not (gameloop.cpp:22, 60, 282-328).
ZoomIsOneScale ==
    game.number = 1 =>
        /\ lens = fov /\ (fov < MaxFov => game.radius <= MinRadius)
        /\ game.radius > MinRadius - Notch /\ game.radius < MaxRadius + Notch
        /\ fov > MinFov - Notch /\ fov < MaxFov + Notch

\* The cursor is hidden only in a drag, or until an active frame of a main loop
\* has seen that it is over.
CursorReturns ==
    ~cursor => buttons # {} \/ game.fading \/ ~steered.active

\* The camera, its link to the character and the cursor, together.
CameraKept == LinkAlive /\ ZoomIsOneScale /\ CursorReturns
=============================================================================
