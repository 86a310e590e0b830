------------------------------- MODULE Follow -------------------------------
(***************************************************************************)
(* Another player's character (client/3d/PlayerCharacter.cpp), which is    *)
(* told where to be about twice a second and gets there by itself: by      *)
(* walking straight, jumping, falling, or at once if it is far away.  A    *)
(* step is one Update, or a new target position.                           *)
(*                                                                         *)
(* Positions are whole; a frame takes the character one cell.  When a jump *)
(* begins depends on a prediction that is not modelled: it may begin in    *)
(* any frame in which it can.                                              *)
(***************************************************************************)
EXTENDS Integers

CONSTANTS
    Ground,  \* [<<x, z>> |-> the height of the floor], where there is one
    Targets, \* the positions that may be sent, with vy
    HalfHeight,    \* half the height of the character
    Beneath, \* how far below it a floor is looked for; 50
    Far,     \* 200
    JumpSpeed,
    FastestFall \* bound on move_vec_y_

ASSUME FollowAssumption ==
    /\ HalfHeight \in Nat /\ Beneath \in Nat /\ Far \in Nat /\ JumpSpeed \in Nat
    /\ \A t \in Targets : t.x \in Int /\ t.y \in Int /\ t.z \in Int /\ t.vy \in Int

VARIABLES
    other, \* current_pos_, jump_flag_, jump_end_ and move_vec_y_
    goal   \* target_position and vy of the data provider

followVars == <<other, goal>>

\* AddCharacter places it; nothing sets the first target.
FollowInit ==
    /\ other = [x |-> 0, y |-> 0, z |-> 0, jumping |-> FALSE, ended |-> FALSE, vec |-> 0]
    /\ goal \in Targets

-----------------------------------------------------------------------------
Larger(a, b) == IF a > b THEN a ELSE b
Apart(a, b) == IF a > b THEN a - b ELSE b - a
Distance == Larger(Apart(other.x, goal.x), Larger(Apart(other.y, goal.y), Apart(other.z, goal.z)))
Toward(a, b) == IF a < b THEN a + 1 ELSE IF a > b THEN a - 1 ELSE a
Supported(p, depth) ==
    <<p.x, p.z>> \in DOMAIN Ground /\ Ground[<<p.x, p.z>>] \in (p.y - depth)..(p.y + HalfHeight)

\* A straight step; level while the target is in the air, and up or down with
\* move_vec_y_ in a jump.
Stepped(p) ==
    LET vec == IF p.vec > -FastestFall THEN p.vec - 1 ELSE p.vec IN
    [p EXCEPT !.x = Toward(@, goal.x), !.z = Toward(@, goal.z),
              !.vec = IF p.jumping THEN vec ELSE @,
              !.y = IF p.jumping THEN @ + vec ELSE IF goal.vy = 0 THEN Toward(@, goal.y) ELSE @]

\* A jump can begin while the target has vertical speed.
MayJump(p) ==
    {p} \cup (IF ~p.jumping /\ goal.vy # 0 THEN {[p EXCEPT !.jumping = TRUE, !.vec = JumpSpeed]} ELSE {})

\* On the ground: over an edge, with the target below too, it begins to fall.
OverEdge(q) ==
    IF Supported(q, Beneath) /\ Ground[<<q.x, q.z>>] < q.y /\ goal.y < q.y
    THEN [q EXCEPT !.jumping = TRUE] ELSE q

\* Mutant of LandedAt: every landing ends the jump for good.
LandedAnywhere(p, q) ==
    IF q.y <= p.y /\ Supported(q, 0)
    THEN [q EXCEPT !.y = Ground[<<q.x, q.z>>], !.vec = 0, !.jumping = FALSE, !.ended = TRUE]
    ELSE q

\* In a jump: what goes down lands.  Only x is compared with the target.
LandedAt(p, q) ==
    IF q.y <= p.y /\ Supported(q, 0)
    THEN [q EXCEPT !.y = Ground[<<q.x, q.z>>], !.vec = 0, !.jumping = FALSE,
                   !.ended = @ \/ q.x = goal.x]
    ELSE q

FollowFrame ==
    /\ UNCHANGED goal
    /\ \/ /\ Distance >= Far
          /\ other' = [other EXCEPT !.x = goal.x, !.y = goal.y, !.z = goal.z]
       \/ /\ Distance < Far /\ Distance > 0 /\ ~other.ended
          /\ \E p \in MayJump(other) :
                 other' = IF p.jumping THEN LandedAt(p, Stepped(p)) ELSE OverEdge(Stepped(p))

\* A position from the server (PlayerManager::UpdatePlayerPosition).
NewTarget(t) ==
    /\ t # goal /\ goal' = t
    /\ other' = [other EXCEPT !.ended = @ /\ [goal EXCEPT !.vy = t.vy] = t]

FollowNext == FollowFrame \/ \E t \in Targets : NewTarget(t)

-----------------------------------------------------------------------------
\* Once its player stands somewhere, the character gets there, however it was
\* jumping or falling, or it has landed in line with it: jump_end_ looks at x only
\* (PlayerCharacter.cpp:188, 211, 281-303, 363).
StandsStill == goal.vy = 0 /\ <<goal.x, goal.z>> \in DOMAIN Ground /\ goal.y = Ground[<<goal.x, goal.z>>]
Follows ==
    <>[][goal' = goal]_followVars =>
        []<>(StandsStill => Distance = 0 \/ (other.ended /\ other.x = goal.x))
=============================================================================
