------------------------------- MODULE Motions -------------------------------
(***************************************************************************)
(* The animation of the player's character (client/3d/MotionPlayer.cpp, as *)
(* client/3d/FieldPlayer.cpp drives it): basic motions, motions played by  *)
(* a key, a change of the model.  A step is one FieldPlayer::Update.       *)
(*                                                                         *)
(* Animations of a model are numbered, -1 standing for one it lacks; what  *)
(* is attached to it are DxLib's attach indices.  Times are not kept: an   *)
(* animation that is not looped, or a blend, may be over in any frame.     *)
(* chain_data_ of MotionPlayer is left out, since it is never filled: of a *)
(* chain only the first motion is played.                                  *)
(***************************************************************************)
EXTENDS Integers

CONSTANTS
    BasicMotions, \* what stand, walk and run may be numbered as in a model
    Emotes        \* the motions keys play, [anim, loop]

None == -1
Slots == 0..2

\* MV1GetAnimIndex finds stand, walk and run under three names.
ASSUME MotionsAssumption ==
    /\ \A b \in BasicMotions : /\ b.stand \in Nat /\ b.walk \in Nat /\ b.run \in Nat
                               /\ b.stand \notin {b.walk, b.run}
    /\ \A e \in Emotes : e.anim \in Nat \cup {None} /\ e.loop \in BOOLEAN

VARIABLES
    basic,    \* motion of FieldPlayer
    motion,   \* current_stat_.motion
    walks,    \* current_stat_.is_walking
    dummy,    \* dummy_move_count_
    chain,    \* additional_motion_: flag_ and the front of chain_data
    player,   \* the MotionPlayer, see MotionsInit
    attached, \* [slot |-> its animation]: what is attached to the model
    excused   \* for a property: why nothing may be playing

motionsVars == <<basic, motion, walks, dummy, chain, player, attached, excused>>

NoChain == [flag |-> FALSE, anim |-> None, loop |-> FALSE]

\* current, previous: attach indices; after: prev_anim_index_; loop: isloop_.
NewPlayer == [current |-> None, previous |-> None, after |-> None, loop |-> TRUE]

MotionsInit ==
    /\ basic \in BasicMotions /\ motion = 0 /\ walks = FALSE /\ dummy = 2
    /\ chain = NoChain /\ player = NewPlayer
    /\ attached = [s \in Slots |-> None] /\ excused = FALSE

-----------------------------------------------------------------------------
\* A state of the player is p, with what is attached to its model.
AnimOf(p) == IF p.current = None THEN None ELSE p.attached[p.current]
Detach(p, slot) == IF slot = None THEN p ELSE [p EXCEPT !.attached[slot] = None]
\* Mutant of DetachPrev: the motion is forgotten and stays on the model.
DetachPrevForgotten(p) == [p EXCEPT !.previous = None]

DetachPrev(p) == [Detach(p, p.previous) EXCEPT !.previous = None]
FreeSlot(p) == CHOOSE s \in Slots : p.attached[s] = None
                   /\ \A t \in Slots : t < s => p.attached[t] # None
Attach(p, anim) ==
    IF anim = None THEN [p EXCEPT !.current = None]
    ELSE [p EXCEPT !.current = FreeSlot(p), !.attached[FreeSlot(p)] = anim]

\* MotionPlayer::Play and ChainPlay: the former motion is blended out.
Switch(p, anim, loop) ==
    LET bare == DetachPrev(p) IN
    Attach([bare EXCEPT !.after = AnimOf(p), !.loop = loop, !.previous = p.current], anim)
Play(p, anim) == Switch(p, anim, TRUE)
ChainPlay(p, c) == Switch(p, c.anim, c.loop)
Stop(p) == [Detach(p, p.current) EXCEPT !.current = None]

\* MotionPlayer::Next.  ended: the time of the animation, blended: prev_blend_rate_
\* is over.  An animation that is not looped gives way to the one before it.
NextMotion(p, ended, blended) ==
    IF p.current = None THEN p
    ELSE LET q == IF ended /\ ~p.loop THEN Play(Stop(p), p.after) ELSE p IN
         IF blended THEN DetachPrev(q) ELSE q

-----------------------------------------------------------------------------
\* FieldPlayer::InputFromUser: the motion of a frame.  For two frames behind
\* SetModel keys do not move it, and in the first of them it moves by itself; the
\* gamepad adds to that.
Direction(count, key, pad) == (IF count = 0 THEN key ELSE IF count = 2 THEN 1 ELSE 0) + pad
MotionOf(b, m, walking, dir, air) ==
    IF air THEN m ELSE IF dir = 0 THEN b.stand ELSE IF walking THEN b.walk ELSE b.run

\* One frame; model: SetModel comes first, b being what the new model has.
MotionsFrame(model, b, key, pad, walking, air, c, ended, blended) ==
    LET count == IF model THEN 2 ELSE dummy
        before == IF model THEN 0 ELSE motion
        now == MotionOf(b, before, walking, Direction(count, key, pad), air)
        p == IF model THEN [attached |-> [s \in Slots |-> None], current |-> None, previous |-> None,
                            after |-> None, loop |-> TRUE]
             ELSE [attached |-> attached, current |-> player.current, previous |-> player.previous,
                   after |-> player.after, loop |-> player.loop]
        played == IF now # before THEN Play(p, now)
                  ELSE IF c.flag THEN ChainPlay(p, c) ELSE p
        q == NextMotion(played, ended, blended)
    IN
    /\ basic' = b /\ motion' = now /\ walks' = walking
    /\ dummy' = (IF count > 0 THEN count - 1 ELSE 0)
    /\ chain' = IF now = before THEN NoChain ELSE c
    /\ player' = [current |-> q.current, previous |-> q.previous, after |-> q.after, loop |-> q.loop]
    /\ attached' = q.attached
    /\ excused' = (now = before /\ \/ excused /\ ~model
                                   \/ count > 0 /\ (air \/ pad # 0)
                                   \/ c.flag /\ c.anim = None)

\* A key held flags its motion in every frame.
Flagged(e) == [flag |-> TRUE, anim |-> e.anim, loop |-> e.loop]

MotionsNext ==
    \/ \E key, pad \in {-1, 0, 1}, walking, air \in BOOLEAN :
           MotionsFrame(FALSE, basic, key, pad, walking, air, chain, FALSE, FALSE)
    \/ \E e \in Emotes, air \in BOOLEAN :
           MotionsFrame(FALSE, basic, 0, 0, walks, air, Flagged(e), FALSE, FALSE)
    \/ \E ended, blended, air \in BOOLEAN :
           MotionsFrame(FALSE, basic, 0, 0, walks, air, chain, ended, blended)
    \/ \E b \in BasicMotions, pad \in {-1, 0, 1}, air \in BOOLEAN :
           MotionsFrame(TRUE, b, 0, pad, walks, air, chain, FALSE, FALSE)

-----------------------------------------------------------------------------
\* Attached to the model is what the player plays or blends out, and nothing else:
\* no motion is left on it, and detaching finds what it detaches
\* (MotionPlayer.cpp:85-91, 129-136).
NothingLeftAttached ==
    /\ {s \in Slots : attached[s] # None} = {player.current, player.previous} \ {None}
    /\ player.current # None => player.current # player.previous

\* Two frames after a model has come something is playing: the character is made
\* to move a little and stand again (FieldPlayer.cpp:240, 525-530), whatever
\* numbers the motions have.  Not if it was in the air or the gamepad moved it,
\* nor after a motion the model lacks.
SomethingPlays == dummy = 0 /\ ~excused => player.current # None

\* What is attached to a model, together.
MotionsKept == NothingLeftAttached /\ SomethingPlays
=============================================================================
