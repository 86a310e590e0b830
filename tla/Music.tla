-------------------------------- MODULE Music ---------------------------------
(***************************************************************************)
(* The music of the client (client/Music.cpp), which scripts start and     *)
(* stop and the main loop mixes once a frame: plain starts, crossfades,    *)
(* jingles (ME) after which the music before them comes back, fade-outs.   *)
(*                                                                         *)
(* A piece is its own handle.  What DxLib does with a handle is its sound; *)
(* volumes count the frames of a fade, FadeFrames standing for 100.  Names *)
(* are those of files that exist: for another one the code reads past the  *)
(* end of its list.  Sound effects are not mixed and left out.             *)
(***************************************************************************)
EXTENDS Integers

CONSTANTS
    Pieces,      \* the files of ./music
    Broken,      \* those DxLib cannot load
    FadeFrames,  \* 90
    MaxCalls     \* bound on the calls of scripts

NoPiece == "none"
NoWish == [piece |-> NoPiece, before |-> NoPiece]

ASSUME MusicAssumption ==
    /\ Broken \subseteq Pieces /\ NoPiece \notin Pieces
    /\ FadeFrames \in Nat \ {0} /\ MaxCalls \in Nat

VARIABLES
    sound,   \* [piece |-> whether it sounds, in a loop, how loud]
    loaded,  \* bgm_handle_
    present, prev, requested,  \* present_bgm_, prev_bgm_, requested_bgm_
    fade,    \* crossfade_now_ and fade_count_
    out,     \* fade_out_ and fadeout_count_
    wish,    \* the piece a script has asked for after another, undisturbed so far
    calls    \* calls of scripts so far

musicVars == <<sound, loaded, present, prev, requested, fade, out, wish, calls>>

MusicInit ==
    /\ sound = [p \in Pieces |-> [plays |-> FALSE, loops |-> FALSE, volume |-> FadeFrames]]
    /\ loaded = {} /\ present = NoPiece /\ prev = NoPiece /\ requested = NoPiece
    /\ fade = [now |-> FALSE, count |-> -1]
    /\ out = [on |-> FALSE, count |-> 0] /\ wish = NoWish /\ calls = 0

-----------------------------------------------------------------------------
\* PlaySoundMem, StopSoundMem, ChangeVolumeSoundMem; without a handle nothing.
PlaySound(s, p, loops) ==
    IF p = NoPiece THEN s ELSE [s EXCEPT ![p] = [@ EXCEPT !.plays = TRUE, !.loops = loops]]
StopSound(s, p) == IF p = NoPiece THEN s ELSE [s EXCEPT ![p].plays = FALSE]
ChangeVolume(s, p, v) == IF p = NoPiece THEN s ELSE [s EXCEPT ![p].volume = v]

\* !CheckSoundMem: only of a handle it is known that it does not sound.
Silent(p) == p # NoPiece /\ ~sound[p].plays

\* A call disturbs what the calls before it asked for.
Called == calls < MaxCalls /\ calls' = calls + 1
Wishes(p, q) ==
    wish' = IF p # q /\ NoPiece \notin {p, q} /\ ~out.on THEN [piece |-> p, before |-> q] ELSE NoWish

\* The handle is made with the first call; without one the call has no effect.
CannotLoad(p) ==
    Called /\ p \in Broken /\ wish' = NoWish /\ UNCHANGED <<sound, loaded, present, prev, requested, fade, out>>

Play(p, crossfade) ==
    /\ Called /\ p \notin Broken /\ loaded' = loaded \cup {p}
    /\ fade' = [now |-> crossfade, count |-> 0]
    /\ IF crossfade /\ prev = NoPiece THEN Wishes(p, present) ELSE wish' = NoWish
    /\ IF crossfade THEN requested' = p /\ UNCHANGED <<sound, present>>
       ELSE /\ sound' = PlaySound(StopSound(sound, present), p, TRUE)
            /\ present' = p /\ UNCHANGED requested
    /\ UNCHANGED <<prev, out>>

\* PlayME; prev_bgm_ is set although the piece cannot be loaded.
PlayME(p) ==
    /\ Called /\ prev' = (IF present # NoPiece THEN present ELSE prev)
    /\ IF p \in Broken THEN wish' = NoWish /\ UNCHANGED <<sound, loaded, present, fade>>
       ELSE /\ Wishes(prev', p)
            /\ loaded' = loaded \cup {p} /\ present' = p
            /\ sound' = PlaySound(StopSound(sound, present), p, FALSE)
            /\ fade' = [now |-> FALSE, count |-> 0]
    /\ UNCHANGED <<requested, out>>

\* The volume GetVolumeSoundMem tells is not in frames; a full one is past them.
VolumeOf(p) ==
    IF p = NoPiece THEN {-1}
    ELSE IF sound[p].volume = FadeFrames THEN {FadeFrames} ELSE 0..FadeFrames

Stop(fadeout) ==
    LET quiet == IF fadeout /\ ~fade.now THEN sound ELSE StopSound(sound, present)
        now == IF fade.now THEN requested ELSE present
    IN  /\ Called /\ wish' = NoWish
        /\ IF Silent(present) THEN UNCHANGED <<sound, present, requested, fade, out>>
           ELSE /\ sound' = quiet /\ present' = now /\ requested' = NoPiece
                /\ fade' = [now |-> FALSE, count |-> 0]
                /\ \E volume \in VolumeOf(now) : out' = [on |-> fadeout, count |-> volume]
        /\ UNCHANGED <<loaded, prev>>

\* Update: a state of the mixer is m.
Resumed(m) ==
    IF prev = NoPiece \/ ~Silent(present) THEN m
    ELSE [m EXCEPT !.present = NoPiece, !.requested = prev, !.fade = [now |-> TRUE, count |-> 0]]

\* Mutant of Faded: the piece that is faded in is never made the present one.
FadedNowhere(m) ==
    IF m.requested = NoPiece \/ ~m.fade.now \/ m.fade.count < 0 THEN m
    ELSE IF m.fade.count + 1 < FadeFrames THEN [m EXCEPT !.fade.count = @ + 1]
    ELSE [m EXCEPT !.requested = NoPiece, !.fade = [now |-> FALSE, count |-> 0]]

Faded(m) ==
    LET c == m.fade.count
        begun == IF c = 0 THEN PlaySound(m.sound, m.requested, TRUE) ELSE m.sound
        mixed == ChangeVolume(ChangeVolume(begun, m.present, FadeFrames - c), m.requested, c)
        ended == StopSound(ChangeVolume(mixed, m.requested, FadeFrames), m.present)
    IN  IF m.requested = NoPiece \/ ~m.fade.now THEN m
        ELSE IF c + 1 < FadeFrames THEN [m EXCEPT !.sound = mixed, !.fade.count = c + 1]
        ELSE [m EXCEPT !.sound = ChangeVolume(ended, m.present, FadeFrames),
                       !.present = m.requested, !.requested = NoPiece,
                       !.fade = [now |-> FALSE, count |-> 0]]

FadedOut(m) ==
    LET over == m.out.count >= FadeFrames
        after == IF over THEN NoPiece ELSE m.present
        count == IF over THEN 0 ELSE m.out.count
        quiet == IF over
                 THEN ChangeVolume(StopSound(m.sound, m.present), m.present, FadeFrames)
                 ELSE m.sound
    IN  IF ~m.out.on THEN m
        ELSE [m EXCEPT !.sound = ChangeVolume(quiet, after, FadeFrames - count),
                       !.present = after, !.requested = IF over THEN NoPiece ELSE @,
                       !.out = [on |-> ~over, count |-> count + 1]]

MusicUpdate ==
    LET m == FadedOut(Faded(Resumed([sound |-> sound, present |-> present,
                                     requested |-> requested, fade |-> fade, out |-> out])))
    IN  /\ sound' = m.sound /\ present' = m.present /\ requested' = m.requested
        /\ fade' = m.fade /\ out' = m.out /\ UNCHANGED <<loaded, prev, wish, calls>>

\* A piece that does not loop comes to its end.
PieceEnds(p) ==
    /\ sound[p].plays /\ ~sound[p].loops /\ sound' = StopSound(sound, p)
    /\ UNCHANGED <<loaded, present, prev, requested, fade, out, wish, calls>>

ScriptCalls ==
    \/ \E p \in Pieces : CannotLoad(p) \/ PlayME(p) \/ \E x \in BOOLEAN : Play(p, x)
    \/ \E x \in BOOLEAN : Stop(x)

MusicNext == ScriptCalls \/ MusicUpdate \/ \E p \in Pieces : PieceEnds(p)

\* Frames go on, and music plays on.
MusicFair == WF_musicVars(MusicUpdate) /\ WF_musicVars(\E p \in Pieces : PieceEnds(p))
MusicSpec == MusicInit /\ [][MusicNext]_musicVars /\ MusicFair

-----------------------------------------------------------------------------
Sounds(p) ==
    present = p /\ sound[p].plays /\ sound[p].loops /\ sound[p].volume = FadeFrames

(* When nobody disturbs it, a crossfade to another piece ends, and after a *)
(* jingle the piece it interrupted is back: it is the present one, in a    *)
(* loop and at full volume, and the piece before it has stopped            *)
(* (Music::Play, PlayME, Update).                                          *)
MusicComesBack == <>[](wish # NoWish => Sounds(wish.piece) /\ ~sound[wish.before].plays)
===============================================================================
