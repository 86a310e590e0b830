------------------------------ MODULE Daylight ------------------------------
(***************************************************************************)
(* The sky of a stage over the day (client/3d/gameloop.cpp, LightStatus).  *)
(* Its evening material (1) and its night material (2) are blended while   *)
(* the sun rises or sets, and set once when day or night has come.  A step *)
(* is a Calc, which comes once in 3600 frames.                             *)
(*                                                                         *)
(* The day is a cycle of slots; when the sun rises and sets is given, the  *)
(* astronomy that computes it is not modelled.                             *)
(***************************************************************************)
EXTENDS Integers

CONSTANTS
    Day,             \* slots of a day
    Sunrise, Sunset, \* moning_glow_ and sunset_
    Before, After,   \* start_offset and end_offset: 90 and 30 minutes
    LongestGap       \* bound on the time between two Calcs

ASSUME DaylightAssumption ==
    /\ Day \in Nat /\ Sunrise \in Nat /\ Sunset \in Nat
    /\ Before \in Nat \ {0} /\ After \in Nat \ {0} /\ LongestGap \in 1..(Before + After + 1)
    /\ Before < Sunrise /\ Sunrise + After < Sunset - Before /\ Sunset + After < Day - 1

VARIABLES
    clock,     \* time_
    evening, night, \* the blend of each material: its slots of Before, of After
    noonFlag, nightFlag

daylightVars == <<clock, evening, night, noonFlag, nightFlag>>

WholeSky == [evening |-> Before, night |-> After]
Dark == [evening |-> 0, night |-> 0]

-----------------------------------------------------------------------------
\* SetGrobalAmbientColorMatchToTime at a time: the branches, and what each does
\* to the sky as it is.
Dawn(t) == t \in (Sunrise - Before)..(Sunrise + After)
Dusk(t) == t \in (Sunset - Before)..(Sunset + After)
AtNight(t) == t > Sunset + After \/ t < Sunrise - Before
AtNoon(t) == ~Dawn(t) /\ ~Dusk(t) /\ ~AtNight(t)

DawnSky(sky, t) ==
    IF t <= Sunrise THEN [sky EXCEPT !.evening = t - (Sunrise - Before)]
                    ELSE [sky EXCEPT !.night = t - Sunrise]
DuskSky(sky, t) ==
    IF t <= Sunset THEN [sky EXCEPT !.evening = Sunset - t]
                   ELSE [sky EXCEPT !.night = Sunset + After - t]
\* Mutant of SkyAt: the flags of day and night are taken for each other.
SkyAtSwapped(sky, t) ==
    IF Dawn(t) THEN DawnSky(sky, t) ELSE IF Dusk(t) THEN DuskSky(sky, t)
    ELSE IF AtNight(t) THEN IF noonFlag THEN Dark ELSE sky
    ELSE IF nightFlag THEN WholeSky ELSE sky

SkyAt(sky, t) ==
    IF Dawn(t) THEN DawnSky(sky, t) ELSE IF Dusk(t) THEN DuskSky(sky, t)
    ELSE IF AtNight(t) THEN IF nightFlag THEN Dark ELSE sky
    ELSE IF noonFlag THEN WholeSky ELSE sky

CalcAt(t) ==
    LET sky == SkyAt([evening |-> evening, night |-> night], t) IN
    /\ clock' = t /\ evening' = sky.evening /\ night' = sky.night
    /\ noonFlag' = (Dawn(t) \/ (noonFlag /\ ~AtNoon(t)))
    /\ nightFlag' = (Dusk(t) \/ (nightFlag /\ ~AtNight(t)))

\* LightStatus::Update of a new stage, whose sky is any; MaterialInit comes first.
DaylightInit ==
    /\ clock \in 0..(Day - 1) /\ evening \in 0..Before /\ night \in 0..After
    /\ noonFlag = TRUE /\ nightFlag = TRUE

\* The next Calc; the program may have been suspended, but not past a dawn or dusk.
Calc == \E gap \in 1..LongestGap : CalcAt((clock + gap) % Day)

DaylightSpec == DaylightInit /\ [][Calc]_daylightVars

-----------------------------------------------------------------------------
\* By day the sky is bright and by night dark, although each is set only once,
\* on a flag the other half of the day sets (gameloop.cpp:642, 662-684).
SkyFitsTime ==
    [][/\ AtNoon(clock') => [evening |-> evening', night |-> night'] = WholeSky
       /\ AtNight(clock') => [evening |-> evening', night |-> night'] = Dark]_daylightVars
=============================================================================
