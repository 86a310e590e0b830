----------------------------- MODULE ChannelProofs -----------------------------
(***************************************************************************)
(* What holds of the machines of a channel, one by one as MCChannel runs   *)
(* them: the byte-rate meter of the server, the camera, the animation of   *)
(* the player's character, what the users say, the player's walk, the      *)
(* light of the day and the bytes of the commands.                         *)
(***************************************************************************)
EXTENDS ReceiveLimit, Camera, Motions, Relay, Walk, Daylight, Wire, FiniteSetTheorems,
        SequenceTheorems, WellFoundedInduction, TLAPS

-----------------------------------------------------------------------------
(* The byte-rate meter, for every refresh period, every pair of limits and *)
(* all message sizes.  The argument is a budget: a polite client has sent  *)
(* at most what its rate allows for the measured period, plus the current  *)
(* second, plus what one halving can lose to rounding.                     *)


(* The bytes counted for a polite client stay within its budget.           *)
Budget ==
    manner = "polite" => /\ spent <= PoliteRate
                         /\ sum <= PoliteRate * elapsed + PoliteRate + spent

(* What closed a session keeps it above the limit.                         *)
ClosedAbove == ~open => sum > Limit2 * elapsed

LimitInv ==
    /\ TypeOK
    /\ PeriodLongEnough
    /\ Budget
    /\ ClosedAbove
    /\ PoliteNeverLimited
    /\ ClosedStaysClosed

-----------------------------------------------------------------------------
(* Halving an integer, with the rounding of C++ on what is not negative.   *)
LEMMA Halves ==
    ASSUME NEW n \in Nat
    PROVE  /\ n \div 2 \in Nat
           /\ n = 2 * (n \div 2) \/ n = 2 * (n \div 2) + 1
  OBVIOUS

LEMMA HalfFacts == Half \in Nat /\ Half >= 1
  BY LimitAssumption DEF Half

(* A budget within the limit for the shortest period is within it for all. *)
LEMMA RoomGrows ==
    ASSUME NEW B \in Nat, NEW L \in Nat, NEW h \in Nat, NEW e \in Nat,
           h >= 1, e >= h, B * (h + 2) <= L * h
    PROVE  B * e + 2 * B <= L * e
<1>1. B * h + 2 * B <= L * h
  OBVIOUS
<1>2. B <= L
  <2>1. CASE L < B
    <3>1. PICK d \in Nat : B = L + d /\ d >= 1
      <4>1. B - L \in Nat /\ B = L + (B - L) /\ B - L >= 1
        BY <2>1
      <4> QED BY <4>1
    <3>2. B * h = L * h + d * h
      BY <3>1
    <3>3. d * h \in Nat
      OBVIOUS
    <3>4. L * h \in Nat
      OBVIOUS
    <3>5. B >= 1
      BY <3>1
    <3> QED BY <1>1, <3>2, <3>3, <3>4, <3>5
  <2> QED BY <2>1
<1>3. PICK d \in Nat : L = B + d
  <2>1. L - B \in Nat /\ L = B + (L - B)
    BY <1>2
  <2> QED BY <2>1
<1>4. PICK k \in Nat : e = h + k
  <2>1. e - h \in Nat /\ e = h + (e - h)
    OBVIOUS
  <2> QED BY <2>1
<1>5. d * h >= 2 * B
  <2>1. L * h = B * h + d * h
    BY <1>3
  <2>2. B * h \in Nat /\ d * h \in Nat
    OBVIOUS
  <2> QED BY <1>1, <2>1, <2>2
<1>6. d * e >= d * h
  <2>1. d * e = d * h + d * k
    BY <1>4
  <2>2. d * k \in Nat /\ d * h \in Nat
    OBVIOUS
  <2> QED BY <2>1, <2>2
<1>7. L * e = B * e + d * e
  BY <1>3
<1>8. B * e \in Nat /\ d * e \in Nat /\ d * h \in Nat
  OBVIOUS
<1> QED BY <1>5, <1>6, <1>7, <1>8

(* A halving keeps a budget that has a second's worth to spare.            *)
LEMMA BudgetHalves ==
    ASSUME NEW B \in Nat, NEW s \in Nat, NEW e \in Nat, NEW x \in Nat,
           s <= B * e + B + x
    PROVE  s \div 2 <= B * (e \div 2) + B + x
<1> DEFINE q == e \div 2
           t == s \div 2
<1>1. q \in Nat /\ t \in Nat /\ (e = 2 * q \/ e = 2 * q + 1) /\ 2 * t <= s
  BY Halves
<1> HIDE DEF q, t
<1>2. B * e <= 2 * (B * q) + B
  <2>1. CASE e = 2 * q
    BY <1>1, <2>1
  <2>2. CASE e = 2 * q + 1
    BY <1>1, <2>2
  <2> QED BY <1>1, <2>1, <2>2
<1>3. B * q \in Nat /\ B * e \in Nat
  BY <1>1
<1>4. t <= B * q + B + x
  BY <1>1, <1>2, <1>3
<1> QED BY <1>4 DEF q, t

(* A halving does not bring a sum that just grew back below a limit.       *)
LEMMA AboveHalves ==
    ASSUME NEW L \in Nat, NEW s \in Nat, NEW e \in Nat, s > L * e + 1
    PROVE  s \div 2 > L * (e \div 2)
<1> DEFINE q == e \div 2
           t == s \div 2
<1>1. q \in Nat /\ t \in Nat /\ (e = 2 * q \/ e = 2 * q + 1) /\ s <= 2 * t + 1
  BY Halves
<1> HIDE DEF q, t
<1>2. 2 * (L * q) <= L * e
  <2>1. CASE e = 2 * q
    BY <1>1, <2>1
  <2>2. CASE e = 2 * q + 1
    BY <1>1, <2>2
  <2> QED BY <1>1, <2>1, <2>2
<1>3. L * q \in Nat /\ L * e \in Nat
  BY <1>1
<1>4. t > L * q
  BY <1>1, <1>2, <1>3
<1> QED BY <1>4 DEF q, t

-----------------------------------------------------------------------------
(* What UpdateReadByteAverage returns: a period that is long enough again, *)
(* a budget that is kept, and a limit that stays exceeded.                 *)
LEMMA UpdatedFacts ==
    ASSUME NEW s \in Nat, NEW e \in Nat, e >= Half
    PROVE  /\ Updated(s, e)[1] \in Nat
           /\ Updated(s, e)[2] \in Nat
           /\ Updated(s, e)[2] >= Half
           /\ \A B, x \in Nat : s <= B * e + B + x =>
                 Updated(s, e)[1] <= B * Updated(s, e)[2] + B + x
           /\ \A L \in Nat : s > L * e + 1 => Updated(s, e)[1] > L * Updated(s, e)[2]
<1>1. CASE e >= RefreshSeconds
  <2>1. Updated(s, e) = <<s \div 2, e \div 2>>
    BY <1>1 DEF Updated
  <2>2. e \div 2 \in Nat /\ s \div 2 \in Nat
    BY Halves
  <2>3. e \div 2 >= Half
    BY <1>1, LimitAssumption DEF Half
  <2>4. \A B, x \in Nat : s <= B * e + B + x => s \div 2 <= B * (e \div 2) + B + x
    BY BudgetHalves
  <2>5. \A L \in Nat : s > L * e + 1 => s \div 2 > L * (e \div 2)
    BY AboveHalves
  <2> QED BY <2>1, <2>2, <2>3, <2>4, <2>5
<1>2. CASE ~(e >= RefreshSeconds)
  <2>1. Updated(s, e) = <<s, e>>
    BY <1>2 DEF Updated
  <2>2. \A L \in Nat : s > L * e + 1 => s > L * e
    <3> SUFFICES ASSUME NEW L \in Nat, s > L * e + 1
                 PROVE  s > L * e
      OBVIOUS
    <3>1. L * e \in Nat
      OBVIOUS
    <3> QED BY <3>1
  <2> QED BY <2>1, <2>2
<1> QED BY <1>1, <1>2

(* The server starts within every bound.                                   *)
LEMMA LimitInit == Init => LimitInv
<1> SUFFICES ASSUME Init PROVE LimitInv
  OBVIOUS
<1>1. RefreshSeconds >= Half
  BY LimitAssumption DEF Half
<1>2. PoliteRate * RefreshSeconds \in Nat
  BY LimitAssumption
<1> QED
  BY <1>1, <1>2, LimitAssumption
  DEF Init, LimitInv, TypeOK, Manner, PeriodLongEnough, Budget, ClosedAbove,
      PoliteNeverLimited, ClosedStaysClosed

(* A message keeps the invariant: it is counted, the period may be halved, *)
(* and the verdict is taken on what is left.                               *)
LEMMA LimitReceive ==
    ASSUME NEW size \in Sizes, NEW login \in BOOLEAN,
           LimitInv, Receive(size, login)
    PROVE  LimitInv'
<1> DEFINE s == sum + size
           U == Updated(s, elapsed)
           v == Verdict(U[1], U[2])
<1> USE DEF Allowance
<1>1. /\ size \in Nat /\ size >= 1 /\ PoliteRate \in Nat /\ Limit1 \in Nat
      /\ Limit2 \in Nat /\ Limit1 <= Limit2
  BY LimitAssumption
<1>2. /\ elapsed \in Nat /\ sum \in Nat /\ spent \in Nat /\ manner \in Manner
      /\ elapsed >= Half /\ Half \in Nat /\ Half >= 1 /\ s \in Nat
      /\ open \in BOOLEAN
      /\ verdict \in {"none", "handled", "greeted", "ignored", "closed"}
  BY <1>1, HalfFacts DEF LimitInv, TypeOK, PeriodLongEnough
<1>3. /\ spent' = spent + size /\ elapsed' = U[2]
      /\ sum' = (IF Greets(login, v) THEN 0 ELSE U[1])
      /\ verdict' = (IF Greets(login, v) THEN "greeted" ELSE v)
      /\ open' = (open /\ v # "closed") /\ manner' = manner
      /\ spent + size <= Allowance
  BY DEF Receive
<1>4. /\ U[1] \in Nat /\ U[2] \in Nat /\ U[2] >= Half
      /\ \A B, x \in Nat : s <= B * elapsed + B + x => U[1] <= B * U[2] + B + x
      /\ \A L \in Nat : s > L * elapsed + 1 => U[1] > L * U[2]
  BY <1>2, UpdatedFacts
<1> HIDE DEF U
<1>5. v \in {"handled", "ignored", "closed"}
  BY DEF Verdict
<1>6. /\ v = "closed" <=> U[1] > Limit2 * U[2]
      /\ U[1] <= Limit1 * U[2] /\ v # "closed" => v = "handled"
  <2>1. U[1] \in Nat /\ Limit1 * U[2] \in Nat /\ Limit2 * U[2] \in Nat
    BY <1>1, <1>4
  <2>2. CASE U[1] > Limit2 * U[2]
    BY <2>2 DEF Verdict
  <2>3. CASE ~(U[1] > Limit2 * U[2])
    BY <2>1, <2>3 DEF Verdict
  <2> QED BY <2>2, <2>3
<1>7. Greets(login, v) => login /\ v = "handled"
  BY DEF Greets
<1> HIDE DEF v
<1>8. TypeOK'
  <2>1. verdict' \in {"none", "handled", "greeted", "ignored", "closed"}
    BY <1>3, <1>5
  <2>2. spent' \in Nat /\ elapsed' \in Nat /\ sum' \in Nat /\ open' \in BOOLEAN
    BY <1>1, <1>2, <1>3, <1>4
  <2> QED BY <1>2, <1>3, <2>1, <2>2 DEF TypeOK
<1>9. PeriodLongEnough'
  BY <1>2, <1>3, <1>4 DEF PeriodLongEnough, Half
<1>10. manner = "polite" => U[1] <= PoliteRate * U[2] + PoliteRate + (spent + size)
  <2> SUFFICES ASSUME manner = "polite"
               PROVE  U[1] <= PoliteRate * U[2] + PoliteRate + (spent + size)
    OBVIOUS
  <2>1. sum <= PoliteRate * elapsed + PoliteRate + spent
    BY DEF LimitInv, Budget
  <2>2. PoliteRate * elapsed \in Nat
    BY <1>1, <1>2
  <2>3. s <= PoliteRate * elapsed + PoliteRate + (spent + size)
    BY <1>1, <1>2, <2>1, <2>2
  <2> QED BY <1>1, <1>2, <1>4, <2>3
<1>11. Budget'
  <2> SUFFICES ASSUME manner = "polite"
               PROVE  /\ spent' <= PoliteRate
                      /\ sum' <= PoliteRate * elapsed' + PoliteRate + spent'
    BY <1>3 DEF Budget
  <2>1. spent' <= PoliteRate
    BY <1>3
  <2>2. PoliteRate * U[2] \in Nat
    BY <1>1, <1>4
  <2> QED BY <1>1, <1>2, <1>3, <1>10, <2>1, <2>2
<1>12. PoliteNeverLimited'
  <2> SUFFICES ASSUME PoliteRoom, manner = "polite"
               PROVE  verdict' \in {"none", "handled", "greeted"}
    BY <1>3 DEF PoliteNeverLimited, PoliteRoom, Half
  <2>1. PoliteRate * U[2] + 2 * PoliteRate <= Limit1 * U[2]
    BY <1>1, <1>2, <1>4, RoomGrows DEF PoliteRoom
  <2>2. spent + size <= PoliteRate
    BY <1>3
  <2>3. PoliteRate * U[2] \in Nat /\ Limit1 * U[2] \in Nat /\ Limit2 * U[2] \in Nat
    BY <1>1, <1>4
  <2>4. U[1] <= Limit1 * U[2]
    BY <1>1, <1>2, <1>4, <1>10, <2>1, <2>2, <2>3
  <2>5. Limit1 * U[2] <= Limit2 * U[2]
    <3>1. PICK d \in Nat : Limit2 = Limit1 + d
      <4>1. Limit2 - Limit1 \in Nat /\ Limit2 = Limit1 + (Limit2 - Limit1)
        BY <1>1
      <4> QED BY <4>1
    <3>2. Limit2 * U[2] = Limit1 * U[2] + d * U[2] /\ d * U[2] \in Nat
      BY <1>1, <1>4, <3>1
    <3> QED BY <2>3, <3>2
  <2>6. v # "closed"
    BY <1>4, <1>6, <2>3, <2>4, <2>5
  <2> QED BY <1>3, <1>6, <2>4, <2>6
<1>13. v = "closed" => sum' > Limit2 * elapsed'
  BY <1>3, <1>6, <1>7
<1>14. ~open => v = "closed"
  <2> SUFFICES ASSUME ~open PROVE v = "closed"
    OBVIOUS
  <2>1. sum > Limit2 * elapsed
    BY DEF LimitInv, ClosedAbove
  <2>2. Limit2 * elapsed \in Nat
    BY <1>1, <1>2
  <2>3. s > Limit2 * elapsed + 1
    BY <1>1, <1>2, <2>1, <2>2
  <2>4. U[1] > Limit2 * U[2]
    BY <1>1, <1>4, <2>3
  <2> QED BY <1>6, <2>4
<1>15. ClosedAbove' /\ ClosedStaysClosed'
  <2>1. ~open' => v = "closed" /\ verdict' = "closed"
    BY <1>2, <1>3, <1>7, <1>14
  <2> QED BY <2>1, <1>13 DEF ClosedAbove, ClosedStaysClosed
<1> QED BY <1>8, <1>9, <1>11, <1>12, <1>15 DEF LimitInv

(* A second that passes adds one more second's worth to the budget.        *)
LEMMA LimitTick == LimitInv /\ Tick => LimitInv'
<1> SUFFICES ASSUME LimitInv, Tick PROVE LimitInv'
  OBVIOUS
<1>1. TypeOK /\ PeriodLongEnough /\ Half \in Nat /\ PoliteRate \in Nat
  BY HalfFacts, LimitAssumption DEF LimitInv
<1>2. /\ open /\ open' = open /\ elapsed' = elapsed + 1 /\ spent' = 0
      /\ sum' = sum /\ manner' = manner /\ verdict' = verdict
  BY DEF Tick
<1>3. TypeOK'
  BY <1>1, <1>2 DEF TypeOK
<1>4. PeriodLongEnough'
  BY <1>1, <1>2 DEF PeriodLongEnough, TypeOK, Half
<1>5. Budget'
  <2> SUFFICES ASSUME manner = "polite"
               PROVE  /\ spent' <= PoliteRate
                      /\ sum' <= PoliteRate * elapsed' + PoliteRate + spent'
    BY <1>2 DEF Budget
  <2>1. spent <= PoliteRate /\ sum <= PoliteRate * elapsed + PoliteRate + spent
    BY DEF LimitInv, Budget
  <2>2. /\ PoliteRate * (elapsed + 1) = PoliteRate * elapsed + PoliteRate
        /\ PoliteRate * elapsed \in Nat
    BY <1>1 DEF TypeOK
  <2> QED BY <1>1, <1>2, <2>1, <2>2 DEF TypeOK
<1>6. ClosedAbove' /\ ClosedStaysClosed'
  BY <1>2 DEF ClosedAbove, ClosedStaysClosed
<1>7. PoliteNeverLimited'
  BY <1>2 DEF LimitInv, PoliteNeverLimited, PoliteRoom, Half
<1> QED BY <1>3, <1>4, <1>5, <1>6, <1>7 DEF LimitInv

(* Every step of the meter keeps the invariant.                            *)
LEMMA LimitNext == LimitInv /\ [Next]_vars => LimitInv'
<1> SUFFICES ASSUME LimitInv, [Next]_vars PROVE LimitInv'
  OBVIOUS
<1> USE DEF LimitInv, TypeOK, PeriodLongEnough, Budget, ClosedAbove, PoliteNeverLimited,
            ClosedStaysClosed, PoliteRoom, Half
<1>1. CASE \E size \in Sizes, login \in BOOLEAN : Receive(size, login)
  BY <1>1, LimitReceive
<1>2. CASE Tick
  BY <1>2, LimitTick
<1>3. CASE ChangeManner
  BY <1>3 DEF ChangeManner, Manner
<1>4. CASE UNCHANGED vars
  BY <1>4 DEF vars
<1> QED BY <1>1, <1>2, <1>3, <1>4 DEF Next

(* The invariant holds in every state of the specification.                *)
THEOREM LimitInvariant == Spec => []LimitInv
  BY LimitInit, LimitNext, PTL DEF Spec

-----------------------------------------------------------------------------
(* The fields of the meter stay what Session.hpp declares them to hold.    *)
THEOREM LimitTypeCorrect == Spec => []TypeOK
  BY LimitInvariant, PTL DEF LimitInv

(* GetReadByteAverage always divides by half a refresh period or more.     *)
THEOREM PeriodIsLongEnough == Spec => []PeriodLongEnough
  BY LimitInvariant, PTL DEF LimitInv

(* A client within its rate never loses a message to receive_limit_1 nor   *)
(* its session to receive_limit_2, for every refresh period and limit.     *)
THEOREM PoliteIsNeverLimited == Spec => []PoliteNeverLimited
  BY LimitInvariant, PTL DEF LimitInv

(* Nothing left in the buffer of a session the limits closed is handled.   *)
THEOREM ClosedIsClosed == Spec => []ClosedStaysClosed
  BY LimitInvariant, PTL DEF LimitInv

(* The meter is sound for every refresh period and every pair of limits.   *)
THEOREM LimitsAreSound == Spec => []LimitsSound
  BY LimitTypeCorrect, PeriodIsLongEnough, ClosedIsClosed, PTL DEF LimitsSound
-----------------------------------------------------------------------------
(* The camera, for all limits of its distance and its angle of view,       *)
(* however many channels are visited.  Distance and angle carry each       *)
(* other; the link and the cursor need only that no frame of a fade counts *)
(* as active.                                                              *)


Buttons == {"left", "right"}

CameraTypeOK ==
    /\ game \in [number : Nat, manual : BOOLEAN, radius : Int, fading : BOOLEAN]
    /\ linked \in Nat /\ fov \in Int /\ lens \in Int /\ cursor \in BOOLEAN
    /\ buttons \in SUBSET Buttons
    /\ steered \in [link : Nat, active : BOOLEAN]

(* A fade is on the way to a second world, and steers nothing.             *)
FadesAreIdle ==
    /\ game.number >= 1
    /\ game.fading => game.number > 1 /\ ~steered.active

CameraInv == CameraTypeOK /\ FadesAreIdle /\ CameraKept

-----------------------------------------------------------------------------
(* A zoom that stays on the scale, from the angle it started with.         *)
OnScale(z) ==
    /\ z \in [radius : Int, fov : Int, set : BOOLEAN]
    /\ z.fov < MaxFov => z.radius <= MinRadius
    /\ z.radius > MinRadius - Notch /\ z.radius < MaxRadius + Notch
    /\ z.fov > MinFov - Notch /\ z.fov < MaxFov + Notch
    /\ ~z.set => z.fov = fov

LEMMA Limits ==
    /\ MinRadius \in Nat /\ MaxRadius \in Nat /\ StartRadius \in Nat
    /\ MinRadius <= StartRadius /\ StartRadius <= MaxRadius
    /\ MinFov \in Nat /\ MaxFov \in Nat /\ MinFov < MaxFov
    /\ Notch \in Nat /\ Notch >= 1
  BY CameraAssumption

(* A turn of the wheel gives whole numbers, and stays on the scale.        *)
LEMMA WheelTyped ==
    ASSUME CameraTypeOK, NEW turn
    PROVE  Wheel(turn) \in [radius : Int, fov : Int, set : BOOLEAN]
  BY Limits DEF CameraTypeOK, Wheel, ZoomIn, ZoomOut

LEMMA WheelOnScale ==
    ASSUME CameraTypeOK, ZoomIsOneScale, game.number = 1, NEW turn
    PROVE  OnScale(Wheel(turn))
<1>1. /\ fov < MaxFov => game.radius <= MinRadius
      /\ game.radius > MinRadius - Notch /\ game.radius < MaxRadius + Notch
      /\ fov > MinFov - Notch /\ fov < MaxFov + Notch
      /\ game.radius \in Int /\ fov \in Int
  BY DEF CameraTypeOK, ZoomIsOneScale
<1>2. OnScale([radius |-> game.radius, fov |-> fov, set |-> FALSE])
  BY <1>1 DEF OnScale
<1>3. OnScale(ZoomIn)
  BY <1>1, Limits DEF OnScale, ZoomIn
<1>4. OnScale(ZoomOut)
  BY <1>1, Limits DEF OnScale, ZoomOut
<1> QED BY <1>2, <1>3, <1>4 DEF Wheel

(* A push of the gamepad after it.                                         *)
LEMMA PadTyped ==
    ASSUME NEW z \in [radius : Int, fov : Int, set : BOOLEAN], NEW push
    PROVE  Pad(z, push) \in [radius : Int, fov : Int, set : BOOLEAN]
<1>1. z.radius \in Int /\ z.fov \in Int /\ z.set \in BOOLEAN
  OBVIOUS
<1>2. PadIn(z, 1) \in [radius : Int, fov : Int, set : BOOLEAN]
  <2>1. z.radius - 1 \in Int /\ MinRadius \in Int /\ AtLeast(z.fov - 1, MinFov) \in Int
    BY <1>1, Limits DEF AtLeast
  <2> QED BY <1>1, <2>1 DEF PadIn
<1>3. PadOut(z, 1) \in [radius : Int, fov : Int, set : BOOLEAN]
  <2>1. AtMost(z.radius + 1, MaxRadius) \in Int /\ AtMost(z.fov + 1, MaxFov) \in Int
    BY <1>1, Limits DEF AtMost
  <2> QED BY <1>1, <2>1 DEF PadOut
<1> QED BY <1>2, <1>3 DEF Pad

LEMMA PadOnScale ==
    ASSUME NEW z, OnScale(z), NEW push
    PROVE  OnScale(Pad(z, push))
<1>1. /\ z \in [radius : Int, fov : Int, set : BOOLEAN]
      /\ z.radius \in Int /\ z.fov \in Int
      /\ z.fov < MaxFov => z.radius <= MinRadius
      /\ z.radius > MinRadius - Notch /\ z.radius < MaxRadius + Notch
      /\ z.fov > MinFov - Notch /\ z.fov < MaxFov + Notch
      /\ ~z.set => z.fov = fov
  BY DEF OnScale
<1>2. OnScale(PadIn(z, 1))
  <2>1. CASE z.radius - 1 >= MinRadius
    <3>1. /\ PadIn(z, 1).radius = z.radius - 1 /\ PadIn(z, 1).fov = z.fov
          /\ PadIn(z, 1).set = z.set
      BY <2>1 DEF PadIn
    <3>2. PadIn(z, 1) \in [radius : Int, fov : Int, set : BOOLEAN]
      BY <1>1, <2>1 DEF PadIn
    <3>3. ~PadIn(z, 1).set => PadIn(z, 1).fov = fov
      BY <1>1, <3>1, Zenon
    <3>4. PadIn(z, 1).fov < MaxFov => PadIn(z, 1).radius <= MinRadius
      BY <1>1, <3>1, Limits
    <3>5. /\ PadIn(z, 1).radius > MinRadius - Notch /\ PadIn(z, 1).radius < MaxRadius + Notch
          /\ PadIn(z, 1).fov > MinFov - Notch /\ PadIn(z, 1).fov < MaxFov + Notch
      BY <1>1, <2>1, <3>1, Limits
    <3> QED BY <3>2, <3>3, <3>4, <3>5, Zenon DEF OnScale
  <2>2. CASE ~(z.radius - 1 >= MinRadius)
    <3> DEFINE f == AtLeast(z.fov - 1, MinFov)
    <3>1. /\ PadIn(z, 1).radius = MinRadius /\ PadIn(z, 1).fov = f /\ PadIn(z, 1).set
      BY <2>2 DEF PadIn
    <3>2. f \in Int /\ f >= MinFov /\ f < MaxFov + Notch
      BY <1>1, Limits DEF AtLeast
    <3> HIDE DEF f
    <3>3. PadIn(z, 1) \in [radius : Int, fov : Int, set : BOOLEAN]
      BY <2>2, <3>2, Limits DEF PadIn, f
    <3> QED BY <1>1, <3>1, <3>2, <3>3, Limits DEF OnScale
  <2> QED BY <2>1, <2>2
<1>3. OnScale(PadOut(z, 1))
  <2> DEFINE f == AtMost(z.fov + 1, MaxFov)
             r == IF z.fov + 1 > MaxFov THEN AtMost(z.radius + 1, MaxRadius) ELSE z.radius
  <2>1. PadOut(z, 1).radius = r /\ PadOut(z, 1).fov = f /\ PadOut(z, 1).set
    BY DEF PadOut
  <2>2. f \in Int /\ f > MinFov - Notch /\ f <= MaxFov
    BY <1>1, Limits DEF AtMost
  <2>3. r \in Int /\ r > MinRadius - Notch /\ r < MaxRadius + Notch
    BY <1>1, Limits DEF AtMost
  <2>4. f < MaxFov => r <= MinRadius
    BY <1>1, Limits DEF AtMost
  <2> HIDE DEF f, r
  <2>5. PadOut(z, 1) \in [radius : Int, fov : Int, set : BOOLEAN]
    <3>1. Pad(z, "out") = PadOut(z, 1)
      BY DEF Pad
    <3> QED BY <1>1, <3>1, PadTyped
  <2> QED BY <2>1, <2>2, <2>3, <2>4, <2>5, Limits DEF OnScale
<1> QED BY <1>1, <1>2, <1>3 DEF Pad

-----------------------------------------------------------------------------
LEMMA CameraInitially == CameraInit => CameraInv
<1> SUFFICES ASSUME CameraInit PROVE CameraInv
  OBVIOUS
<1>1. CameraTypeOK
  BY Limits DEF CameraInit, NewGame, CameraTypeOK
<1>2. FadesAreIdle
  BY DEF CameraInit, NewGame, FadesAreIdle
<1>3. CameraKept
  BY Limits DEF CameraInit, NewGame, CameraKept, LinkAlive, ZoomIsOneScale, CursorReturns
<1> QED BY <1>1, <1>2, <1>3 DEF CameraInv

(* A frame of the main loop: the zoom by the lemmas above; without a       *)
(* button it unlinks the character and shows the cursor.                   *)
LEMMA FrameKeeps ==
    ASSUME CameraInv, NEW held \in SUBSET Buttons, NEW active \in BOOLEAN, NEW turn, NEW push,
           NEW moved \in BOOLEAN, NEW view \in BOOLEAN,
           GameFrame(held, active, turn, push, moved, view)
    PROVE  CameraInv'
<1> USE DEF CameraInv
<1>0. buttons' = held /\ steered' = [link |-> linked', active |-> active] /\ ~game.fading
  BY DEF GameFrame
<1>1. CASE active
  <2> DEFINE z == Pad(Wheel(turn), push)
  <2>1. MoveCamera(held, turn, push, moved, view)
    BY <1>1 DEF GameFrame
  <2>2. z \in [radius : Int, fov : Int, set : BOOLEAN]
    BY WheelTyped, PadTyped
  <2>3. game.number = 1 => OnScale(z)
    BY WheelOnScale, PadOnScale DEF CameraKept
  <2>4. fov' = z.fov /\ lens' = (IF z.set THEN z.fov ELSE lens)
    BY <2>1 DEF MoveCamera, Zoomed
  <2>5. game' = [game EXCEPT !.radius = z.radius,
                   !.manual = Presses(held) \/ (held = {} /\ view)
                              \/ (@ /\ (Dragging(held) \/ ~moved))]
    BY <2>1 DEF MoveCamera
  <2>6. Presses(held) \in BOOLEAN /\ Dragging(held) \in BOOLEAN
    BY DEF Presses, Dragging
  <2> HIDE DEF z
  <2>7. /\ game' \in [number : Nat, manual : BOOLEAN, radius : Int, fading : BOOLEAN]
        /\ game'.number = game.number /\ game'.fading = game.fading /\ game'.radius = z.radius
    BY <2>2, <2>5, <2>6 DEF CameraTypeOK
  <2>8. /\ linked' = (IF Presses(held) THEN IF "left" \in held THEN game.number ELSE linked
                      ELSE IF Dragging(held) THEN linked ELSE 0)
        /\ cursor' = (IF Presses(held) THEN FALSE ELSE IF Dragging(held) THEN cursor ELSE TRUE)
    BY <2>1 DEF MoveCamera
  <2>9. CameraTypeOK'
    <3>1. linked' \in Nat /\ cursor' \in BOOLEAN
      BY <2>8 DEF CameraTypeOK
    <3>2. fov' \in Int /\ lens' \in Int
      BY <2>2, <2>4 DEF CameraTypeOK
    <3> QED BY <1>0, <2>7, <3>1, <3>2 DEF CameraTypeOK
  <2>10. FadesAreIdle'
    BY <1>0, <2>7 DEF FadesAreIdle
  <2>11. held = {} => ~Presses(held) /\ ~Dragging(held)
    BY DEF Presses, Dragging
  <2>12. LinkAlive'
    BY <1>0, <2>8, <2>11 DEF LinkAlive
  <2>13. CursorReturns'
    BY <1>0, <2>8, <2>11 DEF CursorReturns
  <2>14. ZoomIsOneScale'
    BY <2>3, <2>4, <2>7 DEF ZoomIsOneScale, OnScale, CameraKept
  <2> QED BY <2>9, <2>10, <2>12, <2>13, <2>14 DEF CameraKept
<1>2. CASE ~active
  <2>1. UNCHANGED <<game, fov, lens, cursor, linked>>
    BY <1>2 DEF GameFrame
  <2>2. CameraTypeOK' /\ FadesAreIdle'
    BY <1>0, <2>1 DEF CameraTypeOK, FadesAreIdle
  <2>3. CameraKept'
    BY <1>0, <1>2, <2>1 DEF CameraKept, LinkAlive, ZoomIsOneScale, CursorReturns
  <2> QED BY <2>2, <2>3
<1> QED BY <1>1, <1>2

LEMMA WarpKeeps == CameraInv /\ WarpAway => CameraInv'
<1> SUFFICES ASSUME CameraInv, WarpAway PROVE CameraInv'
  OBVIOUS
<1>1. /\ game' = [number |-> game.number + 1, manual |-> FALSE, radius |-> StartRadius, fading |-> TRUE]
      /\ steered' = [link |-> 0, active |-> FALSE]
      /\ UNCHANGED <<linked, fov, lens, cursor, buttons>>
  BY DEF WarpAway, NewGame
<1>2. CameraTypeOK' /\ FadesAreIdle'
  BY <1>1, Limits DEF CameraInv, CameraTypeOK, FadesAreIdle
<1>3. CameraKept'
  BY <1>1, <1>2 DEF CameraInv, CameraTypeOK, FadesAreIdle, CameraKept, LinkAlive, ZoomIsOneScale, CursorReturns
<1> QED BY <1>2, <1>3 DEF CameraInv

LEMMA FadeKeeps ==
    ASSUME CameraInv, NEW held \in SUBSET Buttons, FadingFrame(held)
    PROVE  CameraInv'
<1>1. CameraTypeOK' /\ FadesAreIdle'
  BY DEF FadingFrame, CameraInv, CameraTypeOK, FadesAreIdle
<1>2. CameraKept'
  BY DEF FadingFrame, CameraInv, FadesAreIdle, CameraKept, LinkAlive, ZoomIsOneScale, CursorReturns
<1> QED BY <1>1, <1>2 DEF CameraInv

LEMMA NewWorldKeeps == CameraInv /\ NewWorld => CameraInv'
<1> SUFFICES ASSUME CameraInv, NewWorld PROVE CameraInv'
  OBVIOUS
<1>1. /\ game' \in [number : Nat, manual : BOOLEAN, radius : Int, fading : BOOLEAN]
      /\ game'.number = game.number /\ ~game'.fading /\ game.fading
  BY DEF NewWorld, CameraInv, CameraTypeOK
<1>2. CameraTypeOK' /\ FadesAreIdle'
  BY <1>1, Limits DEF NewWorld, CameraInv, CameraTypeOK, FadesAreIdle
<1>3. CameraKept'
  BY <1>1 DEF NewWorld, CameraInv, FadesAreIdle, CameraKept, LinkAlive, ZoomIsOneScale, CursorReturns
<1> QED BY <1>2, <1>3 DEF CameraInv

LEMMA CameraStep == CameraInv /\ [CameraNext]_cameraVars => CameraInv'
<1> SUFFICES ASSUME CameraInv, [CameraNext]_cameraVars PROVE CameraInv'
  OBVIOUS
<1>1. CASE CameraFrame
  <2>1. CASE \E held \in SUBSET {"left", "right"}, active, moved, view \in BOOLEAN :
                 GameFrame(held, active, "none", "none", moved, view)
    BY <2>1, FrameKeeps DEF Buttons
  <2>2. CASE \E turn, push \in {"in", "out", "none"} :
                 GameFrame(buttons, TRUE, turn, push, FALSE, FALSE)
    <3>1. buttons \in SUBSET Buttons
      BY DEF CameraInv, CameraTypeOK
    <3> QED BY <2>2, <3>1, FrameKeeps
  <2> QED BY <1>1, <2>1, <2>2 DEF CameraFrame
<1>2. CASE WarpAway
  BY <1>2, WarpKeeps
<1>3. CASE NewWorld
  BY <1>3, NewWorldKeeps
<1>4. CASE \E held \in SUBSET {"left", "right"} : FadingFrame(held)
  BY <1>4, FadeKeeps DEF Buttons
<1>5. CASE UNCHANGED cameraVars
  <2>1. CameraTypeOK' /\ FadesAreIdle'
    BY <1>5 DEF cameraVars, CameraInv, CameraTypeOK, FadesAreIdle
  <2>2. CameraKept'
    BY <1>5 DEF cameraVars, CameraInv, CameraKept, LinkAlive, ZoomIsOneScale, CursorReturns
  <2> QED BY <2>1, <2>2 DEF CameraInv
<1> QED BY <1>1, <1>2, <1>3, <1>4, <1>5 DEF CameraNext

(* Whatever the mouse, the wheel and a gamepad do over any number of       *)
(* channels: distance and angle of the first world are one scale, a frame  *)
(* without a button has unlinked the character, and the cursor comes back  *)
(* (GameLoop::MoveCamera, FieldPlayer::Move).                              *)
THEOREM CameraIsKept == CameraSpec => []CameraKept
<1>1. CameraInit => CameraInv
  BY CameraInitially
<1>2. CameraInv /\ [CameraNext]_cameraVars => CameraInv'
  BY CameraStep
<1>3. CameraInv => CameraKept
  BY DEF CameraInv
<1> QED BY <1>1, <1>2, <1>3, PTL DEF CameraSpec
-----------------------------------------------------------------------------
(* The animation of the player's character, whatever the motions of the    *)
(* models are numbered.                                                    *)

Anims == Nat \cup {None}
SlotOrNone == Slots \cup {None}
Playing == [attached : [Slots -> Anims], current : SlotOrNone, previous : SlotOrNone,
            after : Anims, loop : BOOLEAN]

(* On the model is what is played and what is blended out.                 *)
Tidy(p) ==
    /\ p \in Playing
    /\ \A s \in Slots : p.attached[s] # None <=> s = p.current \/ s = p.previous
    /\ p.current # None => p.current # p.previous

(* Something is played, and what follows it is known.                      *)
GoesOnPlaying(p) == p.current # None /\ (~p.loop => p.after # None)

LEMMA SlotFacts == None \notin Nat /\ None \notin Slots /\ Slots = {0, 1, 2}
  BY DEF None, Slots

LEMMA DetachPrevKeeps ==
    ASSUME NEW p, Tidy(p)
    PROVE  /\ Tidy(DetachPrev(p)) /\ DetachPrev(p).previous = None
           /\ DetachPrev(p).current = p.current /\ DetachPrev(p).after = p.after
           /\ DetachPrev(p).loop = p.loop /\ AnimOf(DetachPrev(p)) = AnimOf(p)
<1> DEFINE q == Detach(p, p.previous)
           r == DetachPrev(p)
<1>0. p \in Playing
  BY DEF Tidy
<1>1. r = [q EXCEPT !.previous = None]
  BY DEF DetachPrev
<1>2. CASE p.previous = None
  <2>1. q = p
    BY <1>2 DEF Detach
  <2>2. r = p
    BY <1>0, <1>1, <1>2, <2>1 DEF Playing
  <2> HIDE DEF r
  <2> QED
    BY <1>2, <2>2 DEF r
<1>3. CASE p.previous # None
  <2> DEFINE a == [p.attached EXCEPT ![p.previous] = None]
  <2>1. q = [p EXCEPT !.attached = a]
    BY <1>0, <1>3 DEF Detach, Playing
  <2>2. p.previous \in Slots /\ a \in [Slots -> Anims]
    BY <1>0, <1>3 DEF Playing, SlotOrNone, Anims
  <2> HIDE DEF a, q
  <2>3. /\ r \in Playing /\ r.previous = None /\ r.attached = a /\ r.current = p.current
        /\ r.after = p.after /\ r.loop = p.loop
    <3> HIDE DEF r
    <3> QED
      BY <1>0, <1>1, <2>1, <2>2 DEF Playing, SlotOrNone
  <2> HIDE DEF r
  <2>4. \A s \in Slots : a[s] = IF s = p.previous THEN None ELSE p.attached[s]
    BY <1>0, <2>2 DEF a, Playing
  <2>5. \A s \in Slots : r.attached[s] # None <=> s = r.current \/ s = r.previous
    BY <2>3, <2>4, SlotFacts DEF Tidy
  <2>6. Tidy(r)
    BY <2>3, <2>5 DEF Tidy
  <2>7. AnimOf(r) = AnimOf(p)
    <3>1. CASE p.current = None
      BY <2>3, <3>1 DEF AnimOf
    <3>2. CASE p.current # None
      <4>1. p.current \in Slots /\ p.current # p.previous
        BY <1>0, <3>2 DEF Tidy, Playing, SlotOrNone
      <4>2. a[p.current] = p.attached[p.current]
        BY <2>4, <4>1
      <4> QED
        BY <2>3, <3>2, <4>2 DEF AnimOf
    <3> QED
      BY <3>1, <3>2
  <2> QED
    BY <2>3, <2>6, <2>7 DEF r
<1> QED
  BY <1>2, <1>3

(* There are three slots, and one motion at most is attached when another  *)
(* comes.                                                                  *)
LEMMA FreeSlotIsFree ==
    ASSUME NEW p, NEW s1 \in Slots, p.attached[s1] = None
    PROVE  FreeSlot(p) \in Slots /\ p.attached[FreeSlot(p)] = None
<1>1. \E s \in Slots : p.attached[s] = None /\ \A t \in Slots : t < s => p.attached[t] # None
  <2>1. CASE p.attached[0] = None
    BY <2>1 DEF Slots
  <2>2. CASE p.attached[0] # None /\ p.attached[1] = None
    <3>1. \A t \in Slots : t < 1 => t = 0
      BY DEF Slots
    <3> QED
      BY <2>2, <3>1 DEF Slots
  <2>3. CASE p.attached[0] # None /\ p.attached[1] # None
    <3>1. s1 = 2 /\ \A t \in Slots : t < 2 => t = 0 \/ t = 1
      BY <2>3 DEF Slots
    <3> QED
      BY <2>3, <3>1
  <2> QED
    BY <2>1, <2>2, <2>3
<1> QED
  BY <1>1 DEF FreeSlot

LEMMA SwitchKeeps ==
    ASSUME NEW p, Tidy(p), NEW anim \in Anims, NEW loop \in BOOLEAN
    PROVE  LET r == Switch(p, anim, loop)
           IN  /\ Tidy(r) /\ r.after = AnimOf(p) /\ r.loop = loop
               /\ anim # None => r.current # None
<1> DEFINE bare == DetachPrev(p)
           after == AnimOf(p)
           q == [bare EXCEPT !.after = after, !.loop = loop, !.previous = p.current]
           f == FreeSlot(q)
           r == Switch(p, anim, loop)
<1>1. /\ Tidy(bare) /\ bare.previous = None /\ bare.current = p.current
  BY DetachPrevKeeps
<1>2. p \in Playing /\ p.current \in SlotOrNone
  BY DEF Tidy, Playing
<1>3. after \in Anims
  BY <1>2 DEF AnimOf, Playing, SlotOrNone, Anims
<1>4. r = Attach(q, anim)
  BY DEF Switch
<1> HIDE DEF bare, after
<1>5. bare \in Playing
  BY <1>1 DEF Tidy
<1>6. /\ q \in Playing /\ q.after = after /\ q.loop = loop /\ q.previous = p.current
      /\ q.current = p.current /\ q.attached = bare.attached
  BY <1>1, <1>2, <1>3, <1>5 DEF Playing
<1>7. \A s \in Slots : q.attached[s] # None <=> s = p.current
  BY <1>1, <1>6, SlotFacts DEF Tidy
<1> HIDE DEF q, r
<1>8. CASE anim = None
  <2>1. r = [q EXCEPT !.current = None]
    BY <1>4, <1>8 DEF Attach
  <2>2. /\ r \in Playing /\ r.after = after /\ r.loop = loop /\ r.previous = p.current
        /\ r.current = None /\ r.attached = q.attached
    BY <1>6, <2>1 DEF Playing, SlotOrNone
  <2>3. \A s \in Slots : r.attached[s] # None <=> s = r.current \/ s = r.previous
    BY <1>7, <2>2, SlotFacts
  <2> QED
    BY <1>8, <2>2, <2>3 DEF Tidy, after, r
<1>9. CASE anim # None
  <2>1. PICK s1 \in Slots : s1 # p.current
    BY SlotFacts
  <2>2. f \in Slots /\ q.attached[f] = None
    BY <1>7, <2>1, FreeSlotIsFree
  <2> HIDE DEF f
  <2>3. f # p.current
    BY <1>7, <2>2
  <2> DEFINE a == [q.attached EXCEPT ![f] = anim]
  <2>4. r = [q EXCEPT !.current = f, !.attached = a]
    BY <1>4, <1>6, <1>9 DEF Attach, f, Playing
  <2>5. q.attached \in [Slots -> Anims]
    BY <1>6 DEF Playing
  <2>6. /\ a \in [Slots -> Anims]
        /\ \A s \in Slots : a[s] = IF s = f THEN anim ELSE q.attached[s]
    BY <2>2, <2>5
  <2> HIDE DEF a
  <2>7. /\ r \in Playing /\ r.after = after /\ r.loop = loop /\ r.previous = p.current
        /\ r.current = f /\ r.attached = a
    BY <1>6, <2>2, <2>4, <2>6 DEF Playing, SlotOrNone
  <2>8. \A s \in Slots : r.attached[s] # None <=> s = r.current \/ s = r.previous
    BY <1>7, <1>9, <2>6, <2>7
  <2>9. f # None
    BY <2>2, SlotFacts
  <2> QED
    BY <2>3, <2>7, <2>8, <2>9 DEF Tidy, after, r
<1> QED
  BY <1>8, <1>9

LEMMA StopKeeps ==
    ASSUME NEW p, Tidy(p), p.current # None
    PROVE  Tidy(Stop(p)) /\ Stop(p).after = p.after
<1> DEFINE a == [p.attached EXCEPT ![p.current] = None]
           r == Stop(p)
<1>1. p \in Playing /\ p.current \in Slots /\ p.attached \in [Slots -> Anims]
  BY DEF Tidy, Playing, SlotOrNone
<1>2. r = [p EXCEPT !.attached = a, !.current = None]
  BY <1>1 DEF Stop, Detach, Playing
<1>3. /\ a \in [Slots -> Anims]
      /\ \A s \in Slots : a[s] = IF s = p.current THEN None ELSE p.attached[s]
  BY <1>1 DEF Anims
<1> HIDE DEF a, r
<1>4. /\ r \in Playing /\ r.previous = p.previous /\ r.attached = a /\ r.current = None
      /\ r.after = p.after
  BY <1>1, <1>2, <1>3 DEF Playing, SlotOrNone
<1>5. \A s \in Slots : r.attached[s] # None <=> s = r.current \/ s = r.previous
  BY <1>3, <1>4, SlotFacts DEF Tidy
<1> QED
  BY <1>4, <1>5 DEF Tidy, r

(* An animation that is over gives way to the one before it, and that one  *)
(* is looped.                                                              *)
LEMMA NextMotionKeeps ==
    ASSUME NEW p, Tidy(p), NEW ended \in BOOLEAN, NEW blended \in BOOLEAN
    PROVE  /\ Tidy(NextMotion(p, ended, blended))
           /\ GoesOnPlaying(p) => GoesOnPlaying(NextMotion(p, ended, blended))
<1> DEFINE q == IF ended /\ ~p.loop THEN Play(Stop(p), p.after) ELSE p
           r == NextMotion(p, ended, blended)
<1>1. CASE p.current = None
  BY <1>1 DEF NextMotion
<1>2. CASE p.current # None
  <2>1. r = IF blended THEN DetachPrev(q) ELSE q
    BY <1>2 DEF NextMotion
  <2>2. Tidy(q) /\ (GoesOnPlaying(p) => GoesOnPlaying(q))
    <3>1. CASE ended /\ ~p.loop
      <4> DEFINE t == TRUE
      <4>1. Tidy(Stop(p))
        BY <1>2, StopKeeps
      <4>2. p.after \in Anims /\ t \in BOOLEAN
        BY DEF Tidy, Playing
      <4>3. q = Switch(Stop(p), p.after, t)
        BY <3>1 DEF Play
      <4> HIDE DEF q, t
      <4>4. Tidy(q) /\ q.loop = t /\ (p.after # None => q.current # None)
        BY <4>1, <4>2, <4>3, SwitchKeeps
      <4>5. q.loop
        BY <4>4 DEF t
      <4> QED
        BY <3>1, <4>4, <4>5 DEF GoesOnPlaying
    <3>2. CASE ~(ended /\ ~p.loop)
      <4>1. q = p
        BY <3>2
      <4> QED
        BY <4>1
    <3> QED
      BY <3>1, <3>2
  <2> HIDE DEF q
  <2>3. CASE blended
    <3>1. r = DetachPrev(q)
      BY <2>1, <2>3
    <3> HIDE DEF r
    <3>2. Tidy(r) /\ r.current = q.current /\ r.after = q.after /\ r.loop = q.loop
      BY <2>2, <3>1, DetachPrevKeeps
    <3> QED
      BY <2>2, <3>2 DEF GoesOnPlaying, r
  <2>4. CASE ~blended
    BY <2>1, <2>2, <2>4
  <2> QED
    BY <2>3, <2>4
<1> QED
  BY <1>1, <1>2

(* The player with its model.                                              *)
OnModel == [attached |-> attached, current |-> player.current, previous |-> player.previous,
            after |-> player.after, loop |-> player.loop]
BareModel == [attached |-> [s \in Slots |-> None], current |-> None, previous |-> None,
              after |-> None, loop |-> TRUE]
Chains == [flag : BOOLEAN, anim : Anims, loop : BOOLEAN]

(* A model that has come plays something after its second frame: if the    *)
(* first has not begun a motion, the motion is not the one the second is   *)
(* going to begin.                                                         *)
MotionsInv ==
    /\ basic \in BasicMotions /\ motion \in Nat /\ dummy \in 0..2 /\ chain \in Chains
    /\ walks \in BOOLEAN /\ excused \in BOOLEAN
    /\ Tidy(OnModel)
    /\ dummy = 0 /\ ~excused => GoesOnPlaying(OnModel)
    /\ dummy = 1 /\ ~excused => GoesOnPlaying(OnModel) \/ motion # basic.stand

LEMMA BareModelIsTidy == Tidy(BareModel)
<1> DEFINE yes == TRUE
           a == [s \in Slots |-> None]
           p == [attached |-> a, current |-> None, previous |-> None, after |-> None,
                 loop |-> yes]
<1>1. yes \in BOOLEAN /\ None \in Anims /\ None \in SlotOrNone
  BY DEF Anims, SlotOrNone
<1>2. a \in [Slots -> Anims] /\ \A s \in Slots : a[s] = None
  BY <1>1
<1>3. BareModel = p
  BY DEF BareModel
<1> HIDE DEF yes, a
<1>4. p \in Playing /\ p.attached = a /\ p.current = None /\ p.previous = None
  BY <1>1, <1>2 DEF Playing
<1> HIDE DEF p
<1> QED
  BY <1>2, <1>3, <1>4, SlotFacts DEF Tidy

(* A motion that is not the former one is begun, a key's is begun, or      *)
(* nothing is.                                                             *)
LEMMA PlayedKeeps ==
    ASSUME NEW p, Tidy(p), NEW now \in Nat, NEW before \in Nat, NEW c \in Chains, NEW r,
           r = IF now # before THEN Play(p, now) ELSE IF c.flag THEN ChainPlay(p, c) ELSE p
    PROVE  /\ Tidy(r)
           /\ now # before => GoesOnPlaying(r)
           /\ GoesOnPlaying(p) /\ ~(c.flag /\ c.anim = None) => GoesOnPlaying(r)
<1>1. CASE now # before
  <2> DEFINE yes == TRUE
  <2>1. now \in Anims /\ now # None /\ yes \in BOOLEAN
    BY SlotFacts DEF Anims
  <2>2. r = Switch(p, now, yes)
    BY <1>1 DEF Play
  <2> HIDE DEF yes
  <2>3. Tidy(r) /\ r.loop = yes /\ r.current # None
    BY <2>1, <2>2, SwitchKeeps
  <2>4. r.loop
    BY <2>3 DEF yes
  <2> QED
    BY <2>3, <2>4 DEF GoesOnPlaying
<1>2. CASE now = before /\ c.flag
  <2>1. r = Switch(p, c.anim, c.loop) /\ c.anim \in Anims /\ c.loop \in BOOLEAN
    BY <1>2 DEF ChainPlay, Chains
  <2>2. Tidy(r) /\ r.after = AnimOf(p) /\ (c.anim # None => r.current # None)
    BY <2>1, SwitchKeeps
  <2>3. GoesOnPlaying(p) => AnimOf(p) # None
    <3>1. p.current # None => p.current \in Slots
      BY DEF Tidy, Playing, SlotOrNone
    <3> QED
      BY <3>1 DEF GoesOnPlaying, AnimOf, Tidy
  <2> QED
    BY <1>2, <2>2, <2>3 DEF GoesOnPlaying
<1>3. CASE now = before /\ ~c.flag
  BY <1>3
<1> QED
  BY <1>1, <1>2, <1>3

(* Without SetModel the motions stay those of the model there is.          *)
MayHave(model, b) == b \in BasicMotions /\ (~model => b = basic)

LEMMA MotionsFrameKeeps ==
    ASSUME MotionsInv, NEW model \in BOOLEAN, NEW b, MayHave(model, b),
           NEW key \in Int, NEW pad \in Int, NEW walking \in BOOLEAN, NEW air \in BOOLEAN,
           NEW c \in Chains, NEW ended \in BOOLEAN, NEW blended \in BOOLEAN,
           MotionsFrame(model, b, key, pad, walking, air, c, ended, blended)
    PROVE  MotionsInv'
<1> DEFINE count == IF model THEN 2 ELSE dummy
           before == IF model THEN 0 ELSE motion
           now == MotionOf(b, before, walking, Direction(count, key, pad), air)
           p == IF model THEN BareModel ELSE OnModel
           played == IF now # before THEN Play(p, now)
                     ELSE IF c.flag THEN ChainPlay(p, c) ELSE p
           q == NextMotion(played, ended, blended)
           out == now = before /\ \/ excused /\ ~model
                                  \/ count > 0 /\ (air \/ pad # 0)
                                  \/ c.flag /\ c.anim = None
<1>0. b \in BasicMotions /\ (~model => b = basic)
  BY DEF MayHave
<1>1. /\ basic' = b /\ motion' = now /\ walks' = walking
      /\ dummy' = (IF count > 0 THEN count - 1 ELSE 0)
      /\ chain' = (IF now = before THEN NoChain ELSE c)
      /\ player' = [current |-> q.current, previous |-> q.previous, after |-> q.after,
                    loop |-> q.loop]
      /\ attached' = q.attached
  BY DEF MotionsFrame, OnModel, BareModel
<1>2. excused' = out
  BY DEF MotionsFrame
<1>3. /\ b.stand \in Nat /\ b.walk \in Nat /\ b.run \in Nat
      /\ b.stand # b.walk /\ b.stand # b.run
  BY <1>0, MotionsAssumption
<1>4. count \in 0..2 /\ before \in Nat /\ now \in Nat
  <2>1. count \in 0..2 /\ before \in Nat
    BY DEF MotionsInv
  <2> HIDE DEF count, before
  <2> QED
    BY <1>3, <2>1 DEF MotionOf
<1>5. Tidy(p)
  BY BareModelIsTidy DEF MotionsInv
<1>6. /\ Tidy(played)
      /\ now # before => GoesOnPlaying(played)
      /\ GoesOnPlaying(p) /\ ~(c.flag /\ c.anim = None) => GoesOnPlaying(played)
  <2> HIDE DEF p, now, before
  <2> QED
    BY <1>4, <1>5, PlayedKeeps
<1>7. Tidy(q) /\ (GoesOnPlaying(played) => GoesOnPlaying(q))
  <2> HIDE DEF played
  <2> QED
    BY <1>6, NextMotionKeeps
<1>8. OnModel' = q
  <2> HIDE DEF q, now, before, count
  <2>1. q \in Playing
    BY <1>7 DEF Tidy
  <2>2. q = [attached |-> q.attached, current |-> q.current, previous |-> q.previous,
             after |-> q.after, loop |-> q.loop]
    BY <2>1 DEF Playing
  <2>3. /\ attached' = q.attached /\ player'.current = q.current
        /\ player'.previous = q.previous /\ player'.after = q.after /\ player'.loop = q.loop
    BY <1>1
  <2>4. OnModel' = [attached |-> attached', current |-> player'.current,
                    previous |-> player'.previous, after |-> player'.after,
                    loop |-> player'.loop]
    BY DEF OnModel
  <2> QED
    BY <2>2, <2>3, <2>4
<1>9. chain' \in Chains /\ excused' \in BOOLEAN /\ dummy' \in 0..2
  <2>1. NoChain \in Chains
    BY DEF NoChain, Chains, Anims
  <2> HIDE DEF now, before, count
  <2>2. chain' \in Chains
    BY <1>1, <2>1
  <2>3. dummy' \in 0..2
    BY <1>1, <1>4
  <2>4. out \in BOOLEAN
    OBVIOUS
  <2> HIDE DEF out
  <2>5. excused' \in BOOLEAN
    BY <1>2, <2>4
  <2> QED
    BY <2>2, <2>3, <2>5
(* Who has begun nothing in this frame, and has no excuse, played before,  *)
(* or is in the first of the two frames and moves.                         *)
<1>10. GoesOnPlaying(q) \/ out \/ (now = before /\ count # 0 /\ ~air /\ pad = 0
                                     /\ (~model => ~excused))
                        \/ (now = before /\ count = 0 /\ ~excused /\ ~model)
  <2>0. count \in Nat
    BY <1>4
  <2> HIDE DEF now, before, q, played, count
  <2>1. now # before => GoesOnPlaying(q)
    BY <1>6, <1>7
  <2>2. count # 0 => count > 0
    BY <2>0
  <2>3. count = 0 => ~model
    BY DEF count
  <2> QED
    BY <2>1, <2>2, <2>3
<1>11. dummy' = 0 /\ ~out => GoesOnPlaying(q)
  <2> SUFFICES ASSUME dummy' = 0, ~out, ~GoesOnPlaying(q) PROVE FALSE
    OBVIOUS
  <2>1. count \in {0, 1} /\ ~model
    <3>1. count \in {0, 1}
      <4> HIDE DEF count
      <4> QED
        BY <1>1, <1>4
    <3>2. model => count = 2
      OBVIOUS
    <3> QED
      BY <3>1, <3>2
  <2>2. p = OnModel /\ count = dummy /\ before = motion /\ b = basic
    BY <1>0, <2>1
  <2>3. ~(c.flag /\ c.anim = None) \/ now # before
    OBVIOUS
  <2>4. now = before /\ ~(c.flag /\ c.anim = None) /\ ~GoesOnPlaying(p)
    <3> HIDE DEF now, before, p, q, played, out
    <3> QED
      BY <1>6, <1>7, <2>3
  <2>5. ~excused
    <3> HIDE DEF now, before, p, q, played, count
    <3> QED
      BY <2>1, <2>4
  <2>6. dummy # 0
    BY <2>2, <2>4, <2>5 DEF MotionsInv
  <2>7. count = 1
    <3> HIDE DEF count
    <3> QED
      BY <2>1, <2>2, <2>6
  <2>8. ~air /\ pad = 0
    <3>1. count > 0
      <4> HIDE DEF count
      <4> QED
        BY <2>7
    <3> HIDE DEF count, now, before
    <3> QED
      BY <2>4, <3>1
  <2>9. Direction(count, key, pad) = 0
    <3> HIDE DEF count
    <3> QED
      BY <2>7, <2>8 DEF Direction
  <2>10. now = b.stand
    <3> HIDE DEF count
    <3> QED
      BY <2>8, <2>9 DEF MotionOf
  <2>11. motion # basic.stand
    <3> HIDE DEF count, p
    <3> QED
      BY <2>2, <2>4, <2>5, <2>7 DEF MotionsInv
  <2> HIDE DEF now, before
  <2> QED
    BY <2>2, <2>4, <2>10, <2>11
<1>12. dummy' = 1 /\ ~out => GoesOnPlaying(q) \/ now # b.stand
  <2> SUFFICES ASSUME dummy' = 1, ~out, ~GoesOnPlaying(q) PROVE now # b.stand
    OBVIOUS
  <2>1. count = 2
    <3> HIDE DEF count
    <3> QED
      BY <1>1, <1>4
  <2>2. now = before
    <3> HIDE DEF now, before, p, q, played, out
    <3> QED
      BY <1>6, <1>7
  <2>3. ~air /\ pad = 0
    <3>1. count > 0
      <4> HIDE DEF count
      <4> QED
        BY <2>1
    <3> HIDE DEF count, now, before
    <3> QED
      BY <2>2, <3>1
  <2>4. Direction(count, key, pad) = 1
    <3> HIDE DEF count
    <3> QED
      BY <2>1, <2>3 DEF Direction
  <2>5. now = b.walk \/ now = b.run
    <3> HIDE DEF count
    <3> QED
      BY <2>3, <2>4 DEF MotionOf
  <2> HIDE DEF now
  <2> QED
    BY <1>3, <2>5
<1> HIDE DEF q, now, before, count, out
<1>13. /\ basic' \in BasicMotions /\ motion' \in Nat /\ walks' \in BOOLEAN
  BY <1>0, <1>1, <1>4
<1>14. Tidy(OnModel)'
  BY <1>7, <1>8 DEF Tidy
<1>15. /\ dummy' = 0 /\ ~excused' => GoesOnPlaying(OnModel)'
       /\ dummy' = 1 /\ ~excused' => GoesOnPlaying(OnModel)' \/ motion' # basic'.stand
  <2>1. GoesOnPlaying(OnModel)' <=> GoesOnPlaying(q)
    BY <1>8 DEF GoesOnPlaying
  <2> QED
    BY <1>1, <1>2, <1>11, <1>12, <2>1
<1> QED
  BY <1>9, <1>13, <1>14, <1>15 DEF MotionsInv

LEMMA MotionsInitially == MotionsInit => MotionsInv
<1> SUFFICES ASSUME MotionsInit PROVE MotionsInv
  OBVIOUS
<1>1. OnModel = BareModel
  BY DEF MotionsInit, OnModel, BareModel, NewPlayer
<1>2. chain \in Chains
  <2> DEFINE no == FALSE
  <2>1. chain = [flag |-> no, anim |-> None, loop |-> no] /\ no \in BOOLEAN /\ None \in Anims
    BY DEF MotionsInit, NoChain, Anims
  <2> HIDE DEF no
  <2> QED
    BY <2>1 DEF Chains
<1>3. basic \in BasicMotions /\ motion \in Nat /\ dummy \in 0..2 /\ dummy = 2
  BY DEF MotionsInit
<1>4. walks \in BOOLEAN /\ excused \in BOOLEAN
  BY DEF MotionsInit
<1>5. Tidy(OnModel)
  BY <1>1, BareModelIsTidy
<1>6. dummy # 0 /\ dummy # 1
  BY <1>3
<1> QED
  BY <1>2, <1>3, <1>4, <1>5, <1>6 DEF MotionsInv

LEMMA MotionsStep == MotionsInv /\ [MotionsNext]_motionsVars => MotionsInv'
<1> SUFFICES ASSUME MotionsInv, [MotionsNext]_motionsVars PROVE MotionsInv'
  OBVIOUS
<1>0. basic \in BasicMotions /\ chain \in Chains /\ walks \in BOOLEAN
  BY DEF MotionsInv
<1> DEFINE no == FALSE
           yes == TRUE
<1>a. no \in BOOLEAN /\ yes \in BOOLEAN /\ 0 \in Int
  OBVIOUS
<1>b. MayHave(no, basic) /\ \A b \in BasicMotions : MayHave(yes, b)
  BY <1>0 DEF MayHave
<1>1. ASSUME NEW key \in {-1, 0, 1}, NEW pad \in {-1, 0, 1}, NEW walking \in BOOLEAN,
             NEW air \in BOOLEAN,
             MotionsFrame(no, basic, key, pad, walking, air, chain, no, no)
      PROVE  MotionsInv'
  <2>1. key \in Int /\ pad \in Int
    OBVIOUS
  <2> HIDE DEF no
  <2> QED
    BY <1>0, <1>a, <1>b, <1>1, <2>1, MotionsFrameKeeps
<1>2. ASSUME NEW e \in Emotes, NEW air \in BOOLEAN,
             MotionsFrame(no, basic, 0, 0, walks, air, Flagged(e), no, no)
      PROVE  MotionsInv'
  <2> DEFINE c == Flagged(e)
  <2>1. c \in Chains
    <3>1. c = [flag |-> yes, anim |-> e.anim, loop |-> e.loop]
      BY DEF Flagged
    <3>2. e.anim \in Anims /\ e.loop \in BOOLEAN
      BY MotionsAssumption DEF Anims
    <3> HIDE DEF c, yes
    <3> QED
      BY <1>a, <3>1, <3>2 DEF Chains
  <2>2. MotionsFrame(no, basic, 0, 0, walks, air, c, no, no)
    BY <1>2
  <2> HIDE DEF no, c
  <2> QED
    BY <1>0, <1>a, <1>b, <2>1, <2>2, MotionsFrameKeeps
<1>3. ASSUME NEW ended \in BOOLEAN, NEW blended \in BOOLEAN, NEW air \in BOOLEAN,
             MotionsFrame(no, basic, 0, 0, walks, air, chain, ended, blended)
      PROVE  MotionsInv'
  <2> HIDE DEF no
  <2> QED
    BY <1>0, <1>a, <1>b, <1>3, MotionsFrameKeeps
<1>4. ASSUME NEW b \in BasicMotions, NEW pad \in {-1, 0, 1}, NEW air \in BOOLEAN,
             MotionsFrame(yes, b, 0, pad, walks, air, chain, no, no)
      PROVE  MotionsInv'
  <2> DEFINE zero == 0
  <2>0. MayHave(yes, b)
    <3> HIDE DEF yes
    <3> QED
      BY <1>b
  <2>1. pad \in Int /\ zero \in Int
    OBVIOUS
  <2>2. MotionsFrame(yes, b, zero, pad, walks, air, chain, no, no)
    BY <1>4
  <2> HIDE DEF no, yes, zero
  <2> QED
    BY <1>0, <1>a, <1>b, <2>0, <2>1, <2>2, MotionsFrameKeeps
<1>5. ASSUME UNCHANGED motionsVars PROVE MotionsInv'
  <2>1. OnModel' = OnModel
    BY <1>5 DEF motionsVars, OnModel
  <2> QED
    BY <1>5, <2>1 DEF motionsVars, MotionsInv, Tidy, GoesOnPlaying
<1> QED
  BY <1>1, <1>2, <1>3, <1>4, <1>5 DEF MotionsNext

MotionsSpec == MotionsInit /\ [][MotionsNext]_motionsVars

(* However a model numbers its motions and whatever keys are held: on the  *)
(* model is what the player plays or blends out and nothing else, and from *)
(* the second frame after a model has come something is playing            *)
(* (3d/MotionPlayer.cpp:85-136, 3d/FieldPlayer.cpp:240, 525-530).          *)
THEOREM MotionsAreKept == MotionsSpec => []MotionsKept
<1>1. MotionsSpec => []MotionsInv
  BY MotionsInitially, MotionsStep, PTL DEF MotionsSpec
<1>2. ASSUME MotionsInv PROVE MotionsKept
  <2>1. /\ \A s \in Slots : attached[s] # None <=> s = player.current \/ s = player.previous
        /\ player.current # None => player.current # player.previous
        /\ player.current \in SlotOrNone /\ player.previous \in SlotOrNone
    BY <1>2 DEF MotionsInv, Tidy, OnModel, Playing
  <2>2. {s \in Slots : attached[s] # None} = {player.current, player.previous} \ {None}
    BY <2>1, SlotFacts DEF SlotOrNone
  <2>3. SomethingPlays
    BY <1>2 DEF MotionsInv, SomethingPlays, GoesOnPlaying, OnModel
  <2> QED
    BY <2>1, <2>2, <2>3 DEF MotionsKept, NothingLeftAttached
<1>3. MotionsInv => MotionsKept
  BY <1>2
<1> QED
  BY <1>1, <1>3, PTL
-----------------------------------------------------------------------------
(* What the users say and where they are, for any number of users and      *)
(* channels, however long the queues get and whatever arrives when.        *)

Lines == Seq(Users \cup {Nobody})
UpPositions == [kind : {"position"}, number : Nat]
UpWords == [kind : {"json"}, private : Lines, number : Nat, spoken : Rooms]
UpChannels == [kind : {"channel"}, channel : Rooms]
Ups == UpPositions \cup UpWords \cup UpChannels
DownPositions == [kind : {"position"}, from : Users, number : Nat]
DownWords == [kind : {"json"}, from : Users, number : Nat, private : Lines, spoken : Rooms,
              in : Rooms]
DownNotes == [kind : {"notify"}, from : Users]
Downs == DownPositions \cup DownWords \cup DownNotes

RelayTyped ==
    /\ sessions \in SetToSeqs(Users) /\ named \subseteq Users
    /\ room \in [Users -> Rooms]
    /\ scene \in [Users -> [in : Rooms, to : Rooms \cup {Staying}]]
    /\ sent \in [Users -> [walks : Nat, words : Nat, moves : Nat]]
    /\ shown \in [Users -> [Users -> Nat]]
    /\ up \in [Users -> Seq(Ups)]
    /\ queue \in [Users -> Seq(Downs)]
    /\ heard \in [Users -> Seq(DownWords)]

(* The channels a user goes through while the server handles what he sent: *)
(* from the one it has him in to the one he is in himself; each of his     *)
(* words was typed in the one it is handled in.                            *)
Path(f, s, from, to) ==
    /\ f[0] = from /\ f[Len(s)] = to
    /\ \A i \in 1..Len(s) :
           /\ f[i] = IF s[i].kind = "channel" THEN s[i].channel ELSE f[i - 1]
           /\ s[i].kind = "json" => s[i].spoken = f[i - 1]
Leads(s, from, to) == \E f \in [0..Len(s) -> Rooms] : Path(f, s, from, to)
OnTheWay == \A u \in Users : Leads(up[u], room[u], scene[u].in)

(* Who never changed his channel is in the first one, for the server too.  *)
StaysHome ==
    \A u \in Users : sent[u].moves = 0 =>
        /\ room[u] = 0 /\ scene[u].to = Staying
        /\ \A i \in 1..Len(up[u]) : up[u][i].kind # "channel"

(* What may reach a user.                                                  *)
For(u, c) ==
    /\ c.private = <<>> => c.in = c.spoken /\ (sent[u].moves = 0 => c.in = 0)
    /\ c.private # <<>> => u \in ToSet(c.private) \/ Nobody \in ToSet(c.private)
Addressed ==
    \A u \in Users : /\ \A i \in 1..Len(heard[u]) : For(u, heard[u][i])
                     /\ \A i \in 1..Len(queue[u]) : IsJson(queue[u][i]) => For(u, queue[u][i])

(* Positions grow along the way: the one shown, those in the queue of the  *)
(* one who sees them, those on the way to the server, the last one sent.   *)
From(c, v) == c.kind = "position" /\ c.from = v
Position(c) == c.kind = "position"
Ordered(low, q, s, high, v) ==
    /\ low <= high
    /\ \A i \in 1..Len(q) : From(q[i], v) => low <= q[i].number /\ q[i].number <= high
    /\ \A i, k \in 1..Len(q) : i <= k /\ From(q[i], v) /\ From(q[k], v) =>
           q[i].number <= q[k].number
    /\ \A i \in 1..Len(q), j \in 1..Len(s) : From(q[i], v) /\ Position(s[j]) =>
           q[i].number <= s[j].number
    /\ \A j \in 1..Len(s) : Position(s[j]) => low <= s[j].number /\ s[j].number <= high
    /\ \A j, k \in 1..Len(s) : j <= k /\ Position(s[j]) /\ Position(s[k]) =>
           s[j].number <= s[k].number
PositionsGrow ==
    \A u, v \in Users : Ordered(shown[u][v], queue[u], up[v], sent[v].walks, v)

RelayInv == RelayTyped /\ OnTheWay /\ StaysHome /\ Addressed /\ PositionsGrow

LEMMA UpKinds ==
    ASSUME NEW c \in Ups
    PROVE  /\ c.kind \in {"position", "json", "channel"}
           /\ c.kind = "position" => c \in UpPositions /\ c.number \in Nat
           /\ c.kind = "json" => c \in UpWords
           /\ c.kind = "channel" => c \in UpChannels /\ c.channel \in Rooms
  BY DEF Ups, UpPositions, UpWords, UpChannels

LEMMA DownKinds ==
    ASSUME NEW c \in Downs
    PROVE  /\ c.kind = "position" => c.number \in Nat /\ c.from \in Users
           /\ c.kind = "json" => c \in DownWords
           /\ c \in DownWords => c.kind = "json"
  BY DEF Downs, DownPositions, DownWords, DownNotes

LEMMA Appended ==
    ASSUME NEW S, NEW s \in Seq(S), NEW c \in S
    PROVE  /\ Append(s, c) \in Seq(S) /\ Len(Append(s, c)) = Len(s) + 1
           /\ \A i \in 1..Len(s) : Append(s, c)[i] = s[i]
           /\ Append(s, c)[Len(s) + 1] = c
           /\ Len(s) \in Nat
  OBVIOUS

LEMMA Tailed ==
    ASSUME NEW S, NEW s \in Seq(S), s # <<>>
    PROVE  /\ Tail(s) \in Seq(S) /\ Len(Tail(s)) = Len(s) - 1
           /\ \A i \in 1..(Len(s) - 1) : Tail(s)[i] = s[i + 1]
           /\ Head(s) = s[1] /\ Head(s) \in S /\ Len(s) \in Nat \ {0} /\ 1 \in 1..Len(s)
  OBVIOUS

(* The path of a user gets longer when he sends, and shorter when the      *)
(* server handles what he sent.                                            *)
LEMMA PathAppends ==
    ASSUME NEW s \in Seq(Ups), NEW c \in Ups, NEW from \in Rooms, NEW to \in Rooms,
           Leads(s, from, to), c.kind = "json" => c.spoken = to
    PROVE  Leads(Append(s, c), from, IF c.kind = "channel" THEN c.channel ELSE to)
<1> DEFINE n == Len(s)
           t == Append(s, c)
           last == IF c.kind = "channel" THEN c.channel ELSE to
<1>1. PICK f \in [0..n -> Rooms] : Path(f, s, from, to)
  BY DEF Leads
<1>2. /\ Len(t) = n + 1 /\ n \in Nat /\ t[n + 1] = c
      /\ \A i \in 1..n : t[i] = s[i]
  BY Appended
<1>3. last \in Rooms
  BY UpKinds
<1> DEFINE g == [i \in 0..(n + 1) |-> IF i = n + 1 THEN last ELSE f[i]]
<1> HIDE DEF n, t, last
<1>4. g \in [0..(n + 1) -> Rooms]
  BY <1>2, <1>3
<1>5. g[n + 1] = last /\ \A i \in 0..n : g[i] = f[i]
  BY <1>2
<1> HIDE DEF g
<1>6. /\ f[0] = from /\ f[n] = to
      /\ \A i \in 1..n : /\ f[i] = IF s[i].kind = "channel" THEN s[i].channel ELSE f[i - 1]
                         /\ s[i].kind = "json" => s[i].spoken = f[i - 1]
  BY <1>1 DEF Path, n
<1>7. g[0] = from /\ g[n] = to
  BY <1>2, <1>5, <1>6
<1>8. ASSUME NEW i \in 1..(n + 1)
      PROVE  /\ g[i] = IF t[i].kind = "channel" THEN t[i].channel ELSE g[i - 1]
             /\ t[i].kind = "json" => t[i].spoken = g[i - 1]
  <2>1. CASE i = n + 1
    <3>1. i - 1 = n
      BY <1>2, <2>1
    <3> QED
      BY <1>2, <1>5, <1>7, <2>1, <3>1 DEF last
  <2>2. CASE i \in 1..n
    <3>1. i - 1 \in 0..n /\ i \in 0..n
      BY <1>2, <2>2
    <3> QED
      BY <1>2, <1>5, <1>6, <2>2, <3>1
  <2> QED
    BY <1>2, <2>1, <2>2
<1>9. Path(g, t, from, last)
  BY <1>2, <1>5, <1>7, <1>8 DEF Path
<1>10. Leads(t, from, last)
  BY <1>2, <1>4, <1>9 DEF Leads
<1> QED
  BY <1>10 DEF t, last

LEMMA PathShortens ==
    ASSUME NEW s \in Seq(Ups), s # <<>>, NEW from \in Rooms, NEW to \in Rooms,
           Leads(s, from, to)
    PROVE  /\ Leads(Tail(s), IF Head(s).kind = "channel" THEN Head(s).channel ELSE from, to)
           /\ Head(s).kind = "json" => Head(s).spoken = from
<1> DEFINE n == Len(s)
           t == Tail(s)
           c == Head(s)
           first == IF c.kind = "channel" THEN c.channel ELSE from
<1>1. PICK f \in [0..n -> Rooms] : Path(f, s, from, to)
  BY DEF Leads
<1>2. /\ Len(t) = n - 1 /\ n \in Nat \ {0} /\ c = s[1]
      /\ \A i \in 1..(n - 1) : t[i] = s[i + 1]
  BY Tailed
<1>3. /\ f[0] = from /\ f[n] = to
      /\ \A i \in 1..n : /\ f[i] = IF s[i].kind = "channel" THEN s[i].channel ELSE f[i - 1]
                         /\ s[i].kind = "json" => s[i].spoken = f[i - 1]
  BY <1>1 DEF Path
<1> DEFINE g == [i \in 0..(n - 1) |-> f[i + 1]]
<1> HIDE DEF n, t, c, first
<1>4. g \in [0..(n - 1) -> Rooms] /\ \A i \in 0..(n - 1) : g[i] = f[i + 1]
  BY <1>2
<1> HIDE DEF g
<1>5. f[1] = first /\ (c.kind = "json" => c.spoken = from)
  <2>1. 1 \in 1..n /\ 1 - 1 = 0
    BY <1>2
  <2> QED
    BY <1>2, <1>3, <2>1 DEF first
<1>6. g[0] = first /\ g[n - 1] = to
  <2>1. 0 \in 0..(n - 1) /\ n - 1 \in 0..(n - 1) /\ (n - 1) + 1 = n /\ 0 + 1 = 1
    BY <1>2
  <2>2. g[0] = f[0 + 1] /\ g[n - 1] = f[(n - 1) + 1]
    BY <1>4, <2>1
  <2> QED
    BY <1>3, <1>5, <2>1, <2>2
<1>7. ASSUME NEW i \in 1..(n - 1)
      PROVE  /\ g[i] = IF t[i].kind = "channel" THEN t[i].channel ELSE g[i - 1]
             /\ t[i].kind = "json" => t[i].spoken = g[i - 1]
  <2>1. /\ i + 1 \in 1..n /\ i \in 0..(n - 1) /\ i - 1 \in 0..(n - 1) /\ (i - 1) + 1 = i
        /\ (i + 1) - 1 = i
    BY <1>2
  <2>2. g[i] = f[i + 1] /\ g[i - 1] = f[i] /\ t[i] = s[i + 1]
    BY <1>2, <1>4, <2>1
  <2>3. /\ f[i + 1] = IF s[i + 1].kind = "channel" THEN s[i + 1].channel ELSE f[i]
        /\ s[i + 1].kind = "json" => s[i + 1].spoken = f[i]
    BY <1>3, <2>1
  <2> QED
    BY <2>2, <2>3
<1>8. Path(g, t, first, to)
  BY <1>2, <1>6, <1>7 DEF Path
<1>9. Leads(t, first, to)
  BY <1>2, <1>4, <1>8 DEF Leads
<1> QED
  BY <1>5, <1>9 DEF t, first, c

(* The same for the order of the positions.                                *)
LEMMA OrderedSends ==
    ASSUME NEW s \in Seq(Ups), NEW q \in Seq(Downs), NEW low \in Nat, NEW high \in Nat, NEW v,
           Ordered(low, q, s, high, v), NEW c \in Ups, NEW high2 \in Nat, high <= high2,
           Position(c) => c.number = high2
    PROVE  Ordered(low, q, Append(s, c), high2, v)
<1> DEFINE t == Append(s, c)
           n == Len(s)
<1>1. /\ Len(t) = n + 1 /\ n \in Nat /\ t[n + 1] = c /\ \A i \in 1..n : t[i] = s[i]
  BY Appended
<1>2. /\ \A i \in 1..Len(q) : From(q[i], v) => q[i].number \in Nat
      /\ \A i \in 1..n : Position(s[i]) => s[i].number \in Nat
  BY UpKinds, DownKinds DEF From, Position
<1> HIDE DEF t, n
<1>3. \A j \in 1..(n + 1) : j = n + 1 \/ j \in 1..n
  BY <1>1
<1>4. \A j \in 1..(n + 1) : \/ j \in 1..n /\ t[j] = s[j]
                            \/ j = n + 1 /\ t[j] = c
  BY <1>1, <1>3
<1>5. /\ low <= high
      /\ \A i \in 1..Len(q) : From(q[i], v) => low <= q[i].number /\ q[i].number <= high
      /\ \A i, k \in 1..Len(q) : i <= k /\ From(q[i], v) /\ From(q[k], v) =>
             q[i].number <= q[k].number
      /\ \A i \in 1..Len(q), j \in 1..n : From(q[i], v) /\ Position(s[j]) =>
             q[i].number <= s[j].number
      /\ \A j \in 1..n : Position(s[j]) => low <= s[j].number /\ s[j].number <= high
      /\ \A j, k \in 1..n : j <= k /\ Position(s[j]) /\ Position(s[k]) =>
             s[j].number <= s[k].number
  BY DEF Ordered, n
<1>6. ASSUME NEW i \in 1..Len(q), NEW j \in 1..(n + 1), From(q[i], v), Position(t[j])
      PROVE  q[i].number <= t[j].number
  <2>1. CASE j \in 1..n /\ t[j] = s[j]
    BY <1>5, <1>6, <2>1
  <2>2. CASE t[j] = c
    <3>1. t[j].number = high2 /\ q[i].number <= high /\ q[i].number \in Nat
      BY <1>2, <1>5, <1>6, <2>2
    <3> QED
      BY <3>1
  <2> QED
    BY <1>4, <2>1, <2>2
<1>7. \A j \in 1..(n + 1) : Position(t[j]) => low <= t[j].number /\ t[j].number <= high2
  BY <1>2, <1>4, <1>5
<1>8. ASSUME NEW j \in 1..(n + 1), NEW k \in 1..(n + 1), j <= k, Position(t[j]), Position(t[k])
      PROVE  t[j].number <= t[k].number
  <2>1. CASE k = n + 1
    <3>1. t[k].number = high2
      BY <1>1, <1>8, <2>1
    <3> QED
      BY <1>7, <1>8, <3>1
  <2>2. CASE k # n + 1
    <3>1. j \in 1..n /\ k \in 1..n
      BY <1>1, <1>8, <2>2
    <3> QED
      BY <1>1, <1>5, <1>8, <3>1
  <2> QED
    BY <2>1, <2>2
<1>9. \A i \in 1..Len(q) : From(q[i], v) => low <= q[i].number /\ q[i].number <= high2
  BY <1>2, <1>5
<1>10. low <= high2
  BY <1>5
<1> QED
  BY <1>1, <1>5, <1>6, <1>7, <1>8, <1>9, <1>10 DEF Ordered, t

LEMMA OrderedHigher ==
    ASSUME NEW s \in Seq(Ups), NEW q \in Seq(Downs), NEW low \in Nat, NEW high \in Nat, NEW v,
           Ordered(low, q, s, high, v), NEW high2 \in Nat, high <= high2
    PROVE  Ordered(low, q, s, high2, v)
<1>1. /\ \A i \in 1..Len(q) : From(q[i], v) => q[i].number \in Nat
      /\ \A i \in 1..Len(s) : Position(s[i]) => s[i].number \in Nat
  BY UpKinds, DownKinds DEF From, Position
<1>2. low <= high2
  BY DEF Ordered
<1>3. \A i \in 1..Len(q) : From(q[i], v) => low <= q[i].number /\ q[i].number <= high2
  BY <1>1 DEF Ordered
<1>4. \A j \in 1..Len(s) : Position(s[j]) => low <= s[j].number /\ s[j].number <= high2
  BY <1>1 DEF Ordered
<1> QED
  BY <1>2, <1>3, <1>4 DEF Ordered

LEMMA OrderedHandled ==
    ASSUME NEW s \in Seq(Ups), s # <<>>, NEW q \in Seq(Downs), NEW low \in Nat,
           NEW high \in Nat, NEW v, Ordered(low, q, s, high, v)
    PROVE  Ordered(low, q, Tail(s), high, v)
<1> DEFINE t == Tail(s)
           n == Len(s)
<1>1. /\ Len(t) = n - 1 /\ n \in Nat \ {0} /\ \A i \in 1..(n - 1) : t[i] = s[i + 1]
  BY Tailed
<1> HIDE DEF t, n
<1>2. \A j \in 1..(n - 1) : j + 1 \in 1..n /\ t[j] = s[j + 1]
  BY <1>1
<1>3. \A j, k \in 1..(n - 1) : j <= k => j + 1 <= k + 1
  BY <1>1
<1> QED
  BY <1>1, <1>2, <1>3 DEF Ordered, n, t

(* A queue gets longer by a command, once or more often.                   *)
Grows(q, r, c) ==
    /\ r \in Seq(Downs) /\ Len(q) <= Len(r)
    /\ \A i \in 1..Len(r) : \/ i <= Len(q) /\ r[i] = q[i]
                            \/ i > Len(q) /\ r[i] = c

LEMMA OrderedGrows ==
    ASSUME NEW s \in Seq(Ups), NEW q \in Seq(Downs), NEW low \in Nat, NEW high \in Nat, NEW v,
           Ordered(low, q, s, high, v), NEW r, NEW c \in Downs, Grows(q, r, c),
           From(c, v) => /\ low <= c.number /\ c.number <= high
                         /\ \A i \in 1..Len(q) : From(q[i], v) => q[i].number <= c.number
                         /\ \A j \in 1..Len(s) : Position(s[j]) => c.number <= s[j].number
    PROVE  Ordered(low, r, s, high, v)
<1>1. /\ Len(q) \in Nat /\ Len(r) \in Nat
      /\ \A i \in 1..Len(r) : \/ i \in 1..Len(q) /\ r[i] = q[i]
                              \/ i > Len(q) /\ r[i] = c
  BY DEF Grows
<1>2. From(c, v) => c.number \in Nat
  BY DownKinds DEF From
<1>3. \A i, k \in 1..Len(r) : i <= k /\ k \in 1..Len(q) => i \in 1..Len(q)
  BY <1>1
<1>4. \A i \in 1..Len(r) : From(r[i], v) => low <= r[i].number /\ r[i].number <= high
  BY <1>1 DEF Ordered
<1>5. ASSUME NEW i \in 1..Len(r), NEW k \in 1..Len(r), i <= k, From(r[i], v), From(r[k], v)
      PROVE  r[i].number <= r[k].number
  <2>1. CASE k \in 1..Len(q) /\ r[k] = q[k]
    <3>1. i \in 1..Len(q) /\ r[i] = q[i]
      BY <1>1, <1>5, <2>1
    <3> QED
      BY <1>5, <2>1, <3>1 DEF Ordered
  <2>2. CASE r[k] = c
    BY <1>1, <1>2, <1>5, <2>2
  <2> QED
    BY <1>1, <2>1, <2>2
<1>6. \A i \in 1..Len(r), j \in 1..Len(s) : From(r[i], v) /\ Position(s[j]) =>
         r[i].number <= s[j].number
  BY <1>1 DEF Ordered
<1> QED
  BY <1>4, <1>5, <1>6 DEF Ordered

(* What a user has taken is gone, from the front of the queue.             *)
LEMMA Trimmed ==
    ASSUME NEW q \in Seq(Downs), NEW n \in 1..Len(q)
    PROVE  LET r == SubSeq(q, n + 1, Len(q))
           IN  /\ r \in Seq(Downs) /\ Len(r) = Len(q) - n
               /\ \A i \in 1..Len(r) : r[i] = q[n + i] /\ n + i \in 1..Len(q)
<1> DEFINE r == SubSeq(q, n + 1, Len(q))
<1>1. Len(q) \in Nat /\ n \in Nat
  OBVIOUS
<1>2. Len(r) = Len(q) - n
  BY <1>1
<1>3. \A i \in 1..Len(r) : n + i \in 1..Len(q)
  BY <1>1, <1>2
<1>4. \A i \in 1..(Len(q) - n) : r[i] = q[(n + 1) + i - 1]
  BY <1>1
<1>5. \A i \in 1..(Len(q) - n) : (n + 1) + i - 1 = n + i
  BY <1>1
<1>6. r \in Seq(Downs)
  BY <1>1
<1> HIDE DEF r
<1>7. \A i \in 1..Len(r) : r[i] = q[n + i]
  BY <1>2, <1>4, <1>5
<1> QED
  BY <1>2, <1>3, <1>6, <1>7 DEF r

LEMMA OrderedTaken ==
    ASSUME NEW s \in Seq(Ups), NEW q \in Seq(Downs), NEW low \in Nat, NEW high \in Nat, NEW v,
           Ordered(low, q, s, high, v), NEW n \in 1..Len(q), NEW low2 \in Nat,
           \/ low2 = low
           \/ From(q[n], v) /\ low2 = q[n].number
    PROVE  Ordered(low2, SubSeq(q, n + 1, Len(q)), s, high, v)
<1> DEFINE r == SubSeq(q, n + 1, Len(q))
<1>1. r \in Seq(Downs) /\ \A i \in 1..Len(r) : r[i] = q[n + i] /\ n + i \in 1..Len(q)
  BY Trimmed
<1> HIDE DEF r
<1>2. low2 <= high
  BY DEF Ordered
<1>3. \A i \in 1..Len(r) : From(r[i], v) => low2 <= r[i].number /\ r[i].number <= high
  <2> SUFFICES ASSUME NEW i \in 1..Len(r), From(r[i], v)
               PROVE  low2 <= r[i].number /\ r[i].number <= high
    OBVIOUS
  <2> DEFINE k == n + i
  <2>1. k \in 1..Len(q) /\ n <= k /\ r[i] = q[k]
    BY <1>1
  <2> HIDE DEF k
  <2> QED
    BY <2>1 DEF Ordered
<1>4. \A i, k \in 1..Len(r) : i <= k /\ From(r[i], v) /\ From(r[k], v) =>
         r[i].number <= r[k].number
  <2> SUFFICES ASSUME NEW i \in 1..Len(r), NEW k \in 1..Len(r), i <= k,
                      From(r[i], v), From(r[k], v)
               PROVE  r[i].number <= r[k].number
    OBVIOUS
  <2> DEFINE a == n + i
             b == n + k
  <2>1. a \in 1..Len(q) /\ b \in 1..Len(q) /\ a <= b /\ r[i] = q[a] /\ r[k] = q[b]
    BY <1>1
  <2> HIDE DEF a, b
  <2> QED
    BY <2>1 DEF Ordered
<1>5. \A i \in 1..Len(r), j \in 1..Len(s) : From(r[i], v) /\ Position(s[j]) =>
         r[i].number <= s[j].number
  BY <1>1 DEF Ordered
<1>6. \A j \in 1..Len(s) : Position(s[j]) => low2 <= s[j].number /\ s[j].number <= high
  BY DEF Ordered
<1>7. \A j, k \in 1..Len(s) : j <= k /\ Position(s[j]) /\ Position(s[k]) =>
         s[j].number <= s[k].number
  BY DEF Ordered
<1> QED
  BY <1>2, <1>3, <1>4, <1>5, <1>6, <1>7 DEF Ordered, r

(* A set of numbers has a least one.                                       *)
LEMMA LeastOf ==
    ASSUME NEW T \in SUBSET Nat, T # {}
    PROVE  \E n \in T : \A m \in T : n <= m
<1> DEFINE R == OpToRel(<, Nat)
<1>1. IsWellFoundedOn(R, Nat)
  BY NatLessThanWellFounded
<1>2. \A x, y \in Nat : <<x, y>> \in R <=> x < y
  BY DEF OpToRel
<1> HIDE DEF R
<1>3. PICK n \in T : \A m \in T : ~(<<m, n>> \in R)
  BY <1>1, WFMin
<1>4. ASSUME NEW m \in T PROVE n <= m
  <2>1. m \in Nat /\ n \in Nat /\ ~(m < n)
    BY <1>2, <1>3
  <2> QED
    BY <2>1
<1> QED
  BY <1>4

(* SendTo finds a session that has the id.                                 *)
LEMMA SendToHasId ==
    ASSUME RelayTyped, NEW id, NEW u \in SendTo(id)
    PROVE  u \in Users /\ Id(u) = id
<1> DEFINE its == {i \in DOMAIN sessions : Id(sessions[i]) = id}
           first == CHOOSE i \in its : \A j \in its : i <= j
<1>1. its # {} /\ u = sessions[first]
  BY DEF SendTo
<1>2. \A i \in DOMAIN sessions : i \in Nat /\ sessions[i] \in Users
  <2>1. sessions \in [1..Cardinality(Users) -> Users]
    BY DEF RelayTyped, SetToSeqs
  <2>2. Cardinality(Users) \in Nat
    BY RelayAssumption, FS_CardinalityType
  <2> QED
    BY <2>1, <2>2
<1>3. \E i \in its : \A j \in its : i <= j
  BY <1>1, <1>2, LeastOf
<1>4. first \in its
  BY <1>3
<1> QED
  BY <1>1, <1>2, <1>4

(* What is delivered is at the end of the queues it is for.                *)
LEMMA Delivered ==
    ASSUME RelayTyped, NEW R, NEW c \in Downs, Deliver(R, c)
    PROVE  /\ queue' \in [Users -> Seq(Downs)]
           /\ \A u \in Users : /\ Grows(queue[u], queue'[u], c)
                               /\ u \notin R => queue'[u] = queue[u]
<1>1. queue' = [u \in Users |-> IF u \in R THEN Append(queue[u], c) ELSE queue[u]]
  BY DEF Deliver
<1>2. \A u \in Users : queue[u] \in Seq(Downs)
  BY DEF RelayTyped
<1>3. ASSUME NEW u \in Users PROVE Grows(queue[u], queue'[u], c)
  <2>1. CASE u \in R
    <3>1. queue'[u] = Append(queue[u], c)
      BY <1>1, <2>1
    <3> QED
      BY <1>2, <3>1, Appended DEF Grows
  <2>2. CASE u \notin R
    <3>1. queue'[u] = queue[u] /\ queue[u] \in Seq(Downs)
      BY <1>1, <1>2, <2>2
    <3> QED
      BY <3>1 DEF Grows
  <2> QED
    BY <2>1, <2>2
<1>4. \A u \in Users : queue'[u] \in Seq(Downs)
  BY <1>3 DEF Grows
<1> QED
  BY <1>1, <1>3, <1>4

LEMMA ListDelivered ==
    ASSUME RelayTyped, NEW list \in Lines, NEW c \in Downs, DeliverList(list, c)
    PROVE  /\ queue' \in [Users -> Seq(Downs)]
           /\ \A u \in Users :
                  /\ Grows(queue[u], queue'[u], c)
                  /\ queue'[u] # queue[u] => u \in ToSet(list) \/ Nobody \in ToSet(list)
<1> DEFINE Its(u) == {i \in DOMAIN list : u \in SendTo(list[i])}
           copies(u) == [n \in 1..Cardinality(Its(u)) |-> c]
<1>1. queue' = [u \in Users |-> queue[u] \o copies(u)]
  BY DEF DeliverList
<1>2. ASSUME NEW u \in Users
      PROVE  /\ Cardinality(Its(u)) \in Nat
             /\ Cardinality(Its(u)) = 0 => Its(u) = {}
             /\ Its(u) = {} => Cardinality(Its(u)) = 0
  <2>1. IsFiniteSet(DOMAIN list)
    <3>1. DOMAIN list = 1..Len(list) /\ Len(list) \in Nat
      BY DEF Lines
    <3> QED
      BY <3>1, FS_Interval
  <2>2. IsFiniteSet(Its(u))
    BY <2>1, FS_Subset
  <2> HIDE DEF Its
  <2> QED
    BY <2>2, FS_CardinalityType, FS_EmptySet
<1>3. ASSUME NEW u \in Users
      PROVE  /\ Grows(queue[u], queue'[u], c)
             /\ queue'[u] # queue[u] => u \in ToSet(list) \/ Nobody \in ToSet(list)
  <2> DEFINE k == Cardinality(Its(u))
             q == queue[u]
             r == queue'[u]
  <2>1. r = q \o [n \in 1..k |-> c] /\ q \in Seq(Downs) /\ k \in Nat
    BY <1>1, <1>2 DEF RelayTyped
  <2>5. k # 0 => u \in ToSet(list) \/ Nobody \in ToSet(list)
    <3> SUFFICES ASSUME k # 0 PROVE u \in ToSet(list) \/ Nobody \in ToSet(list)
      OBVIOUS
    <3>1. PICK i \in DOMAIN list : u \in SendTo(list[i])
      BY <1>2
    <3>2. list[i] = Id(u)
      BY <3>1, SendToHasId
    <3>3. list[i] \in {u, Nobody}
      BY <3>2 DEF Id
    <3> QED
      BY <3>3 DEF ToSet
  <2> HIDE DEF k, q, r
  <2> DEFINE t == [n \in 1..k |-> c]
  <2>2. t \in Seq(Downs) /\ Len(t) = k /\ \A n \in 1..k : t[n] = c
    BY <2>1
  <2> HIDE DEF t
  <2>3. /\ r \in Seq(Downs) /\ Len(r) = Len(q) + k /\ Len(q) \in Nat
        /\ \A i \in 1..Len(q) : r[i] = q[i]
        /\ \A i \in 1..k : r[Len(q) + i] = c
    BY <2>1, <2>2 DEF t
  <2>4. ASSUME NEW i \in 1..Len(r), ~(i <= Len(q)) PROVE i > Len(q) /\ r[i] = c
    <3>1. i - Len(q) \in 1..k /\ Len(q) + (i - Len(q)) = i /\ i > Len(q)
      BY <2>1, <2>3, <2>4
    <3>2. r[Len(q) + (i - Len(q))] = c
      BY <2>3, <3>1
    <3> QED
      BY <3>1, <3>2
  <2>6. Grows(q, r, c)
    BY <2>1, <2>3, <2>4 DEF Grows
  <2>7. k = 0 => r = q
    <3> SUFFICES ASSUME k = 0 PROVE r = q
      OBVIOUS
    <3>1. Len(r) = Len(q) /\ \A i \in 1..Len(q) : r[i] = q[i]
      BY <2>3
    <3> QED
      BY <2>1, <2>3, <3>1
  <2> QED
    BY <2>5, <2>6, <2>7 DEF q, r
<1>4. \A u \in Users : queue'[u] \in Seq(Downs)
  BY <1>3 DEF Grows
<1> QED
  BY <1>1, <1>3, <1>4

(* A user sends something, or leaves for another channel.                  *)
LEMMA ForStays ==
    ASSUME NEW u, NEW c, For(u, c), sent'[u].moves = 0 => sent[u].moves = 0
    PROVE  For(u, c)'
  BY DEF For

LEMMA SendKeeps ==
    ASSUME RelayInv, NEW u \in Users, NEW c \in Ups, Write(u, c), named' \in SUBSET Users,
           UNCHANGED <<sessions, room, queue, heard, shown>>,
           sent' \in [Users -> [walks : Nat, words : Nat, moves : Nat]],
           \A w \in Users : /\ sent'[w].moves = 0 => sent[w].moves = 0
                            /\ sent[w].walks <= sent'[w].walks,
           scene' \in [Users -> [in : Rooms, to : Rooms \cup {Staying}]],
           \A w \in Users : w # u => scene'[w] = scene[w],
           c.kind = "position" => c.number = sent'[u].walks,
           c.kind = "json" => c.spoken = scene[u].in,
           scene'[u].in = (IF c.kind = "channel" THEN c.channel ELSE scene[u].in),
           sent'[u].moves = 0 => scene'[u].to = Staying /\ c.kind # "channel"
    PROVE  RelayInv'
<1>1. /\ up \in [Users -> Seq(Ups)] /\ queue \in [Users -> Seq(Downs)]
      /\ room \in [Users -> Rooms] /\ \A w \in Users : scene[w].in \in Rooms
      /\ heard \in [Users -> Seq(DownWords)] /\ shown \in [Users -> [Users -> Nat]]
      /\ \A w \in Users : sent[w].walks \in Nat /\ sent'[w].walks \in Nat
  BY DEF RelayInv, RelayTyped
<1>2. /\ up'[u] = Append(up[u], c) /\ \A w \in Users : w # u => up'[w] = up[w]
      /\ up' \in [Users -> Seq(Ups)]
  BY <1>1 DEF Write
<1>3. RelayTyped'
  BY <1>1, <1>2 DEF RelayInv, RelayTyped
<1>4. OnTheWay'
  <2> SUFFICES ASSUME NEW w \in Users PROVE Leads(up'[w], room[w], scene'[w].in)
    BY DEF OnTheWay
  <2>1. Leads(up[w], room[w], scene[w].in)
    BY DEF RelayInv, OnTheWay
  <2>2. CASE w # u
    BY <1>2, <2>1, <2>2
  <2>3. CASE w = u
    <3>1. up[u] \in Seq(Ups) /\ room[u] \in Rooms /\ scene[u].in \in Rooms
      BY <1>1
    <3>2. Leads(Append(up[u], c), room[u],
                IF c.kind = "channel" THEN c.channel ELSE scene[u].in)
      BY <2>1, <2>3, <3>1, PathAppends
    <3> QED
      BY <1>2, <2>3, <3>2
  <2> QED
    BY <2>2, <2>3
<1>5. StaysHome'
  <2> SUFFICES ASSUME NEW w \in Users, sent'[w].moves = 0
               PROVE  /\ room[w] = 0 /\ scene'[w].to = Staying
                      /\ \A i \in 1..Len(up'[w]) : up'[w][i].kind # "channel"
    BY DEF StaysHome
  <2>1. /\ room[w] = 0 /\ scene[w].to = Staying
        /\ \A i \in 1..Len(up[w]) : up[w][i].kind # "channel"
    BY DEF RelayInv, StaysHome
  <2>2. CASE w # u
    BY <1>2, <2>1, <2>2
  <2>3. CASE w = u
    <3> DEFINE s == up[u]
               t == up'[u]
    <3>1. /\ Len(t) = Len(s) + 1 /\ t[Len(s) + 1] = c /\ Len(s) \in Nat
          /\ \A i \in 1..Len(s) : t[i] = s[i]
      BY <1>1, <1>2, Appended
    <3> HIDE DEF s, t
    <3>2. \A i \in 1..Len(t) : i = Len(s) + 1 \/ i \in 1..Len(s)
      BY <3>1
    <3>3. \A i \in 1..Len(t) : t[i].kind # "channel"
      BY <2>1, <2>3, <3>1, <3>2 DEF s
    <3> QED
      BY <2>1, <2>3, <3>3 DEF t
  <2> QED
    BY <2>2, <2>3
<1>6. Addressed'
  BY ForStays DEF RelayInv, Addressed
<1>7. PositionsGrow'
  <2> SUFFICES ASSUME NEW w \in Users, NEW v \in Users
               PROVE  Ordered(shown[w][v], queue[w], up'[v], sent'[v].walks, v)
    BY DEF PositionsGrow
  <2>1. Ordered(shown[w][v], queue[w], up[v], sent[v].walks, v)
    BY DEF RelayInv, PositionsGrow
  <2>2. /\ up[v] \in Seq(Ups) /\ queue[w] \in Seq(Downs) /\ shown[w][v] \in Nat
        /\ sent[v].walks \in Nat /\ sent'[v].walks \in Nat /\ sent[v].walks <= sent'[v].walks
    BY <1>1
  <2>3. CASE v = u
    <3>1. Position(c) => c.number = sent'[v].walks
      BY <2>3 DEF Position
    <3>2. Ordered(shown[w][v], queue[w], Append(up[v], c), sent'[v].walks, v)
      BY <2>1, <2>2, <3>1, OrderedSends
    <3> QED
      BY <1>2, <2>3, <3>2
  <2>4. CASE v # u
    <3>1. up'[v] = up[v]
      BY <1>2, <2>4
    <3>2. Ordered(shown[w][v], queue[w], up[v], sent'[v].walks, v)
      BY <2>1, <2>2, OrderedHigher
    <3> QED
      BY <3>1, <3>2
  <2> QED
    BY <2>3, <2>4
<1> QED
  BY <1>3, <1>4, <1>5, <1>6, <1>7 DEF RelayInv

(* The server handles the first of what a user sent.                       *)
LEMMA HandleKeeps ==
    ASSUME RelayInv, NEW u \in Users, up[u] # <<>>, up' = [up EXCEPT ![u] = Tail(@)],
           UNCHANGED <<sessions, named, scene, sent, heard, shown>>,
           room' = [room EXCEPT ![u] = IF Head(up[u]).kind = "channel"
                                       THEN Head(up[u]).channel ELSE @],
           queue' \in [Users -> Seq(Downs)], NEW d \in Downs,
           \A w \in Users : \/ queue'[w] = queue[w]
                            \/ Grows(queue[w], queue'[w], d) /\ (IsJson(d) => For(w, d)),
           d.kind = "position" => /\ d.from = u /\ Position(Head(up[u]))
                                  /\ d.number = Head(up[u]).number
    PROVE  RelayInv'
<1> DEFINE c == Head(up[u])
<1>1. /\ up \in [Users -> Seq(Ups)] /\ queue \in [Users -> Seq(Downs)]
      /\ room \in [Users -> Rooms] /\ \A w \in Users : scene[w].in \in Rooms
      /\ heard \in [Users -> Seq(DownWords)] /\ shown \in [Users -> [Users -> Nat]]
      /\ \A w \in Users : sent[w].walks \in Nat
  BY DEF RelayInv, RelayTyped
<1>2. /\ c \in Ups /\ c = up[u][1] /\ 1 \in 1..Len(up[u]) /\ Tail(up[u]) \in Seq(Ups)
      /\ Len(Tail(up[u])) = Len(up[u]) - 1 /\ Len(up[u]) \in Nat
      /\ \A i \in 1..(Len(up[u]) - 1) : Tail(up[u])[i] = up[u][i + 1]
  BY <1>1, Tailed
<1>3. /\ up'[u] = Tail(up[u]) /\ \A w \in Users : w # u => up'[w] = up[w]
      /\ up' \in [Users -> Seq(Ups)]
  BY <1>1, <1>2
<1>4. /\ room' \in [Users -> Rooms] /\ \A w \in Users : w # u => room'[w] = room[w]
      /\ room'[u] = IF c.kind = "channel" THEN c.channel ELSE room[u]
  BY <1>1, <1>2, UpKinds
<1>5. RelayTyped'
  BY <1>3, <1>4 DEF RelayInv, RelayTyped
<1>6. OnTheWay'
  <2> SUFFICES ASSUME NEW w \in Users PROVE Leads(up'[w], room'[w], scene[w].in)
    BY DEF OnTheWay
  <2>1. Leads(up[w], room[w], scene[w].in)
    BY DEF RelayInv, OnTheWay
  <2>2. CASE w # u
    BY <1>3, <1>4, <2>1, <2>2
  <2>3. CASE w = u
    <3>1. up[u] \in Seq(Ups) /\ room[u] \in Rooms /\ scene[u].in \in Rooms
      BY <1>1
    <3>2. Leads(Tail(up[u]), IF c.kind = "channel" THEN c.channel ELSE room[u], scene[u].in)
      BY <2>1, <2>3, <3>1, PathShortens
    <3> QED
      BY <1>3, <1>4, <2>3, <3>2
  <2> QED
    BY <2>2, <2>3
<1>7. StaysHome'
  <2> SUFFICES ASSUME NEW w \in Users, sent[w].moves = 0
               PROVE  /\ room'[w] = 0 /\ scene[w].to = Staying
                      /\ \A i \in 1..Len(up'[w]) : up'[w][i].kind # "channel"
    BY DEF StaysHome
  <2>1. /\ room[w] = 0 /\ scene[w].to = Staying
        /\ \A i \in 1..Len(up[w]) : up[w][i].kind # "channel"
    BY DEF RelayInv, StaysHome
  <2>2. CASE w # u
    BY <1>3, <1>4, <2>1, <2>2
  <2>3. CASE w = u
    <3>1. c.kind # "channel"
      BY <1>2, <2>1, <2>3
    <3>2. ASSUME NEW i \in 1..Len(up'[u]) PROVE up'[u][i].kind # "channel"
      <4>1. i \in 1..(Len(up[u]) - 1) /\ i + 1 \in 1..Len(up[u])
        BY <1>2, <1>3
      <4> QED
        BY <1>2, <1>3, <2>1, <2>3, <4>1
    <3> QED
      BY <1>4, <2>1, <2>3, <3>1, <3>2
  <2> QED
    BY <2>2, <2>3
<1>8. Addressed'
  <2>1. ASSUME NEW w \in Users, NEW i \in 1..Len(heard[w]) PROVE For(w, heard[w][i])'
    BY ForStays DEF RelayInv, Addressed
  <2>2. ASSUME NEW w \in Users, NEW i \in 1..Len(queue'[w]), IsJson(queue'[w][i])
        PROVE  For(w, queue[w][i])'
    <3>1. CASE i \in 1..Len(queue[w]) /\ queue'[w][i] = queue[w][i]
      <4>1. For(w, queue[w][i])
        BY <2>2, <3>1 DEF RelayInv, Addressed
      <4> QED
        BY <3>1, <4>1 DEF For
    <3>2. CASE queue'[w][i] = d /\ (IsJson(d) => For(w, d))
      BY <2>2, <3>2 DEF For
    <3>3. \/ i \in 1..Len(queue[w]) /\ queue'[w][i] = queue[w][i]
          \/ queue'[w][i] = d /\ (IsJson(d) => For(w, d))
      <4>1. CASE queue'[w] = queue[w]
        BY <4>1
      <4>2. CASE Grows(queue[w], queue'[w], d) /\ (IsJson(d) => For(w, d))
        BY <1>1, <4>2 DEF Grows
      <4> QED
        BY <4>1, <4>2
    <3> QED
      BY <3>1, <3>2, <3>3
  <2> QED
    BY <2>1, <2>2 DEF Addressed, IsJson
<1>9. PositionsGrow'
  <2> SUFFICES ASSUME NEW w \in Users, NEW v \in Users
               PROVE  Ordered(shown[w][v], queue'[w], up'[v], sent[v].walks, v)
    BY DEF PositionsGrow
  <2> DEFINE low == shown[w][v]
             high == sent[v].walks
             q == queue[w]
             s == up[v]
             t == up'[v]
  <2>1. Ordered(low, q, s, high, v)
    BY DEF RelayInv, PositionsGrow
  <2>2. /\ s \in Seq(Ups) /\ t \in Seq(Ups) /\ q \in Seq(Downs)
        /\ low \in Nat /\ high \in Nat
    BY <1>1, <1>3
  <2>3. Ordered(low, q, t, high, v)
    <3>1. CASE v = u
      <4>1. s # <<>> /\ t = Tail(s)
        BY <1>3, <3>1
      <4> HIDE DEF low, high, q, s, t
      <4> QED
        BY <2>1, <2>2, <4>1, OrderedHandled
    <3>2. CASE v # u
      BY <1>3, <2>1, <3>2
    <3> QED
      BY <3>1, <3>2
  <2>4. CASE queue'[w] = q
    BY <2>3, <2>4
  <2>5. CASE Grows(q, queue'[w], d)
    <3>1. From(d, v) => v = u /\ Position(c) /\ d.number = c.number
      BY DEF From
    <3>2. v = u /\ Position(c) =>
              /\ low <= c.number /\ c.number <= high
              /\ \A i \in 1..Len(q) : From(q[i], v) => q[i].number <= c.number
              /\ \A j \in 1..Len(t) : Position(t[j]) => c.number <= t[j].number
      <4> SUFFICES ASSUME v = u, Position(c)
                   PROVE  /\ low <= c.number /\ c.number <= high
                          /\ \A i \in 1..Len(q) : From(q[i], v) => q[i].number <= c.number
                          /\ \A j \in 1..Len(t) : Position(t[j]) => c.number <= t[j].number
        OBVIOUS
      <4>1. /\ c = s[1] /\ 1 \in 1..Len(s) /\ Len(s) \in Nat /\ Len(t) = Len(s) - 1
            /\ \A j \in 1..(Len(s) - 1) : t[j] = s[j + 1]
        BY <1>2, <1>3
      <4> HIDE DEF low, high, q, s, t, c
      <4>2. /\ low <= c.number /\ c.number <= high
            /\ \A i \in 1..Len(q) : From(q[i], v) => q[i].number <= c.number
        BY <2>1, <4>1 DEF Ordered
      <4>3. ASSUME NEW j \in 1..Len(t), Position(t[j]) PROVE c.number <= t[j].number
        <5>1. j + 1 \in 1..Len(s) /\ 1 <= j + 1 /\ t[j] = s[j + 1]
          BY <4>1
        <5> QED
          BY <2>1, <4>1, <4>3, <5>1 DEF Ordered
      <4> QED
        BY <4>2, <4>3
    <3> HIDE DEF low, high, q, s, t, c
    <3>3. From(d, v) => /\ low <= d.number /\ d.number <= high
                        /\ \A i \in 1..Len(q) : From(q[i], v) => q[i].number <= d.number
                        /\ \A j \in 1..Len(t) : Position(t[j]) => d.number <= t[j].number
      BY <3>1, <3>2
    <3>4. Ordered(low, queue'[w], t, high, v)
      BY <2>2, <2>3, <2>5, <3>3, OrderedGrows
    <3> QED
      BY <3>4 DEF low, high, t
  <2> QED
    BY <2>4, <2>5
<1> QED
  BY <1>5, <1>6, <1>7, <1>8, <1>9 DEF RelayInv

(* How many commands a frame takes, however many have arrived.             *)
LEMMA FetchedSome ==
    ASSUME RelayTyped, NEW u \in Users, NEW now \in 1..Len(queue[u]),
           NEW later \in now..Len(queue[u])
    PROVE  Fetched(u, now, later) \in 1..Len(queue[u])
<1> DEFINE s == SubSeq(queue[u], 1, later)
           others == {i \in DOMAIN s : ~IsPosition(s[i])}
<1>1. queue[u] \in Seq(Downs) /\ Len(queue[u]) \in Nat
  BY DEF RelayTyped
<1>2. Len(s) = later /\ DOMAIN s = 1..later /\ later \in 1..Len(queue[u])
  BY <1>1
<1>3. Skipped(s) \in 1..later
  <2>1. CASE others = {}
    BY <1>2, <2>1 DEF Skipped
  <2>2. CASE others # {}
    <3>1. Skipped(s) = CHOOSE i \in others : \A j \in others : i <= j
      BY <2>2 DEF Skipped
    <3>2. others \in SUBSET Nat
      BY <1>2
    <3>3. \E i \in others : \A j \in others : i <= j
      BY <2>2, <3>2, LeastOf
    <3>4. others \subseteq 1..later
      BY <1>2
    <3> HIDE DEF others
    <3> QED
      BY <3>1, <3>3, <3>4
  <2> QED
    BY <2>1, <2>2
<1>4. Fetched(u, now, later) \in {Skipped(s), 1}
  BY DEF Fetched
<1> HIDE DEF s
<1> QED
  BY <1>1, <1>2, <1>3, <1>4

LEMMA TakeKeeps ==
    ASSUME RelayInv, NEW u \in Users, NEW n \in 1..Len(queue[u]),
           UNCHANGED <<sessions, named, room, up, scene, sent>>,
           queue' = [queue EXCEPT ![u] = SubSeq(@, n + 1, Len(@))],
           heard' = IF IsJson(queue[u][n]) THEN [heard EXCEPT ![u] = Append(@, queue[u][n])]
                    ELSE heard,
           \/ shown' = shown
           \/ /\ IsPosition(queue[u][n])
              /\ shown' = [shown EXCEPT ![u][queue[u][n].from] = queue[u][n].number]
    PROVE  RelayInv' /\ \A w, v \in Users : shown'[w][v] >= shown[w][v]
<1> DEFINE q == queue[u]
           r == SubSeq(q, n + 1, Len(q))
           c == q[n]
<1>1. /\ up \in [Users -> Seq(Ups)] /\ queue \in [Users -> Seq(Downs)]
      /\ heard \in [Users -> Seq(DownWords)] /\ shown \in [Users -> [Users -> Nat]]
      /\ \A w \in Users : sent[w].walks \in Nat
  BY DEF RelayInv, RelayTyped
<1>2. q \in Seq(Downs) /\ c \in Downs
  BY <1>1
<1>3. /\ r \in Seq(Downs) /\ Len(r) = Len(q) - n
      /\ \A i \in 1..Len(r) : r[i] = q[n + i] /\ n + i \in 1..Len(q)
  BY <1>2, Trimmed
<1> HIDE DEF r
<1>4. /\ queue'[u] = r /\ \A w \in Users : w # u => queue'[w] = queue[w]
      /\ queue' \in [Users -> Seq(Downs)]
  BY <1>1, <1>3 DEF r
<1>5. /\ heard' \in [Users -> Seq(DownWords)]
      /\ \A w \in Users : w # u => heard'[w] = heard[w]
      /\ \/ heard'[u] = heard[u]
         \/ IsJson(c) /\ heard'[u] = Append(heard[u], c) /\ c \in DownWords
  <2>1. IsJson(c) => c \in DownWords
    BY <1>2, DownKinds DEF IsJson
  <2>2. CASE IsJson(c)
    <3>1. heard' = [heard EXCEPT ![u] = Append(@, c)]
      BY <2>2
    <3>2. Append(heard[u], c) \in Seq(DownWords)
      BY <1>1, <2>1, <2>2
    <3> QED
      BY <1>1, <2>1, <2>2, <3>1, <3>2
  <2>3. CASE ~IsJson(c)
    BY <1>1, <2>3
  <2> QED
    BY <2>2, <2>3
<1>6. IsPosition(c) => c.from \in Users /\ c.number \in Nat
  BY <1>2, DownKinds DEF IsPosition
<1>7. ASSUME NEW w \in Users, NEW v \in Users
      PROVE  \/ shown'[w][v] = shown[w][v]
             \/ w = u /\ From(c, v) /\ shown'[w][v] = c.number
  <2>1. CASE shown' = shown
    BY <2>1
  <2>2. CASE /\ IsPosition(c)
             /\ shown' = [shown EXCEPT ![u][c.from] = c.number]
    BY <1>1, <1>6, <2>2 DEF From, IsPosition
  <2> QED
    BY <2>1, <2>2
<1>8. shown' \in [Users -> [Users -> Nat]]
  <2>1. CASE shown' = shown
    BY <1>1, <2>1
  <2>2. CASE /\ IsPosition(c)
             /\ shown' = [shown EXCEPT ![u][c.from] = c.number]
    BY <1>1, <1>6, <2>2
  <2> QED
    BY <2>1, <2>2
<1> HIDE DEF q, c
<1>9. RelayTyped'
  BY <1>4, <1>5, <1>8 DEF RelayInv, RelayTyped
<1>10. OnTheWay' /\ StaysHome'
  BY DEF RelayInv, OnTheWay, StaysHome
<1>11. Addressed'
  <2>1. \A w \in Users : \A d : For(w, d) => For(w, d)'
    BY DEF For
  <2>2. ASSUME NEW w \in Users, NEW i \in 1..Len(heard'[w]) PROVE For(w, heard'[w][i])
    <3>1. CASE heard'[w] = heard[w]
      BY <2>2, <3>1 DEF RelayInv, Addressed
    <3>2. CASE w = u /\ IsJson(c) /\ heard'[u] = Append(heard[u], c)
      <4>1. heard[u] \in Seq(DownWords) /\ c \in DownWords
        BY <1>1, <1>2, <3>2, DownKinds DEF IsJson
      <4>2. For(u, c)
        BY <3>2 DEF RelayInv, Addressed, c, q
      <4>3. \/ i \in 1..Len(heard[u]) /\ heard'[u][i] = heard[u][i]
            \/ heard'[u][i] = c
        BY <2>2, <3>2, <4>1
      <4>4. \A k \in 1..Len(heard[u]) : For(u, heard[u][k])
        BY DEF RelayInv, Addressed
      <4> QED
        BY <3>2, <4>2, <4>3, <4>4
    <3> QED
      BY <1>5, <3>1, <3>2
  <2>3. ASSUME NEW w \in Users, NEW i \in 1..Len(queue'[w]), IsJson(queue'[w][i])
        PROVE  For(w, queue'[w][i])
    <3>1. CASE w = u
      <4>1. queue'[w][i] = q[n + i] /\ n + i \in 1..Len(q)
        BY <1>3, <1>4, <2>3, <3>1
      <4> QED
        BY <2>3, <3>1, <4>1 DEF RelayInv, Addressed, q
    <3>2. CASE w # u
      BY <1>4, <2>3, <3>2 DEF RelayInv, Addressed
    <3> QED
      BY <3>1, <3>2
  <2>4. \A w \in Users : \A i \in 1..Len(heard'[w]) : For(w, heard'[w][i])
    BY <2>2
  <2>5. \A w \in Users : \A i \in 1..Len(queue'[w]) :
            IsJson(queue'[w][i]) => For(w, queue'[w][i])
    BY <2>3
  <2>6. sent' = sent
    OBVIOUS
  <2>7. ASSUME NEW w \in Users, NEW i \in 1..Len(heard'[w])
        PROVE  For(w, heard[w][i])'
    BY <2>4, <2>6, <2>7, ZenonT(60) DEF For
  <2>8. ASSUME NEW w \in Users, NEW i \in 1..Len(queue'[w]), IsJson(queue'[w][i])
        PROVE  For(w, queue[w][i])'
    BY <2>3, <2>6, <2>8, ZenonT(60) DEF For
  <2> QED
    BY <2>7, <2>8 DEF Addressed, IsJson
<1>12. ASSUME NEW w \in Users, NEW v \in Users
       PROVE  Ordered(shown'[w][v], queue'[w], up[v], sent[v].walks, v)
  <2>1. /\ up[v] \in Seq(Ups) /\ queue[w] \in Seq(Downs) /\ shown[w][v] \in Nat
        /\ sent[v].walks \in Nat /\ shown'[w][v] \in Nat
    BY <1>1, <1>8
  <2>2. Ordered(shown[w][v], queue[w], up[v], sent[v].walks, v)
    BY DEF RelayInv, PositionsGrow
  <2>3. CASE w = u
    <3>1. \/ shown'[w][v] = shown[w][v]
          \/ From(q[n], v) /\ shown'[w][v] = q[n].number
      BY <1>7 DEF c
    <3>2. queue[w] = q /\ q \in Seq(Downs) /\ n \in 1..Len(q)
      BY <1>2, <2>3 DEF q
    <3>3. Ordered(shown'[w][v], SubSeq(q, n + 1, Len(q)), up[v], sent[v].walks, v)
      BY <2>1, <2>2, <3>1, <3>2, OrderedTaken
    <3> QED
      BY <1>4, <2>3, <3>3 DEF r
  <2>4. CASE w # u
    BY <1>4, <1>7, <2>2, <2>4
  <2> QED
    BY <2>3, <2>4
<1>13. PositionsGrow'
  BY <1>12 DEF PositionsGrow
<1>14. ASSUME NEW w \in Users, NEW v \in Users PROVE shown'[w][v] >= shown[w][v]
  <2>1. shown[w][v] \in Nat
    BY <1>1
  <2>2. CASE shown'[w][v] = shown[w][v]
    BY <2>1, <2>2
  <2>3. CASE w = u /\ From(c, v) /\ shown'[w][v] = c.number
    <3>1. Ordered(shown[u][v], q, up[v], sent[v].walks, v)
      BY DEF RelayInv, PositionsGrow, q
    <3>2. shown[u][v] <= q[n].number /\ n \in 1..Len(q)
      BY <2>3, <3>1 DEF Ordered, c, q
    <3>3. c.number \in Nat
      BY <1>6, <2>3 DEF From, IsPosition
    <3> QED
      BY <2>1, <2>3, <3>2, <3>3 DEF c
  <2> QED
    BY <1>7, <2>2, <2>3
<1> QED
  BY <1>9, <1>10, <1>11, <1>13, <1>14 DEF RelayInv

LEMMA RelayInitially == RelayInit => RelayInv
<1> SUFFICES ASSUME RelayInit PROVE RelayInv
  OBVIOUS
<1>1. /\ sessions \in SetToSeqs(Users) /\ named = {}
      /\ room = [u \in Users |-> 0]
      /\ up = [u \in Users |-> <<>>] /\ queue = [u \in Users |-> <<>>]
      /\ scene = [u \in Users |-> [in |-> 0, to |-> Staying]]
      /\ sent = [u \in Users |-> [walks |-> 0, words |-> 0, moves |-> 0]]
      /\ heard = [u \in Users |-> <<>>]
      /\ shown = [u \in Users |-> [v \in Users |-> 0]]
  BY DEF RelayInit
<1>2. 0 \in Rooms /\ 0 \in Nat
  BY RelayAssumption
<1>3. RelayTyped
  <2>1. \A S : <<>> \in Seq(S)
    OBVIOUS
  <2> QED
    BY <1>1, <1>2, <2>1 DEF RelayTyped
<1>4. OnTheWay
  <2> SUFFICES ASSUME NEW u \in Users PROVE Leads(up[u], room[u], scene[u].in)
    BY DEF OnTheWay
  <2> DEFINE f == [i \in 0..0 |-> 0]
  <2>1. f \in [0..0 -> Rooms] /\ f[0] = 0
    BY <1>2
  <2>2. up[u] = <<>> /\ room[u] = 0 /\ scene[u].in = 0 /\ Len(up[u]) = 0
    BY <1>1
  <2> HIDE DEF f
  <2>3. Path(f, up[u], room[u], scene[u].in)
    BY <2>1, <2>2 DEF Path
  <2> QED
    BY <2>1, <2>2, <2>3 DEF Leads
<1>5. StaysHome /\ Addressed
  BY <1>1 DEF StaysHome, Addressed
<1>6. PositionsGrow
  BY <1>1 DEF PositionsGrow, Ordered
<1> QED
  BY <1>3, <1>4, <1>5, <1>6 DEF RelayInv

LEMMA RegisterKeeps ==
    ASSUME RelayInv, NEW u \in Users, Register(u)
    PROVE  RelayInv'
<1>1. RelayTyped'
  BY DEF Register, RelayInv, RelayTyped
<1>2. OnTheWay' /\ StaysHome'
  BY DEF Register, RelayInv, OnTheWay, StaysHome
<1>3. Addressed' /\ PositionsGrow'
  BY DEF Register, RelayInv, Addressed, PositionsGrow, For
<1> QED
  BY <1>1, <1>2, <1>3 DEF RelayInv

LEMMA SendPositionKeeps ==
    ASSUME RelayInv, NEW u \in Users, SendPosition(u)
    PROVE  RelayInv'
<1> DEFINE c == [kind |-> "position", number |-> sent[u].walks + 1]
<1>1. /\ sent \in [Users -> [walks : Nat, words : Nat, moves : Nat]]
      /\ scene \in [Users -> [in : Rooms, to : Rooms \cup {Staying}]] /\ named \in SUBSET Users
  BY DEF RelayInv, RelayTyped
<1>2. /\ Write(u, c) /\ UNCHANGED <<sessions, named, room, queue, scene, heard, shown>>
      /\ sent' = [sent EXCEPT ![u].walks = sent[u].walks + 1] /\ scene[u].to = Staying
  BY DEF SendPosition, Counts
<1>3. c \in Ups /\ c.kind = "position" /\ c.number = sent[u].walks + 1
  BY <1>1 DEF Ups, UpPositions
<1>4. /\ sent' \in [Users -> [walks : Nat, words : Nat, moves : Nat]]
      /\ sent'[u].walks = sent[u].walks + 1
      /\ \A w \in Users : sent'[w].moves = sent[w].moves /\ sent[w].walks <= sent'[w].walks
  BY <1>1, <1>2
<1> HIDE DEF c
<1> QED
  BY <1>1, <1>2, <1>3, <1>4, SendKeeps

LEMMA SendJSONKeeps ==
    ASSUME RelayInv, NEW u \in Users, SendJSON(u)
    PROVE  RelayInv'
<1>1. /\ sent \in [Users -> [walks : Nat, words : Nat, moves : Nat]]
      /\ scene \in [Users -> [in : Rooms, to : Rooms \cup {Staying}]] /\ named \in SUBSET Users
  BY DEF RelayInv, RelayTyped
<1>2. PICK list \in Lists :
          Write(u, [kind |-> "json", private |-> list, number |-> sent[u].words + 1,
                    spoken |-> scene[u].in])
  BY DEF SendJSON
<1> DEFINE c == [kind |-> "json", private |-> list, number |-> sent[u].words + 1,
                 spoken |-> scene[u].in]
<1>3. /\ Write(u, c) /\ UNCHANGED <<sessions, named, room, queue, scene, heard, shown>>
      /\ sent' = [sent EXCEPT ![u].words = sent[u].words + 1]
  BY <1>2 DEF SendJSON, Counts
<1>4. c \in Ups /\ c.kind = "json" /\ c.spoken = scene[u].in
  BY <1>1, RelayAssumption DEF Ups, UpWords, Lines
<1>5. /\ sent' \in [Users -> [walks : Nat, words : Nat, moves : Nat]]
      /\ \A w \in Users : sent'[w].moves = sent[w].moves /\ sent[w].walks <= sent'[w].walks
  BY <1>1, <1>3
<1>6. sent'[u].moves = 0 => scene'[u].to = Staying
  BY <1>3, <1>5 DEF RelayInv, StaysHome
<1> HIDE DEF c
<1> QED
  BY <1>1, <1>3, <1>4, <1>5, <1>6, SendKeeps

LEMMA WarpStarts ==
    ASSUME RelayInv, NEW u \in Users, Warp(u)
    PROVE  RelayInv'
<1>1. PICK r \in Rooms : scene' = [scene EXCEPT ![u].to = r]
  BY DEF Warp
<1>2. /\ UNCHANGED <<sessions, named, room, up, queue, heard, shown>>
      /\ sent' = [sent EXCEPT ![u].moves = sent[u].moves + 1]
  BY DEF Warp, Counts
<1>3. /\ sent \in [Users -> [walks : Nat, words : Nat, moves : Nat]]
      /\ scene \in [Users -> [in : Rooms, to : Rooms \cup {Staying}]]
  BY DEF RelayInv, RelayTyped
<1>4. /\ sent' \in [Users -> [walks : Nat, words : Nat, moves : Nat]]
      /\ sent'[u].moves = sent[u].moves + 1 /\ sent'[u].moves # 0
      /\ \A w \in Users : /\ sent'[w].walks = sent[w].walks
                          /\ sent'[w].moves = 0 => sent[w].moves = 0
                          /\ w # u => sent'[w] = sent[w]
  BY <1>2, <1>3
<1>5. /\ scene' \in [Users -> [in : Rooms, to : Rooms \cup {Staying}]]
      /\ \A w \in Users : scene'[w].in = scene[w].in /\ (w # u => scene'[w] = scene[w])
  BY <1>1, <1>3
<1>6. RelayTyped'
  BY <1>2, <1>4, <1>5 DEF RelayInv, RelayTyped
<1>7. OnTheWay'
  BY <1>2, <1>5 DEF RelayInv, OnTheWay
<1>8. StaysHome'
  BY <1>2, <1>4, <1>5 DEF RelayInv, StaysHome
<1>9. Addressed'
  BY <1>2, <1>4, ForStays DEF RelayInv, Addressed
<1>10. PositionsGrow'
  BY <1>2, <1>4 DEF RelayInv, PositionsGrow
<1> QED
  BY <1>6, <1>7, <1>8, <1>9, <1>10 DEF RelayInv

LEMMA ChangeChannelKeeps ==
    ASSUME RelayInv, NEW u \in Users, ChangeChannel(u)
    PROVE  RelayInv'
<1> DEFINE c == [kind |-> "channel", channel |-> scene[u].to]
<1>1. /\ sent \in [Users -> [walks : Nat, words : Nat, moves : Nat]]
      /\ scene \in [Users -> [in : Rooms, to : Rooms \cup {Staying}]] /\ named \in SUBSET Users
  BY DEF RelayInv, RelayTyped
<1>2. /\ Write(u, c) /\ UNCHANGED <<sessions, named, room, queue, sent, heard, shown>>
      /\ scene[u].to # Staying
      /\ scene' = [scene EXCEPT ![u] = [in |-> scene[u].to, to |-> Staying]]
  BY DEF ChangeChannel
<1>3. scene[u].to \in Rooms
  BY <1>1, <1>2
<1>4. c \in Ups /\ c.kind = "channel" /\ c.channel = scene[u].to
  BY <1>3 DEF Ups, UpChannels
<1>5. /\ scene' \in [Users -> [in : Rooms, to : Rooms \cup {Staying}]]
      /\ scene'[u].in = scene[u].to /\ \A w \in Users : w # u => scene'[w] = scene[w]
  BY <1>1, <1>2, <1>3
<1>6. sent'[u].moves # 0
  BY <1>2 DEF RelayInv, StaysHome
<1>7. \A w \in Users : sent[w].walks <= sent'[w].walks
  BY <1>1, <1>2
<1> HIDE DEF c
<1> QED
  BY <1>1, <1>2, <1>4, <1>5, <1>6, <1>7, SendKeeps

LEMMA ServerHandlesKeeps ==
    ASSUME RelayInv, NEW u \in Users, ServerHandles(u)
    PROVE  RelayInv'
<1> DEFINE c == Head(up[u])
<1>1. /\ up[u] # <<>> /\ up' = [up EXCEPT ![u] = Tail(@)]
      /\ UNCHANGED <<sessions, named, scene, sent, heard, shown>>
  BY DEF ServerHandles
<1>2. /\ RelayTyped /\ c \in Ups /\ queue \in [Users -> Seq(Downs)]
      /\ room \in [Users -> Rooms] /\ u \in DOMAIN room
  BY <1>1, Tailed DEF RelayInv, RelayTyped
<1>3. /\ c.kind = "json" => ServerReceiveJSON(u, c)
      /\ c.kind = "position" => ServerUpdatePlayerPosition(u, c)
      /\ c.kind = "channel" => SetChannel(u, c)
  BY DEF ServerHandles
<1>4. CASE c.kind = "json"
  <2> DEFINE d == [kind |-> "json", from |-> u, number |-> c.number, private |-> c.private,
                   spoken |-> c.spoken, in |-> room[u]]
  <2>1. c \in UpWords
    BY <1>2, <1>4, UpKinds
  <2>2. c.number \in Nat /\ c.private \in Lines /\ c.spoken \in Rooms
    BY <2>1 DEF UpWords
  <2>3. /\ d \in Downs /\ d.kind = "json" /\ d.private = c.private /\ d.in = room[u]
        /\ d.spoken = c.spoken
    BY <1>2, <2>2 DEF Downs, DownWords
  <2>4. /\ IF c.private = <<>> THEN Deliver(SendAll(FALSE, room[u]), d)
           ELSE DeliverList(c.private, d)
        /\ room' = room
    BY <1>3, <1>4 DEF ServerReceiveJSON
  <2> HIDE DEF d
  <2>5. c.spoken = room[u]
    <3>1. Leads(up[u], room[u], scene[u].in) /\ up[u] \in Seq(Ups) /\ room[u] \in Rooms
          /\ scene[u].in \in Rooms
      BY <1>2 DEF RelayInv, OnTheWay, RelayTyped
    <3> QED
      BY <1>1, <1>4, <3>1, PathShortens
  <2>6. room' = [room EXCEPT ![u] = IF c.kind = "channel" THEN c.channel ELSE @]
    BY <1>2, <1>4, <2>4
  <2>7. /\ queue' \in [Users -> Seq(Downs)]
        /\ \A w \in Users : \/ queue'[w] = queue[w]
                            \/ Grows(queue[w], queue'[w], d) /\ For(w, d)
    <3>1. CASE c.private = <<>>
      <4>1. Deliver(SendAll(FALSE, room[u]), d)
        BY <2>4, <3>1
      <4>2. /\ queue' \in [Users -> Seq(Downs)]
            /\ \A w \in Users :
                   /\ Grows(queue[w], queue'[w], d)
                   /\ w \notin SendAll(FALSE, room[u]) => queue'[w] = queue[w]
        BY <1>2, <2>3, <4>1, Delivered
      <4>3. \A w \in SendAll(FALSE, room[u]) : room[w] = room[u] /\ w \in named
        BY DEF SendAll
      <4>4. \A w \in Users : w \in SendAll(FALSE, room[u]) => For(w, d)
        BY <2>3, <2>5, <3>1, <4>3 DEF For, RelayInv, StaysHome
      <4> QED
        BY <4>2, <4>4
    <3>2. CASE c.private # <<>>
      <4>1. DeliverList(c.private, d)
        BY <2>4, <3>2
      <4>2. /\ queue' \in [Users -> Seq(Downs)]
            /\ \A w \in Users :
                   /\ Grows(queue[w], queue'[w], d)
                   /\ queue'[w] # queue[w] => w \in ToSet(c.private) \/ Nobody \in ToSet(c.private)
        BY <1>2, <2>2, <2>3, <4>1, ListDelivered
      <4>3. \A w \in Users : w \in ToSet(c.private) \/ Nobody \in ToSet(c.private) => For(w, d)
        BY <2>3, <3>2 DEF For
      <4> QED
        BY <4>2, <4>3
    <3> QED
      BY <3>1, <3>2
  <2> QED
    BY <1>1, <2>3, <2>6, <2>7, HandleKeeps
<1>5. CASE c.kind = "position"
  <2> DEFINE d == [kind |-> "position", from |-> u, number |-> c.number]
  <2>1. c.number \in Nat
    BY <1>2, <1>5, UpKinds
  <2>2. d \in Downs /\ d.kind = "position" /\ d.from = u /\ d.number = c.number /\ ~IsJson(d)
    BY <2>1 DEF Downs, DownPositions, IsJson
  <2>3. PICK busy \in SUBSET (Users \ {u}) : Deliver(SendOthers(u, room[u], busy), d)
    BY <1>3, <1>5 DEF ServerUpdatePlayerPosition
  <2>4. room' = room
    BY <1>3, <1>5 DEF ServerUpdatePlayerPosition
  <2> HIDE DEF d
  <2>5. room' = [room EXCEPT ![u] = IF c.kind = "channel" THEN c.channel ELSE @]
    BY <1>2, <1>5, <2>4
  <2>6. /\ queue' \in [Users -> Seq(Downs)]
        /\ \A w \in Users : Grows(queue[w], queue'[w], d)
    BY <1>2, <2>2, <2>3, Delivered
  <2>7. Position(c)
    BY <1>5 DEF Position
  <2> QED
    BY <1>1, <2>2, <2>5, <2>6, <2>7, HandleKeeps
<1>6. CASE c.kind = "channel"
  <2> DEFINE d == [kind |-> "notify", from |-> u]
  <2>1. d \in Downs /\ d.kind = "notify" /\ ~IsJson(d)
    BY DEF Downs, DownNotes, IsJson
  <2>2. /\ room' = [room EXCEPT ![u] = c.channel]
        /\ IF c.channel # room[u] THEN Deliver(SendAll(TRUE, 0), d) ELSE queue' = queue
    BY <1>3, <1>6 DEF SetChannel
  <2> HIDE DEF d
  <2>3. room' = [room EXCEPT ![u] = IF c.kind = "channel" THEN c.channel ELSE @]
    BY <1>6, <2>2
  <2>4. /\ queue' \in [Users -> Seq(Downs)]
        /\ \A w \in Users : queue'[w] = queue[w] \/ Grows(queue[w], queue'[w], d)
    <3>1. CASE c.channel # room[u]
      BY <1>2, <2>1, <2>2, <3>1, Delivered
    <3>2. CASE c.channel = room[u]
      BY <1>2, <2>2, <3>2
    <3> QED
      BY <3>1, <3>2
  <2> QED
    BY <1>1, <2>1, <2>3, <2>4, HandleKeeps
<1> QED
  BY <1>2, <1>4, <1>5, <1>6, UpKinds

LEMMA FrameTakes ==
    ASSUME RelayInv, NEW u \in Users, Frame(u)
    PROVE  RelayInv' /\ \A w, v \in Users : shown'[w][v] >= shown[w][v]
<1>1. PICK now \in 1..Len(queue[u]) : \E later \in now..Len(queue[u]) :
         LET n       == Fetched(u, now, later)
             c       == queue[u][n]
             dropped == now - 1 > Full /\ IsPosition(c)
         IN  /\ queue' = [queue EXCEPT ![u] = SubSeq(@, n + 1, Len(@))]
             /\ heard' = IF IsJson(c) THEN [heard EXCEPT ![u] = Append(@, c)] ELSE heard
             /\ IF IsPosition(c) /\ ~dropped
                THEN \E known \in BOOLEAN :
                       shown' = IF known THEN [shown EXCEPT ![u][c.from] = c.number] ELSE shown
                ELSE UNCHANGED shown
  BY DEF Frame
<1>2. PICK later \in now..Len(queue[u]) :
         LET n       == Fetched(u, now, later)
             c       == queue[u][n]
             dropped == now - 1 > Full /\ IsPosition(c)
         IN  /\ queue' = [queue EXCEPT ![u] = SubSeq(@, n + 1, Len(@))]
             /\ heard' = IF IsJson(c) THEN [heard EXCEPT ![u] = Append(@, c)] ELSE heard
             /\ IF IsPosition(c) /\ ~dropped
                THEN \E known \in BOOLEAN :
                       shown' = IF known THEN [shown EXCEPT ![u][c.from] = c.number] ELSE shown
                ELSE UNCHANGED shown
  BY <1>1
<1> DEFINE n == Fetched(u, now, later)
           c == queue[u][n]
<1>3. n \in 1..Len(queue[u])
  BY FetchedSome DEF RelayInv
<1>4. /\ queue' = [queue EXCEPT ![u] = SubSeq(@, n + 1, Len(@))]
      /\ heard' = IF IsJson(c) THEN [heard EXCEPT ![u] = Append(@, c)] ELSE heard
      /\ \/ shown' = shown
         \/ IsPosition(c) /\ shown' = [shown EXCEPT ![u][c.from] = c.number]
  BY <1>2
<1>5. UNCHANGED <<sessions, named, room, up, scene, sent>>
  BY DEF Frame
<1> HIDE DEF n
<1> QED
  BY <1>3, <1>4, <1>5, TakeKeeps

LEMMA RelayStep ==
    ASSUME RelayInv, [RelayNext]_relayVars
    PROVE  RelayInv' /\ \A w, v \in Users : shown'[w][v] >= shown[w][v]
<1>1. \A w, v \in Users : shown[w][v] \in Nat
  BY DEF RelayInv, RelayTyped
<1>2. shown' = shown => \A w, v \in Users : shown'[w][v] >= shown[w][v]
  BY <1>1
<1>3. ASSUME NEW u \in Users, Register(u) PROVE RelayInv' /\ shown' = shown
  BY <1>3, RegisterKeeps DEF Register
<1>4. ASSUME NEW u \in Users, SendPosition(u) PROVE RelayInv' /\ shown' = shown
  BY <1>4, SendPositionKeeps DEF SendPosition
<1>5. ASSUME NEW u \in Users, SendJSON(u) PROVE RelayInv' /\ shown' = shown
  BY <1>5, SendJSONKeeps DEF SendJSON
<1>6. ASSUME NEW u \in Users, Warp(u) PROVE RelayInv' /\ shown' = shown
  BY <1>6, WarpStarts DEF Warp
<1>7. ASSUME NEW u \in Users, ChangeChannel(u) PROVE RelayInv' /\ shown' = shown
  BY <1>7, ChangeChannelKeeps DEF ChangeChannel
<1>8. ASSUME NEW u \in Users, ServerHandles(u) PROVE RelayInv' /\ shown' = shown
  BY <1>8, ServerHandlesKeeps DEF ServerHandles
<1>9. ASSUME UNCHANGED relayVars PROVE RelayInv' /\ shown' = shown
  <2>1. RelayTyped' /\ OnTheWay' /\ StaysHome' /\ Addressed' /\ PositionsGrow'
    BY <1>9 DEF relayVars, RelayInv, RelayTyped, OnTheWay, StaysHome, Addressed, For,
       PositionsGrow
  <2> QED
    BY <1>9, <2>1 DEF relayVars, RelayInv
<1> QED
  BY <1>2, <1>3, <1>4, <1>5, <1>6, <1>7, <1>8, <1>9, FrameTakes DEF RelayNext

(* However many users talk, walk and change channels at once: a word said  *)
(* to a channel is read by those who are in it and by nobody who never     *)
(* went there, and a private one by those it names (Server.cpp:243-276,    *)
(* server/main.cpp:140-180).                                               *)
THEOREM ChatIsSound == RelaySpec => []RelaySound
<1>1. RelaySpec => []RelayInv
  BY RelayInitially, RelayStep, PTL DEF RelaySpec
<1>2. ASSUME RelayInv PROVE RelaySound
  <2>1. RelayTypeOK
    <3>1. \A u \in Users : scene[u] \in [in : Rooms, to : Rooms \cup {Staying}]
      BY <1>2 DEF RelayInv, RelayTyped
    <3> QED
      BY <1>2, <3>1 DEF RelayInv, RelayTyped, RelayTypeOK
  <2>2. ASSUME NEW u \in Users,
               NEW c \in ToSet(heard[u]) \cup {d \in ToSet(queue[u]) : IsJson(d)}
        PROVE  For(u, c)
    <3>1. heard[u] \in Seq(DownWords) /\ queue[u] \in Seq(Downs)
      BY <1>2 DEF RelayInv, RelayTyped
    <3>2. DOMAIN heard[u] = 1..Len(heard[u]) /\ DOMAIN queue[u] = 1..Len(queue[u])
      BY <3>1
    <3>3. CASE c \in ToSet(heard[u])
      <4>1. PICK i \in 1..Len(heard[u]) : c = heard[u][i]
        BY <3>2, <3>3 DEF ToSet
      <4> QED
        BY <1>2, <4>1 DEF RelayInv, Addressed
    <3>4. CASE c \in ToSet(queue[u]) /\ IsJson(c)
      <4>1. PICK i \in 1..Len(queue[u]) : c = queue[u][i]
        BY <3>2, <3>4 DEF ToSet
      <4> QED
        BY <1>2, <3>4, <4>1 DEF RelayInv, Addressed
    <3> QED
      BY <3>3, <3>4
  <2>3. ChatStaysInside
    BY <2>2 DEF ChatStaysInside, For
  <2> QED
    BY <2>1, <2>3 DEF RelaySound
<1>3. RelayInv => RelaySound
  BY <1>2
<1> QED
  BY <1>1, <1>3, PTL

(* Whatever the queues throw away, a user is never shown at a place he had *)
(* left for one already shown (client/CommandManager.cpp:20-55).           *)
THEOREM PlacesNeverGoBack == RelaySpec => NeverBack
<1>1. RelaySpec => []RelayInv
  BY RelayInitially, RelayStep, PTL DEF RelaySpec
<1>2. ASSUME RelayInv, [RelayNext]_relayVars
      PROVE  [\A u, v \in Users : shown'[u][v] >= shown[u][v]]_relayVars
  BY <1>2, RelayStep
<1> QED
  BY <1>1, <1>2, PTL DEF RelaySpec, NeverBack

(* The words in a queue are counted by their places.                       *)
LEMMA CountedPlaces ==
    ASSUME NEW N \in Nat, NEW P \in SUBSET (1..N)
    PROVE  /\ IsFiniteSet(P) /\ Cardinality(P) \in Nat
           /\ \A i : IsFiniteSet(UpTo(P, i)) /\ Cardinality(UpTo(P, i)) \in Nat
           /\ UpTo(P, 0) = {} /\ UpTo(P, N) = P
           /\ \A i : Cardinality(UpTo(P, i)) <= Cardinality(P)
<1>1. IsFiniteSet(1..N)
  BY FS_Interval
<1>2. IsFiniteSet(P) /\ Cardinality(P) \in Nat
  BY <1>1, FS_Subset, FS_CardinalityType
<1>3. ASSUME NEW i
      PROVE  /\ IsFiniteSet(UpTo(P, i)) /\ Cardinality(UpTo(P, i)) \in Nat
             /\ Cardinality(UpTo(P, i)) <= Cardinality(P)
  <2>1. UpTo(P, i) \in SUBSET P
    BY DEF UpTo
  <2> QED
    BY <1>2, <2>1, FS_Subset, FS_CardinalityType
<1>4. UpTo(P, 0) = {} /\ UpTo(P, N) = P
  <2>1. \A j \in P : j \in Nat /\ j <= N /\ ~(j <= 0)
    OBVIOUS
  <2> QED
    BY <2>1 DEF UpTo
<1> QED
  BY <1>2, <1>3, <1>4

(* From one place to the next the count goes up by one, or stays.          *)
LEMMA CountSteps ==
    ASSUME NEW N \in Nat, NEW P \in SUBSET (1..N), NEW k \in 1..N
    PROVE  Cardinality(UpTo(P, k)) = Cardinality(UpTo(P, k - 1)) + (IF k \in P THEN 1 ELSE 0)
<1> DEFINE before == UpTo(P, k - 1)
<1>0. \A j \in P : j \in Nat /\ (j <= k <=> j <= k - 1 \/ j = k)
  OBVIOUS
<1>1. k \notin before /\ IsFiniteSet(before)
  BY CountedPlaces DEF UpTo
<1>2. CASE k \in P
  <2>1. UpTo(P, k) = before \cup {k}
    BY <1>0, <1>2 DEF UpTo
  <2> HIDE DEF before
  <2>2. Cardinality(before \cup {k}) = Cardinality(before) + 1
    BY <1>1, FS_AddElement
  <2> QED
    BY <1>2, <2>1, <2>2 DEF before
<1>3. CASE k \notin P
  <2>1. UpTo(P, k) = before
    BY <1>0, <1>3 DEF UpTo
  <2>2. Cardinality(before) \in Nat
    BY CountedPlaces
  <2> QED
    BY <1>3, <2>1, <2>2
<1> QED
  BY <1>2, <1>3

(* Later places have higher counts.                                        *)
LEMMA CountGrows ==
    ASSUME NEW N \in Nat, NEW P \in SUBSET (1..N), NEW i \in P, NEW k \in P, i < k
    PROVE  Cardinality(UpTo(P, i)) < Cardinality(UpTo(P, k))
<1>1. UpTo(P, i) \in SUBSET UpTo(P, k) /\ k \in UpTo(P, k) /\ k \notin UpTo(P, i)
  <2>1. k <= k /\ ~(k <= i) /\ \A j \in P : j <= i => j <= k
    OBVIOUS
  <2> QED
    BY <2>1 DEF UpTo
<1>2. /\ IsFiniteSet(UpTo(P, k)) /\ Cardinality(UpTo(P, k)) \in Nat
      /\ Cardinality(UpTo(P, i)) \in Nat
  BY CountedPlaces
<1>3. /\ Cardinality(UpTo(P, i)) <= Cardinality(UpTo(P, k))
      /\ Cardinality(UpTo(P, k)) = Cardinality(UpTo(P, i)) => UpTo(P, k) = UpTo(P, i)
  BY <1>1, <1>2, FS_Subset
<1> QED
  BY <1>1, <1>2, <1>3

(* Every count is that of one place, and of one only.                      *)
LEMMA NthPlace ==
    ASSUME NEW N \in Nat, NEW P \in SUBSET (1..N), NEW n \in 1..Cardinality(P)
    PROVE  Nth(P, n) \in P /\ Cardinality(UpTo(P, Nth(P, n))) = n
<1> DEFINE T == {k \in 0..N : n <= Cardinality(UpTo(P, k))}
<1>1. /\ Cardinality(P) \in Nat /\ \A i : Cardinality(UpTo(P, i)) \in Nat
      /\ UpTo(P, 0) = {} /\ UpTo(P, N) = P
  BY CountedPlaces
<1>2. Cardinality({}) = 0
  BY FS_EmptySet
<1>3. N \in T /\ T \in SUBSET Nat /\ 0 \notin T
  BY <1>1, <1>2
<1>4. PICK k \in T : \A m \in T : k <= m
  BY <1>3, LeastOf
<1>5. k \in 1..N /\ n <= Cardinality(UpTo(P, k)) /\ k - 1 \in 0..N
  BY <1>3, <1>4
<1>6. ~(n <= Cardinality(UpTo(P, k - 1)))
  <2>1. k - 1 \notin T
    BY <1>3, <1>4, <1>5
  <2> QED
    BY <1>5, <2>1
<1> HIDE DEF T
<1>7. Cardinality(UpTo(P, k)) = Cardinality(UpTo(P, k - 1)) + (IF k \in P THEN 1 ELSE 0)
  BY <1>5, CountSteps
<1>8. k \in P /\ Cardinality(UpTo(P, k)) = n
  BY <1>1, <1>5, <1>6, <1>7
<1> QED
  BY <1>8 DEF Nth

LEMMA CountOfPlace ==
    ASSUME NEW N \in Nat, NEW P \in SUBSET (1..N), NEW i \in P
    PROVE  /\ Cardinality(UpTo(P, i)) \in 1..Cardinality(P)
           /\ Nth(P, Cardinality(UpTo(P, i))) = i
<1> DEFINE n == Cardinality(UpTo(P, i))
<1>1. n <= Cardinality(P) /\ Cardinality(P) \in Nat /\ n \in Nat
  BY CountedPlaces
<1>2. n # 0
  <2>1. i \in UpTo(P, i)
    BY DEF UpTo
  <2>2. IsFiniteSet(UpTo(P, i))
    BY CountedPlaces
  <2> QED
    BY <2>1, <2>2, FS_EmptySet
<1>3. n \in 1..Cardinality(P)
  BY <1>1, <1>2
<1> DEFINE k == Nth(P, n)
<1> HIDE DEF n
<1>4. k \in P /\ Cardinality(UpTo(P, k)) = n
  BY <1>3, NthPlace
<1> HIDE DEF k
<1>5. ~(i < k) /\ ~(k < i)
  BY <1>1, <1>4, CountGrows DEF n
<1>6. i = k
  BY <1>4, <1>5
<1> QED
  BY <1>3, <1>6 DEF k, n

(* What is put at the end of a queue comes after the words that are there. *)
LEMMA NthStays ==
    ASSUME NEW M \in Nat, NEW Q \in SUBSET (1..M), NEW N \in 0..M, NEW P,
           \A i : i \in P <=> i \in Q /\ i <= N
    PROVE  /\ Cardinality(P) <= Cardinality(Q)
           /\ \A n \in 1..Cardinality(P) : n \in 1..Cardinality(Q) /\ Nth(Q, n) = Nth(P, n)
<1>0. \A j \in Q : j \in Nat /\ j <= M /\ j >= 1
  OBVIOUS
<1>1. P \in SUBSET (1..N) /\ P \in SUBSET Q /\ N \in Nat
  <2>1. N \in Nat
    OBVIOUS
  <2>2. \A j \in P : j \in Q /\ j <= N
    OBVIOUS
  <2>3. ASSUME NEW j \in P PROVE j \in 1..N
    <3>1. j \in Q /\ j <= N
      BY <2>2
    <3>2. j \in Nat /\ j >= 1
      BY <1>0, <3>1
    <3> QED
      BY <2>1, <3>1, <3>2
  <2> QED
    BY <2>1, <2>2, <2>3
<1>2. Cardinality(P) <= Cardinality(Q)
  BY <1>1, CountedPlaces, FS_Subset
<1>3. ASSUME NEW n \in 1..Cardinality(P)
      PROVE  n \in 1..Cardinality(Q) /\ Nth(Q, n) = Nth(P, n)
  <2> DEFINE i == Nth(P, n)
  <2>1. i \in P /\ Cardinality(UpTo(P, i)) = n
    BY <1>1, NthPlace
  <2> HIDE DEF i
  <2>2. UpTo(Q, i) = UpTo(P, i)
    <3>1. i \in Nat /\ i <= N
      BY <1>1, <2>1
    <3>2. \A j \in Q : j <= i => j <= N
      BY <1>0, <1>1, <3>1
    <3> QED
      BY <3>2 DEF UpTo
  <2>3. i \in Q /\ n \in Nat
    BY <1>1, <2>1
  <2>4. n \in 1..Cardinality(Q) /\ Nth(Q, n) = i
    BY <2>1, <2>2, <2>3, CountOfPlace
  <2> QED
    BY <2>4 DEF i
<1> QED
  BY <1>2, <1>3

(* What is taken from the front moves the others.                          *)
Moved(Q, m) == {i + m : i \in Q}

(* The places of a queue, from what is taken and what is left of it: m are *)
(* taken, of which the last is a word, or none is.                         *)
Split(P, Q, m, z) ==
    /\ \A i : i \in P <=> (i = m /\ z = 1) \/ i \in Moved(Q, m)
    /\ z \in {0, 1} /\ (m = 0 => z = 0)
    /\ \E M \in Nat : Q \in SUBSET (1..M)

LEMMA MovedCounts ==
    ASSUME NEW M \in Nat, NEW Q \in SUBSET (1..M), NEW m \in Nat
    PROVE  IsFiniteSet(Moved(Q, m)) /\ Cardinality(Moved(Q, m)) = Cardinality(Q)
<1> DEFINE f == [i \in Q |-> i + m]
<1>1. f \in [Q -> Moved(Q, m)]
  BY DEF Moved
<1>2. \A i, k \in Q : f[i] = f[k] => i = k
  OBVIOUS
<1>3. \A j \in Moved(Q, m) : \E i \in Q : f[i] = j
  BY DEF Moved
<1>4. f \in Bijection(Q, Moved(Q, m))
  BY <1>1, <1>2, <1>3 DEF Bijection, Injection, Surjection, IsInjective
<1>5. ExistsBijection(Q, Moved(Q, m))
  BY <1>4 DEF ExistsBijection
<1>6. IsFiniteSet(Q)
  BY CountedPlaces
<1> QED
  BY <1>5, <1>6, FS_Bijection

LEMMA NthMoves ==
    ASSUME NEW Q, NEW m \in Nat, NEW P, NEW z, Split(P, Q, m, z)
    PROVE  /\ Cardinality(P) = Cardinality(Q) + z
           /\ \A n \in 1..Cardinality(Q) : Nth(P, n + z) = Nth(Q, n) + m
           /\ z = 1 => Nth(P, 1) = m
<1>0. PICK M \in Nat : Q \in SUBSET (1..M)
  BY DEF Split
<1> DEFINE top == M + m
           Z == IF z = 1 THEN {m} ELSE {}
<1>1. /\ P = Z \cup Moved(Q, m) /\ z \in {0, 1} /\ (m = 0 => z = 0)
  BY DEF Split
<1>2. \A j \in Q : j \in 1..M /\ j + m \in 1..(M + m)
  BY <1>0
<1>3. P \in SUBSET (1..top) /\ top \in Nat /\ z \in Nat
  <2>1. Moved(Q, m) \subseteq 1..(M + m)
    BY <1>2 DEF Moved
  <2>2. Z \subseteq 1..(M + m)
    BY <1>1
  <2>3. P \in SUBSET (1..top)
    BY <1>1, <2>1, <2>2
  <2> QED
    BY <1>1, <2>3
<1> HIDE DEF top
<1>4. ASSUME NEW R \in SUBSET Q
      PROVE  Cardinality(Z \cup Moved(R, m)) = Cardinality(R) + z /\ Cardinality(R) \in Nat
  <2>1. R \in SUBSET (1..M) /\ m \notin Moved(R, m)
    BY <1>0 DEF Moved
  <2>2. /\ IsFiniteSet(Moved(R, m)) /\ Cardinality(Moved(R, m)) = Cardinality(R)
        /\ Cardinality(R) \in Nat
    BY <2>1, MovedCounts, CountedPlaces
  <2>3. CASE z = 1
    <3>1. Z \cup Moved(R, m) = Moved(R, m) \cup {m}
      BY <2>3
    <3>2. Cardinality(Moved(R, m) \cup {m}) = Cardinality(Moved(R, m)) + 1
      BY <2>1, <2>2, FS_AddElement
    <3> QED
      BY <2>2, <2>3, <3>1, <3>2
  <2>4. CASE z = 0
    <3>1. Z \cup Moved(R, m) = Moved(R, m)
      BY <2>4
    <3> QED
      BY <2>2, <2>4, <3>1
  <2> QED
    BY <1>1, <2>3, <2>4
<1>5. Cardinality(P) = Cardinality(Q) + z
  BY <1>1, <1>4
<1>6. /\ \A j \in P : j \in Z \/ j \in Moved(Q, m)
      /\ \A j \in Moved(Q, m) : j \in P /\ ~(j <= m)
      /\ \A j \in Z : j \in P /\ j = m
  <2>1. \A j \in Moved(Q, m) : ~(j <= m)
    BY <1>2 DEF Moved
  <2> QED
    BY <1>1, <2>1
<1>7. ASSUME NEW n \in 1..Cardinality(Q)
      PROVE  Nth(P, n + z) = Nth(Q, n) + m
  <2> DEFINE i == Nth(Q, n)
             R == UpTo(Q, i)
             there == i + m
             count == n + z
  <2>1. i \in Q /\ Cardinality(R) = n
    BY <1>0, NthPlace
  <2> HIDE DEF i
  <2>2. R \in SUBSET Q
    BY DEF UpTo
  <2>3. UpTo(P, there) = Z \cup Moved(R, m)
    <3>0. i \in Nat /\ \A j \in Q : j \in Nat
      BY <1>0, <2>1
    <3>1. \A j \in Z : j <= there
      BY <1>6, <3>0
    <3>2. \A j \in Moved(Q, m) : j <= there <=> j \in Moved(R, m)
      BY <3>0 DEF Moved, UpTo
    <3>3. Moved(R, m) \subseteq Moved(Q, m)
      BY <2>2 DEF Moved
    <3> HIDE DEF R, there, Z
    <3> QED
      BY <1>6, <3>1, <3>2, <3>3 DEF UpTo
  <2> HIDE DEF R
  <2>4. Cardinality(UpTo(P, there)) = count
    BY <1>4, <2>1, <2>2, <2>3
  <2>5. there \in P /\ count \in Nat
    BY <1>1, <1>3, <2>1 DEF Moved
  <2> HIDE DEF there, count
  <2>6. Nth(P, count) = there
    BY <1>3, <2>4, <2>5, CountOfPlace
  <2> QED
    BY <2>6 DEF i, there, count
<1>8. ASSUME z = 1 PROVE Nth(P, 1) = m
  <2> DEFINE none == {}
  <2>1. none \in SUBSET Q /\ Cardinality(none) = 0
    BY FS_EmptySet
  <2>2. UpTo(P, m) = Z \cup Moved(none, m)
    <3>1. Moved(none, m) = {}
      BY DEF Moved
    <3>2. \A j \in Z : j <= m
      BY <1>6
    <3> HIDE DEF Z
    <3> QED
      BY <1>6, <3>1, <3>2 DEF UpTo
  <2> HIDE DEF none
  <2>3. Cardinality(UpTo(P, m)) = 1
    BY <1>4, <1>8, <2>1, <2>2
  <2>4. m \in P
    BY <1>1, <1>8
  <2> QED
    BY <1>3, <2>3, <2>4, CountOfPlace
<1> QED
  BY <1>5, <1>7, <1>8

(* The words of a queue.                                                   *)
LEMMA TalkTyped ==
    ASSUME NEW q \in Seq(Downs)
    PROVE  /\ Places(q) \in SUBSET (1..Len(q)) /\ Len(q) \in Nat
           /\ Talk(q) \in Seq(Downs) /\ Len(Talk(q)) = Cardinality(Places(q))
           /\ Cardinality(Places(q)) \in Nat
           /\ \A n \in 1..Cardinality(Places(q)) : Talk(q)[n] = q[Nth(Places(q), n)]
<1>1. Places(q) \in SUBSET (1..Len(q)) /\ Len(q) \in Nat
  BY DEF Places
<1>2. Cardinality(Places(q)) \in Nat
  BY <1>1, CountedPlaces
<1>3. \A n \in 1..Cardinality(Places(q)) : q[Nth(Places(q), n)] \in Downs
  <2> SUFFICES ASSUME NEW n \in 1..Cardinality(Places(q))
               PROVE  q[Nth(Places(q), n)] \in Downs
    OBVIOUS
  <2>1. Nth(Places(q), n) \in Places(q)
    BY <1>1, NthPlace
  <2> QED
    BY <1>1, <2>1
<1>4. Talk(q) \in Seq(Downs) /\ Len(Talk(q)) = Cardinality(Places(q))
  BY <1>2, <1>3 DEF Talk
<1> QED
  BY <1>1, <1>2, <1>4 DEF Talk

LEMMA PrefixBy ==
    ASSUME NEW S, NEW s \in Seq(S), NEW t \in Seq(S), Len(s) <= Len(t),
           \A i \in 1..Len(s) : s[i] = t[i]
    PROVE  IsPrefix(s, t)
<1>1. Len(s) \in Nat /\ Len(t) \in Nat
  OBVIOUS
<1>2. SubSeq(s, 1, Len(s)) = SubSeq(t, 1, Len(s))
  <2> DEFINE a == SubSeq(s, 1, Len(s))
             b == SubSeq(t, 1, Len(s))
  <2>1. /\ a \in Seq(S) /\ Len(a) = Len(s)
        /\ \A i \in 1..Len(s) : a[i] = s[i]
    BY <1>1
  <2>2. /\ b \in Seq(S) /\ Len(b) = Len(s)
        /\ \A i \in 1..Len(s) : b[i] = t[i]
    BY <1>1
  <2> HIDE DEF a, b
  <2>3. \A i \in 1..Len(a) : a[i] = b[i]
    BY <2>1, <2>2
  <2>4. a = b
    BY <2>1, <2>2, <2>3, SeqEqual
  <2> QED
    BY <2>4 DEF a, b
<1> QED
  BY <1>2 DEF IsPrefix

LEMMA TalkGrows ==
    ASSUME NEW h \in Seq(Downs), NEW q \in Seq(Downs), NEW d, NEW r, Grows(q, r, d)
    PROVE  IsPrefix(h \o Talk(q), h \o Talk(r))
<1> DEFINE P == Places(q)
           Q == Places(r)
<1>1. /\ r \in Seq(Downs) /\ Len(q) \in 0..Len(r) /\ Len(r) \in Nat
      /\ Len(q) \in Nat
  BY DEF Grows
<1>2. \A i : i \in P <=> i \in Q /\ i <= Len(q)
  BY <1>1, SMTT(60) DEF Grows, Places
<1>3. P \in SUBSET (1..Len(q)) /\ Q \in SUBSET (1..Len(r))
  BY <1>1, TalkTyped
<1>4. /\ Talk(q) \in Seq(Downs) /\ Len(Talk(q)) = Cardinality(P)
      /\ \A n \in 1..Cardinality(P) : Talk(q)[n] = q[Nth(P, n)]
      /\ Talk(r) \in Seq(Downs) /\ Len(Talk(r)) = Cardinality(Q)
      /\ \A n \in 1..Cardinality(Q) : Talk(r)[n] = r[Nth(Q, n)]
      /\ Cardinality(P) \in Nat /\ Cardinality(Q) \in Nat
  BY <1>1, TalkTyped
<1> HIDE DEF P, Q
<1>5. /\ Cardinality(P) <= Cardinality(Q)
      /\ \A n \in 1..Cardinality(P) : n \in 1..Cardinality(Q) /\ Nth(Q, n) = Nth(P, n)
  BY <1>1, <1>2, <1>3, NthStays
<1>6. ASSUME NEW n \in 1..Cardinality(P) PROVE Talk(q)[n] = Talk(r)[n]
  <2>1. Nth(P, n) \in 1..Len(q)
    BY <1>1, <1>3, NthPlace
  <2>2. r[Nth(P, n)] = q[Nth(P, n)]
    BY <1>1, <2>1 DEF Grows
  <2> QED
    BY <1>4, <1>5, <2>2
<1> DEFINE s == Talk(q)
           t == Talk(r)
<1>7. s \in Seq(Downs) /\ t \in Seq(Downs) /\ Len(s) <= Len(t) /\ \A n \in 1..Len(s) : s[n] = t[n]
  BY <1>4, <1>5, <1>6
<1> HIDE DEF s, t
<1>8. IsPrefix(h \o s, h \o t)
  <2>1. /\ h \o s \in Seq(Downs) /\ h \o t \in Seq(Downs) /\ Len(h) \in Nat
        /\ Len(s) \in Nat /\ Len(t) \in Nat
        /\ Len(h \o s) = Len(h) + Len(s) /\ Len(h \o t) = Len(h) + Len(t)
    BY <1>7
  <2> DEFINE a == h \o s
             b == h \o t
  <2>2. /\ \A i \in 1..Len(a) : a[i] = IF i <= Len(h) THEN h[i] ELSE s[i - Len(h)]
        /\ \A i \in 1..Len(b) : b[i] = IF i <= Len(h) THEN h[i] ELSE t[i - Len(h)]
    BY <1>7, <2>1
  <2>3. /\ a \in Seq(Downs) /\ b \in Seq(Downs) /\ Len(a) <= Len(b)
        /\ Len(a) = Len(h) + Len(s) /\ Len(b) = Len(h) + Len(t)
    BY <1>7, <2>1
  <2> HIDE DEF a, b
  <2>4. ASSUME NEW i \in 1..Len(a) PROVE a[i] = b[i]
    <3>1. i \in 1..Len(b)
      BY <2>1, <2>3
    <3>2. ~(i <= Len(h)) => i - Len(h) \in 1..Len(s)
      BY <2>1, <2>3
    <3> QED
      BY <1>7, <2>2, <3>1, <3>2
  <2>5. IsPrefix(a, b)
    BY <2>3, <2>4, PrefixBy
  <2> QED
    BY <2>5 DEF a, b
<1> QED
  BY <1>8 DEF s, t

(* A frame hands on the first word of a queue, if it has come to it, and   *)
(* leaves the others as they are.                                          *)
LEMMA TalkTaken ==
    ASSUME NEW q \in Seq(Downs), NEW n \in 1..Len(q),
           \A i \in 1..(n - 1) : ~IsJson(q[i])
    PROVE  Talk(q) = (IF IsJson(q[n]) THEN <<q[n]>> ELSE <<>>) \o Talk(SubSeq(q, n + 1, Len(q)))
<1> DEFINE r == SubSeq(q, n + 1, Len(q))
           P == Places(q)
           Q == Places(r)
           z == IF IsJson(q[n]) THEN 1 ELSE 0
           first == IF IsJson(q[n]) THEN <<q[n]>> ELSE <<>>
<1>1. /\ r \in Seq(Downs) /\ Len(r) = Len(q) - n /\ Len(q) \in Nat /\ n \in Nat \ {0}
      /\ \A i \in 1..Len(r) : r[i] = q[n + i] /\ n + i \in 1..Len(q)
  BY Trimmed
<1> HIDE DEF r
<1>2. Split(P, Q, n, z)
  <2>1. DOMAIN q = 1..Len(q) /\ DOMAIN r = 1..Len(r)
    BY <1>1
  <2>2. ASSUME NEW i \in P PROVE (i = n /\ z = 1) \/ i \in Moved(Q, n)
    <3>1. i \in 1..Len(q) /\ IsJson(q[i]) /\ ~(i \in 1..(n - 1))
      BY <2>1 DEF Places
    <3>2. CASE i = n
      BY <3>1, <3>2
    <3>3. CASE i # n
      <4>1. i - n \in 1..Len(r) /\ n + (i - n) = i
        BY <1>1, <3>1, <3>3
      <4>2. r[i - n] = q[i]
        BY <1>1, <4>1
      <4>3. i - n \in Q
        BY <2>1, <3>1, <4>1, <4>2 DEF Places
      <4>4. i = (i - n) + n
        BY <3>1, <1>1
      <4> QED
        BY <4>3, <4>4 DEF Moved
    <3> QED
      BY <3>2, <3>3
  <2>3. z = 1 => n \in P
    BY <2>1 DEF Places
  <2>4. ASSUME NEW i \in Moved(Q, n) PROVE i \in P
    <3>1. PICK j \in Q : i = j + n
      BY DEF Moved
    <3>2. j \in 1..Len(r) /\ IsJson(r[j])
      BY <2>1 DEF Places
    <3>3. n + j \in 1..Len(q) /\ r[j] = q[n + j] /\ i = n + j
      BY <1>1, <3>1, <3>2
    <3> QED
      BY <2>1, <3>2, <3>3 DEF Places
  <2>5. z \in {0, 1} /\ n # 0 /\ Len(r) \in Nat /\ Q \in SUBSET (1..Len(r))
    BY <1>1, <2>1 DEF Places
  <2> HIDE DEF P, Q, z
  <2> QED
    BY <2>2, <2>3, <2>4, <2>5 DEF Split
<1>3. /\ P \in SUBSET (1..Len(q)) /\ Q \in SUBSET (1..Len(r)) /\ Len(r) \in Nat
      /\ Cardinality(P) \in Nat /\ Cardinality(Q) \in Nat
      /\ Talk(q) \in Seq(Downs) /\ Len(Talk(q)) = Cardinality(P)
      /\ \A k \in 1..Cardinality(P) : Talk(q)[k] = q[Nth(P, k)]
      /\ Talk(r) \in Seq(Downs) /\ Len(Talk(r)) = Cardinality(Q)
      /\ \A k \in 1..Cardinality(Q) : Talk(r)[k] = r[Nth(Q, k)]
  BY <1>1, TalkTyped
<1>4. /\ first \in Seq(Downs) /\ Len(first) = z /\ z \in {0, 1}
      /\ z = 1 => first[1] = q[n]
  OBVIOUS
<1> HIDE DEF P, Q, z, first
<1>5. /\ Cardinality(P) = Cardinality(Q) + z
      /\ \A k \in 1..Cardinality(Q) : Nth(P, k + z) = Nth(Q, k) + n
      /\ z = 1 => Nth(P, 1) = n
  BY <1>2, NthMoves
<1> DEFINE a == Talk(q)
           b == Talk(r)
<1>8. ASSUME NEW k \in 1..Cardinality(Q) PROVE a[k + z] = b[k]
  <2>1. k + z \in 1..Cardinality(P)
    BY <1>3, <1>5, <1>4, SMTT(60)
  <2>2. Nth(Q, k) \in 1..Len(r)
    BY <1>3, NthPlace
  <2>3. r[Nth(Q, k)] = q[n + Nth(Q, k)] /\ n + Nth(Q, k) = Nth(Q, k) + n
    BY <1>1, <2>2
  <2> QED
    BY <1>3, <1>5, <2>1, <2>3
<1>9. z = 1 => a[1] = first[1]
  <2> SUFFICES ASSUME z = 1 PROVE a[1] = first[1]
    OBVIOUS
  <2>1. 1 \in 1..Cardinality(P)
    BY <1>3, <1>5
  <2> QED
    BY <1>3, <1>4, <1>5, <2>1
<1>10. /\ a \in Seq(Downs) /\ b \in Seq(Downs) /\ Len(a) = Len(b) + z /\ Len(b) = Cardinality(Q)
       /\ Len(b) \in Nat
  BY <1>3, <1>5
<1> HIDE DEF a, b
<1>11. /\ first \o b \in Seq(Downs) /\ Len(first \o b) = Len(a)
       /\ \A i \in 1..Len(a) : (first \o b)[i] = IF i <= z THEN first[i] ELSE b[i - z]
  BY <1>4, <1>10
<1>12. ASSUME NEW i \in 1..Len(a) PROVE a[i] = (first \o b)[i]
  <2>1. CASE i <= z
    <3>1. z = 1 /\ i = 1
      BY <1>4, <2>1
    <3> QED
      BY <1>9, <1>11, <3>1
  <2>2. CASE ~(i <= z)
    <3>1. i - z \in 1..Cardinality(Q) /\ (i - z) + z = i
      BY <1>4, <1>10, <2>2
    <3>2. a[i] = b[i - z]
      BY <1>8, <3>1
    <3> QED
      BY <1>11, <2>2, <3>2
  <2> QED
    BY <2>1, <2>2
<1>13. a = first \o b
  BY <1>10, <1>11, <1>12, SeqEqual
<1> QED
  BY <1>13 DEF a, b, first, r

(* What a frame passes over are positions.                                 *)
LEMMA FetchedPasses ==
    ASSUME RelayTyped, NEW u \in Users, NEW now \in 1..Len(queue[u]),
           NEW later \in now..Len(queue[u]), NEW i \in 1..(Fetched(u, now, later) - 1)
    PROVE  ~IsJson(queue[u][i])
<1> DEFINE s == SubSeq(queue[u], 1, later)
           others == {k \in DOMAIN s : ~IsPosition(s[k])}
<1>1. queue[u] \in Seq(Downs) /\ Len(queue[u]) \in Nat
  BY DEF RelayTyped
<1>2. Len(s) = later /\ DOMAIN s = 1..later /\ later \in 1..Len(queue[u])
  BY <1>1
<1>3. \A k \in 1..later : s[k] = queue[u][k]
  BY <1>1, <1>2
<1>4. Fetched(u, now, later) = Skipped(s)
  BY DEF Fetched
<1>5. i \in 1..later /\ i \notin others
  <2>1. CASE others = {}
    <3>1. Skipped(s) = later
      BY <1>2, <2>1 DEF Skipped
    <3> HIDE DEF s
    <3>2. i \in 1..(later - 1) /\ later \in Nat
      BY <1>2, <1>4, <3>1
    <3> QED
      BY <2>1, <3>2
  <2>2. CASE others # {}
    <3>1. Skipped(s) = CHOOSE k \in others : \A j \in others : k <= j
      BY <2>2 DEF Skipped
    <3>2. others \in SUBSET Nat
      BY <1>2
    <3>3. \E k \in others : \A j \in others : k <= j
      BY <2>2, <3>2, LeastOf
    <3>4. others \subseteq 1..later
      BY <1>2
    <3> HIDE DEF others, s
    <3>5. Skipped(s) \in 1..later /\ \A j \in others : Skipped(s) <= j
      BY <3>1, <3>3, <3>4
    <3> QED
      BY <1>2, <1>4, <3>4, <3>5
  <2> QED
    BY <2>1, <2>2
<1>6. IsPosition(s[i])
  BY <1>2, <1>5
<1>7. IsPosition(queue[u][i])
  BY <1>3, <1>5, <1>6
<1> QED
  BY <1>7 DEF IsPosition, IsJson

LEMMA HandledGrows ==
    ASSUME RelayInv, NEW u \in Users, ServerHandles(u), NEW w \in Users
    PROVE  queue'[w] = queue[w] \/ \E d : Grows(queue[w], queue'[w], d)
<1> DEFINE c == Head(up[u])
<1>1. /\ RelayTyped /\ up[u] # <<>> /\ room \in [Users -> Rooms]
      /\ up[u] \in Seq(Ups)
  BY DEF ServerHandles, RelayInv, RelayTyped
<1>2. c \in Ups
  BY <1>1, Tailed
<1>3. /\ c.kind = "json" => ServerReceiveJSON(u, c)
      /\ c.kind = "position" => ServerUpdatePlayerPosition(u, c)
      /\ c.kind = "channel" => SetChannel(u, c)
  BY DEF ServerHandles
<1>4. CASE c.kind = "json"
  <2> DEFINE d == [kind |-> "json", from |-> u, number |-> c.number, private |-> c.private,
                   spoken |-> c.spoken, in |-> room[u]]
  <2>1. c \in UpWords
    BY <1>2, <1>4, UpKinds
  <2>2. c.number \in Nat /\ c.private \in Lines /\ c.spoken \in Rooms
    BY <2>1 DEF UpWords
  <2>3. d \in Downs
    BY <1>1, <2>2 DEF Downs, DownWords
  <2>4. \/ Deliver(SendAll(FALSE, room[u]), d)
        \/ DeliverList(c.private, d)
    BY <1>3, <1>4 DEF ServerReceiveJSON
  <2> HIDE DEF d
  <2>5. Grows(queue[w], queue'[w], d)
    BY <1>1, <2>2, <2>3, <2>4, Delivered, ListDelivered
  <2> QED
    BY <2>5
<1>5. CASE c.kind = "position"
  <2> DEFINE d == [kind |-> "position", from |-> u, number |-> c.number]
  <2>1. d \in Downs
    BY <1>2, <1>5, UpKinds DEF Downs, DownPositions
  <2>2. PICK busy \in SUBSET (Users \ {u}) : Deliver(SendOthers(u, room[u], busy), d)
    BY <1>3, <1>5 DEF ServerUpdatePlayerPosition
  <2> HIDE DEF d
  <2>3. Grows(queue[w], queue'[w], d)
    BY <1>1, <2>1, <2>2, Delivered
  <2> QED
    BY <2>3
<1>6. CASE c.kind = "channel"
  <2> DEFINE d == [kind |-> "notify", from |-> u]
  <2>1. d \in Downs
    BY DEF Downs, DownNotes
  <2>2. queue' = queue \/ Deliver(SendAll(TRUE, 0), d)
    BY <1>3, <1>6 DEF SetChannel
  <2> HIDE DEF d
  <2>3. queue'[w] = queue[w] \/ Grows(queue[w], queue'[w], d)
    BY <1>1, <2>1, <2>2, Delivered
  <2> QED
    BY <2>3
<1> QED
  BY <1>2, <1>4, <1>5, <1>6, UpKinds

LEMMA FrameHandsOn ==
    ASSUME RelayInv, NEW u \in Users, Frame(u), NEW w \in Users
    PROVE  heard'[w] \o Talk(queue'[w]) = heard[w] \o Talk(queue[w])
<1>0. PICK now \in 1..Len(queue[u]) : \E later \in now..Len(queue[u]) :
         LET n == Fetched(u, now, later)
             c == queue[u][n]
         IN  /\ queue' = [queue EXCEPT ![u] = SubSeq(@, n + 1, Len(@))]
             /\ heard' = IF IsJson(c) THEN [heard EXCEPT ![u] = Append(@, c)] ELSE heard
  BY DEF Frame
<1>1. PICK later \in now..Len(queue[u]) :
         LET n == Fetched(u, now, later)
             c == queue[u][n]
         IN  /\ queue' = [queue EXCEPT ![u] = SubSeq(@, n + 1, Len(@))]
             /\ heard' = IF IsJson(c) THEN [heard EXCEPT ![u] = Append(@, c)] ELSE heard
  BY <1>0
<1> DEFINE n == Fetched(u, now, later)
           q == queue[u]
           r == SubSeq(q, n + 1, Len(q))
           h == heard[u]
           first == IF IsJson(q[n]) THEN <<q[n]>> ELSE <<>>
<1>2. /\ RelayTyped /\ queue \in [Users -> Seq(Downs)] /\ heard \in [Users -> Seq(DownWords)]
      /\ DownWords \subseteq Downs
  BY DEF RelayInv, RelayTyped, Downs
<1>3. /\ n \in 1..Len(q) /\ \A i \in 1..(n - 1) : ~IsJson(q[i])
  BY <1>2, FetchedSome, FetchedPasses
<1>4. /\ queue' = [queue EXCEPT ![u] = r]
      /\ heard' = IF IsJson(q[n]) THEN [heard EXCEPT ![u] = Append(h, q[n])] ELSE heard
  BY <1>1
<1>5. q \in Seq(Downs) /\ h \in Seq(Downs)
  BY <1>2
<1> HIDE DEF n, h
<1>6. Talk(q) = first \o Talk(r)
  BY <1>3, <1>5, TalkTaken
<1>7. r \in Seq(Downs) /\ q[n] \in Downs
  BY <1>3, <1>5, Trimmed
<1> HIDE DEF q, r
<1>8. CASE w # u
  BY <1>2, <1>4, <1>8
<1>9. CASE w = u
  <2>1. queue'[u] = r
    BY <1>2, <1>4
  <2>2. heard'[u] = h \o first
    <3>1. CASE IsJson(q[n])
      <4>1. heard'[u] = Append(h, q[n])
        BY <1>2, <1>4, <3>1
      <4>2. Append(h, q[n]) = h \o <<q[n]>>
        BY <1>5, <1>7
      <4> QED
        BY <3>1, <4>1, <4>2
    <3>2. CASE ~IsJson(q[n])
      <4>1. heard'[u] = h
        BY <1>4, <3>2 DEF h
      <4>2. h \o <<>> = h
        BY <1>5
      <4> QED
        BY <3>2, <4>1, <4>2
    <3> QED
      BY <3>1, <3>2
  <2>3. first \in Seq(Downs) /\ Talk(r) \in Seq(Downs)
    BY <1>7, TalkTyped
  <2> DEFINE t == Talk(r)
  <2> HIDE DEF first, t
  <2>4. (h \o first) \o t = h \o (first \o t)
    BY <1>5, <2>3, ConcatAssociative, SMTT(60) DEF t
  <2> QED
    BY <1>6, <1>9, <2>1, <2>2, <2>4 DEF t, h, q
<1> QED
  BY <1>8, <1>9

(* However many commands wait for a client and however it catches up with  *)
(* them: of the words the server sends it none is lost, repeated or        *)
(* overtaken before the plugins have it (client/CommandManager.cpp:13-72,  *)
(* client/Client.cpp:107-134).                                             *)
THEOREM WordsAreKept == RelaySpec => WordsKept
<1>1. RelaySpec => []RelayInv
  BY RelayInitially, RelayStep, PTL DEF RelaySpec
<1>2. ASSUME RelayInv, [RelayNext]_relayVars
      PROVE  [\A u \in Users : IsPrefix(Chat(u), Chat(u)')]_relayVars
  <2> SUFFICES ASSUME NEW w \in Users, ~UNCHANGED relayVars
               PROVE  IsPrefix(heard[w] \o Talk(queue[w]), heard'[w] \o Talk(queue'[w]))
    BY DEF Chat
  <2>1. /\ queue[w] \in Seq(Downs) /\ heard[w] \in Seq(DownWords) /\ DownWords \subseteq Downs
    BY <1>2 DEF RelayInv, RelayTyped, Downs
  <2> DEFINE chat == heard[w] \o Talk(queue[w])
  <2>2. heard[w] \in Seq(Downs) /\ chat \in Seq(Downs)
    BY <2>1, TalkTyped
  <2> HIDE DEF chat
  <2>3. IsPrefix(chat, chat)
    BY <2>2, PrefixBy
  <2>4. CASE heard'[w] \o Talk(queue'[w]) = chat
    BY <2>3, <2>4 DEF chat
  <2>5. ASSUME NEW u \in Users, ServerHandles(u)
        PROVE  IsPrefix(heard[w] \o Talk(queue[w]), heard'[w] \o Talk(queue'[w]))
    <3>1. heard' = heard
      BY <2>5 DEF ServerHandles
    <3>2. queue'[w] = queue[w] \/ \E d : Grows(queue[w], queue'[w], d)
      BY <1>2, <2>5, HandledGrows
    <3>3. CASE queue'[w] = queue[w]
      BY <2>3, <3>1, <3>3 DEF chat
    <3>4. ASSUME NEW d, Grows(queue[w], queue'[w], d)
          PROVE  IsPrefix(heard[w] \o Talk(queue[w]), heard'[w] \o Talk(queue'[w]))
      BY <2>1, <2>2, <3>1, <3>4, TalkGrows
    <3> QED
      BY <3>2, <3>3, <3>4
  <2>6. ASSUME NEW u \in Users, Frame(u)
        PROVE  heard'[w] \o Talk(queue'[w]) = chat
    BY <1>2, <2>6, FrameHandsOn DEF chat
  <2>7. ASSUME NEW u \in Users,
               Register(u) \/ SendPosition(u) \/ SendJSON(u) \/ Warp(u) \/ ChangeChannel(u)
        PROVE  heard'[w] \o Talk(queue'[w]) = chat
    BY <2>7 DEF Register, SendPosition, SendJSON, Warp, ChangeChannel, chat
  <2> QED
    BY <1>2, <2>4, <2>5, <2>6, <2>7 DEF RelayNext
<1> QED
  BY <1>1, <1>2, PTL DEF RelaySpec, WordsKept

-----------------------------------------------------------------------------
(* Walking, on a stage of any shape and with frames of any length.         *)

Motion == {"stand", "walk", "run"}
Walker == [x : Int, y : Int, vx : Int, vy : Int, acc : Int, walking : BOOLEAN, motion : Motion]

(* On the ground: on its floor, and without a speed up or down.            *)
Signs == {-1, 0, 1}

OnGround(p) == p.acc = 0 => p.x \in DOMAIN Floor /\ p.y = Floor[p.x] /\ p.vy = 0

WalkInv == me \in Walker /\ fell \in BOOLEAN /\ OnGround(me)

LEMMA StageFacts ==
    /\ DOMAIN Floor \subseteq Int /\ \A x \in DOMAIN Floor : Floor[x] \in Int
    /\ \A x \in DOMAIN Ceiling : Ceiling[x] \in Int
    /\ Deltas \subseteq Nat /\ Tall \in Nat /\ Reach \in Nat /\ StepHigh \in Nat /\ Depth \in Nat
    /\ Light \in Nat \ {0} /\ Gravity \in Light..Heavy /\ Heavy \in Nat /\ Jump \in Int
    /\ WalkSpeed \in Nat /\ RunSpeed \in Nat /\ AirSpeed \in Nat /\ AirAcc \in Nat
    /\ Starts \subseteq DOMAIN Floor /\ Destination \in DOMAIN Floor
  BY WalkAssumption

(* Where a step on the ground leads.                                       *)
LEMMA WalkedKeeps ==
    ASSUME NEW p \in Walker, NEW q \in Walker, OnGround(p), p.acc = 0, q.acc = 0, q.vy = 0,
           q.x \in DOMAIN Floor
    PROVE  Walked(p, q) \in Walker /\ OnGround(Walked(p, q)) /\ Above(Walked(p, q))
<1> DEFINE r == Walked(p, q)
           rise == Floor[q.x] - q.y
<1>1. p.x \in DOMAIN Floor /\ p.y = Floor[p.x] /\ q.x \in Int /\ q.y \in Int /\ Floor[q.x] \in Int
  BY StageFacts DEF OnGround, Walker
<1>2. \/ r = [q EXCEPT !.y = Floor[q.x]]
      \/ rise < 0 /\ r = [q EXCEPT !.acc = Gravity]
      \/ r = [q EXCEPT !.x = p.x, !.y = p.y]
  BY DEF Walked
<1> HIDE DEF r
<1>3. CASE r = [q EXCEPT !.y = Floor[q.x]]
  <2>1. r \in Walker /\ r.x = q.x /\ r.y = Floor[q.x] /\ r.vy = 0
    BY <1>1, <1>3 DEF Walker
  <2> QED
    BY <1>1, <2>1 DEF OnGround, Above, r
<1>4. CASE rise < 0 /\ r = [q EXCEPT !.acc = Gravity]
  <2>1. r \in Walker /\ r.x = q.x /\ r.y = q.y /\ r.acc # 0
    BY <1>1, <1>4, StageFacts DEF Walker
  <2>2. Floor[q.x] <= q.y
    BY <1>1, <1>4
  <2> QED
    BY <1>1, <2>1, <2>2 DEF OnGround, Above, r
<1>5. CASE r = [q EXCEPT !.x = p.x, !.y = p.y]
  <2>1. r \in Walker /\ r.x = p.x /\ r.y = Floor[p.x] /\ r.vy = 0
    BY <1>1, <1>5 DEF Walker
  <2> QED
    BY <1>1, <2>1, StageFacts DEF OnGround, Above, r
<1> QED
  BY <1>2, <1>3, <1>4, <1>5

(* A fall that is not too long ends above the floor or on it.              *)
LEMMA FallenKeeps ==
    ASSUME NEW q \in Walker, q.acc # 0
    PROVE  /\ Fallen(q) \in Walker /\ OnGround(Fallen(q))
           /\ q.x \in DOMAIN Floor /\ Floor[q.x] <= q.y + Reach => Above(Fallen(q))
           /\ q.x \notin DOMAIN Floor => Above(Fallen(q))
           /\ Fallen(q).y >= q.y
<1> DEFINE r == Fallen(q)
<1>1. q.x \in Int /\ q.y \in Int
  BY DEF Walker
<1>2. CASE FloorExists(q.x, q.y, 0)
  <2>1. q.x \in DOMAIN Floor /\ Floor[q.x] \in Int /\ Floor[q.x] >= q.y
    BY <1>1, <1>2, StageFacts DEF FloorExists
  <2> DEFINE none == 0
  <2>2. r = [q EXCEPT !.y = Floor[q.x], !.acc = none, !.vy = none] /\ none \in Int
    BY <1>2 DEF Fallen
  <2> HIDE DEF r, none
  <2>3. r \in Walker /\ r.x = q.x /\ r.y = Floor[q.x] /\ r.vy = none
    BY <2>1, <2>2 DEF Walker
  <2>4. r.vy = 0
    BY <2>3 DEF none
  <2> QED
    BY <1>1, <2>1, <2>3, <2>4 DEF OnGround, Above, r
<1>3. CASE ~FloorExists(q.x, q.y, 0)
  <2>1. r = q
    BY <1>3 DEF Fallen
  <2>2. q.x \in DOMAIN Floor /\ Floor[q.x] <= q.y + Reach => Floor[q.x] <= q.y
    BY <1>1, <1>3, StageFacts DEF FloorExists
  <2> QED
    BY <1>1, <2>1, <2>2 DEF OnGround, Above
<1> QED
  BY <1>2, <1>3

LEMMA RisenKeeps ==
    ASSUME NEW p \in Walker, NEW q \in Walker, q.acc # 0, p.y <= q.y
    PROVE  Risen(p, q) \in Walker /\ OnGround(Risen(p, q)) /\ Risen(p, q).y >= p.y
<1> DEFINE r == Risen(p, q)
<1>1. p.y \in Int /\ q.y \in Int /\ p.vy \in Int
  BY DEF Walker
<1>2. CASE q.x \in DOMAIN Ceiling /\ Ceiling[q.x] \in (p.y + Tall)..(q.y + Tall)
  <2>1. r = [q EXCEPT !.y = Ceiling[q.x] - Tall, !.vy = -p.vy]
    BY <1>2 DEF Risen
  <2>2. Ceiling[q.x] - Tall \in Int /\ Ceiling[q.x] - Tall >= p.y /\ -p.vy \in Int
    BY <1>1, <1>2, StageFacts
  <2> HIDE DEF r
  <2>3. r \in Walker /\ r.acc # 0 /\ r.y >= p.y
    BY <2>1, <2>2 DEF Walker
  <2> QED
    BY <2>3 DEF OnGround, r
<1>3. CASE ~(q.x \in DOMAIN Ceiling /\ Ceiling[q.x] \in (p.y + Tall)..(q.y + Tall))
  <2>1. r = q
    BY <1>3 DEF Risen
  <2> QED
    BY <2>1 DEF OnGround
<1> QED
  BY <1>2, <1>3

(* A frame of Move.  Who stood before is above a floor after it; who was   *)
(* in the air and above one is, unless he has fallen by more than Reach.   *)
LEMMA MoveKeeps ==
    ASSUME NEW p \in Walker, OnGround(p), NEW dt \in Deltas
    PROVE  /\ Move(p, dt) \in Walker /\ OnGround(Move(p, dt))
           /\ p.acc = 0 => Above(Move(p, dt))
           /\ Above(p) /\ Move(p, dt).y \in (p.y - Reach)..(p.y - 1) => Above(Move(p, dt))
<1> DEFINE free == [p EXCEPT !.x = @ + p.vx * dt, !.y = @ + p.vy * dt, !.vy = @ - p.acc * dt]
           slid == IF ~FrontCollides(p, free.x - p.x) THEN free
                   ELSE IF p.acc = 0 THEN [free EXCEPT !.x = p.x, !.y = p.y, !.vx = 0]
                   ELSE [free EXCEPT !.x = p.x, !.vx = 0]
           kept == IF FloorExists(slid.x, slid.y, Depth) THEN slid
                   ELSE [slid EXCEPT !.x = p.x, !.vx = 0]
           moved == IF kept.x = p.x /\ kept.y = p.y THEN kept
                    ELSE IF p.acc = 0 THEN Walked(p, kept)
                    ELSE IF kept.y <= p.y THEN Fallen(kept) ELSE Risen(p, kept)
           last == IF moved.acc = 0 THEN [moved EXCEPT !.vx = 0, !.vy = 0] ELSE moved
<1>1. Move(p, dt) = last
  BY DEF Move
<1>2. /\ p.x \in Int /\ p.y \in Int /\ p.vx \in Int /\ p.vy \in Int /\ p.acc \in Int
      /\ dt \in Int
  BY StageFacts DEF Walker
<1>3. p.vx * dt \in Int /\ p.vy * dt \in Int /\ p.acc * dt \in Int
  BY <1>2
<1>4. p.acc = 0 => p.vy * dt = 0 /\ p.acc * dt = 0
  BY <1>2 DEF OnGround
<1>5. /\ free \in Walker /\ free.acc = p.acc /\ free.y = p.y + p.vy * dt
      /\ p.acc = 0 => free.vy = 0 /\ free.y = p.y
  <2> DEFINE x == p.x + p.vx * dt
             y == p.y + p.vy * dt
             v == p.vy - p.acc * dt
  <2>1. x \in Int /\ y \in Int /\ v \in Int /\ (p.acc = 0 => v = 0 /\ y = p.y)
    <3> DEFINE dx == p.vx * dt
               dy == p.vy * dt
               dv == p.acc * dt
    <3>1. dx \in Int /\ dy \in Int /\ dv \in Int /\ (p.acc = 0 => dy = 0 /\ dv = 0)
      BY <1>3, <1>4
    <3>2. p.acc = 0 => p.vy = 0
      BY DEF OnGround
    <3> HIDE DEF dx, dy, dv
    <3> QED
      BY <1>2, <3>1, <3>2
  <2>2. free = [p EXCEPT !.x = x, !.y = y, !.vy = v] /\ y = p.y + p.vy * dt
    BY DEF Walker
  <2> HIDE DEF x, y, v, free
  <2>3. free \in Walker /\ free.acc = p.acc /\ free.y = y /\ free.vy = v
    BY <2>1, <2>2 DEF Walker
  <2> QED
    BY <2>1, <2>2, <2>3
<1> HIDE DEF free
<1>6. /\ slid \in Walker /\ slid.acc = p.acc /\ slid.x \in {free.x, p.x}
      /\ p.acc = 0 => slid.vy = 0 /\ slid.y = p.y
  <2> DEFINE none == 0
  <2>1. \/ slid = free
        \/ p.acc = 0 /\ slid = [free EXCEPT !.x = p.x, !.y = p.y, !.vx = none]
        \/ p.acc # 0 /\ slid = [free EXCEPT !.x = p.x, !.vx = none]
    OBVIOUS
  <2>2. none \in Int
    OBVIOUS
  <2> HIDE DEF slid, none
  <2> QED
    BY <1>2, <1>5, <2>1, <2>2 DEF Walker
<1> HIDE DEF slid
<1>7. /\ kept \in Walker /\ kept.acc = p.acc /\ kept.y = slid.y
      /\ p.acc = 0 => kept.vy = 0 /\ kept.y = p.y
      /\ \/ kept.x = p.x
         \/ kept.x \in DOMAIN Floor /\ Floor[kept.x] <= kept.y + Reach
  <2>1. CASE FloorExists(slid.x, slid.y, Depth)
    BY <1>6, <2>1, StageFacts DEF FloorExists, Walker
  <2>2. CASE ~FloorExists(slid.x, slid.y, Depth)
    <3> DEFINE none == 0
    <3>1. kept = [slid EXCEPT !.x = p.x, !.vx = none] /\ none \in Int
      BY <2>2
    <3> HIDE DEF kept, none
    <3> QED
      BY <1>2, <1>6, <3>1 DEF Walker
  <2> QED
    BY <2>1, <2>2
<1> HIDE DEF kept
<1>8. /\ moved \in Walker /\ OnGround(moved)
      /\ p.acc = 0 => Above(moved)
      /\ Above(p) /\ moved.y \in (p.y - Reach)..(p.y - 1) => Above(moved)
  <2>1. CASE kept.x = p.x /\ kept.y = p.y
    <3>1. moved = kept
      BY <2>1
    <3>2. OnGround(kept)
      BY <1>7, <2>1 DEF OnGround
    <3>3. p.acc = 0 => Above(kept)
      BY <1>7, <2>1, StageFacts DEF OnGround, Above
    <3>4. Above(p) => Above(kept)
      BY <2>1 DEF Above
    <3> QED
      BY <1>7, <3>1, <3>2, <3>3, <3>4
  <2>2. CASE ~(kept.x = p.x /\ kept.y = p.y) /\ p.acc = 0
    <3>1. moved = Walked(p, kept)
      BY <2>2
    <3>2. kept.x \in DOMAIN Floor
      BY <1>7, <2>2
    <3> QED
      BY <1>7, <2>2, <3>1, <3>2, WalkedKeeps
  <2>3. CASE ~(kept.x = p.x /\ kept.y = p.y) /\ p.acc # 0 /\ kept.y <= p.y
    <3>1. moved = Fallen(kept)
      BY <2>3
    <3>2. moved \in Walker /\ OnGround(moved)
      BY <1>7, <2>3, <3>1, FallenKeeps
    <3>3. ASSUME Above(p), moved.y \in (p.y - Reach)..(p.y - 1) PROVE Above(moved)
      <4>1. CASE kept.x \notin DOMAIN Floor
        BY <1>7, <2>3, <3>1, <4>1, FallenKeeps
      <4>2. CASE kept.x \in DOMAIN Floor /\ Floor[kept.x] <= kept.y + Reach
        BY <1>7, <2>3, <3>1, <4>2, FallenKeeps
      <4>3. CASE kept.x \in DOMAIN Floor /\ kept.x = p.x /\ ~(Floor[kept.x] <= kept.y + Reach)
        <5>1. kept.y \in Int /\ Floor[kept.x] \in Int /\ Floor[kept.x] <= p.y
          BY <1>7, <3>3, <4>3, StageFacts DEF Above, Walker
        <5>2. ~FloorExists(kept.x, kept.y, 0)
          BY <4>3, <5>1, StageFacts DEF FloorExists
        <5>3. moved.y = kept.y
          BY <3>1, <5>2 DEF Fallen
        <5> QED
          BY <1>2, <3>3, <4>3, <5>1, <5>3, StageFacts
      <4> QED
        BY <1>7, <4>1, <4>2, <4>3
    <3> QED
      BY <2>3, <3>2, <3>3
  <2>4. CASE p.acc # 0 /\ ~(kept.y <= p.y)
    <3>1. kept.y \in Int /\ p.y <= kept.y
      BY <1>2, <1>7, <2>4 DEF Walker
    <3>2. moved = Risen(p, kept)
      BY <1>2, <2>4, <3>1
    <3>3. moved \in Walker /\ OnGround(moved) /\ moved.y >= p.y
      BY <1>7, <2>4, <3>1, <3>2, RisenKeeps
    <3>4. moved.y \in Int
      BY <3>3 DEF Walker
    <3> QED
      BY <1>2, <2>4, <3>3, <3>4
  <2> QED
    BY <1>2, <1>7, <2>1, <2>2, <2>3, <2>4 DEF Walker
<1> HIDE DEF moved
<1>9. /\ last \in Walker /\ last.x = moved.x /\ last.y = moved.y /\ last.acc = moved.acc
      /\ OnGround(last)
  BY <1>8 DEF Walker, OnGround
<1> HIDE DEF last
<1>10. Above(moved) => Above(last)
  BY <1>9 DEF Above
<1> QED
  BY <1>1, <1>8, <1>9, <1>10, SMTT(60)

(* What the keys do does not move the character.                           *)
LEMMA InputKeeps ==
    ASSUME NEW p \in Walker, NEW q \in Walker, OnGround(q), NEW dir \in Signs, NEW key,
           NEW mouse \in Signs, NEW jump \in BOOLEAN
    PROVE  /\ InputFromUser(p, q, dir, key, mouse, jump) \in Walker
           /\ OnGround(InputFromUser(p, q, dir, key, mouse, jump))
           /\ InputFromUser(p, q, dir, key, mouse, jump).x = q.x
           /\ InputFromUser(p, q, dir, key, mouse, jump).y = q.y
<1> DEFINE speed == SpeedOf(p.motion)
           onFoot == IsWalking(p, key)
           limit == IF speed > AirSpeed THEN speed ELSE AirSpeed
           now == Steered(p, q, dir, key, mouse)
           r == InputFromUser(p, q, dir, key, mouse, jump)
<1>1. speed \in Nat /\ onFoot \in BOOLEAN
  BY StageFacts DEF SpeedOf, IsWalking, Walker
<1>2. limit \in Nat
  BY <1>1, StageFacts
<1>3. /\ q.vx \in Int /\ q.vy \in Int /\ q.acc \in Int
  BY DEF Walker
<1>4. now \in Walker /\ OnGround(now) /\ now.x = q.x /\ now.y = q.y /\ now.vy = q.vy
      /\ (q.acc = 0 <=> now.acc = 0)
  <2> DEFINE first == [q EXCEPT !.walking = onFoot]
  <2>1. /\ first \in Walker /\ first.walking = onFoot /\ first.x = q.x /\ first.y = q.y
        /\ first.vx = q.vx /\ first.vy = q.vy /\ first.acc = q.acc
    BY <1>1 DEF Walker
  <2>2. CASE q.acc # 0
    <3> DEFINE vx == Limited(q.vx + dir * AirAcc, limit)
               acc == Between(q.acc + mouse, Light, Heavy)
    <3>1. vx \in Int
      <4>1. dir = -1 \/ dir = 0 \/ dir = 1
        BY DEF Signs
      <4>2. dir * AirAcc \in Int
        BY <4>1, StageFacts
      <4> QED
        BY <1>2, <1>3, <4>2 DEF Limited
    <3>2. acc \in Int /\ acc # 0
      BY <1>3, StageFacts DEF Between, Signs
    <3>3. now = [first EXCEPT !.vx = vx, !.acc = acc]
      BY <2>1, <2>2 DEF Steered
    <3> HIDE DEF vx, acc, first, now
    <3>4. now \in Walker /\ now.x = q.x /\ now.y = q.y /\ now.vy = q.vy /\ now.acc # 0
      BY <2>1, <3>1, <3>2, <3>3 DEF Walker
    <3> QED
      BY <2>2, <3>4 DEF OnGround
  <2>3. CASE q.acc = 0 /\ dir = 0
    <3>1. now = [first EXCEPT !.motion = "stand"]
      BY <2>3 DEF Steered
    <3> HIDE DEF first, now
    <3>2. /\ now \in Walker /\ now.x = q.x /\ now.y = q.y /\ now.vy = q.vy /\ now.acc = q.acc
      BY <2>1, <3>1 DEF Walker, Motion
    <3> QED
      BY <3>2 DEF OnGround
  <2>4. CASE q.acc = 0 /\ dir # 0
    <3> DEFINE vx == dir * speed
               shows == IF first.walking THEN "walk" ELSE "run"
    <3>1. vx \in Int /\ shows \in Motion
      <4>1. dir = -1 \/ dir = 0 \/ dir = 1
        BY DEF Signs
      <4> QED
        BY <1>1, <4>1 DEF Motion
    <3>2. now = [first EXCEPT !.vx = vx, !.motion = shows]
      BY <2>4 DEF Steered
    <3> HIDE DEF vx, shows, first, now
    <3>3. /\ now \in Walker /\ now.x = q.x /\ now.y = q.y /\ now.vy = q.vy /\ now.acc = q.acc
      BY <2>1, <3>1, <3>2 DEF Walker
    <3> QED
      BY <3>3 DEF OnGround
  <2> QED
    BY <2>2, <2>3, <2>4
<1> HIDE DEF now
<1>5. CASE q.acc = 0 /\ jump
  <2>1. r = [now EXCEPT !.acc = Gravity, !.vy = @ + Jump]
    BY <1>5 DEF InputFromUser, now
  <2>2. now.vy + Jump \in Int /\ Gravity \in Int /\ Gravity # 0
    BY <1>3, <1>4, StageFacts
  <2> HIDE DEF r
  <2>3. r \in Walker /\ r.x = q.x /\ r.y = q.y /\ r.acc # 0
    BY <1>4, <2>1, <2>2 DEF Walker
  <2> QED
    BY <2>3 DEF OnGround, r
<1>6. CASE ~(q.acc = 0 /\ jump)
  <2>1. r = now
    BY <1>6 DEF InputFromUser, now
  <2> QED
    BY <1>4, <2>1
<1> QED
  BY <1>5, <1>6

LEMMA UpdateKeeps ==
    ASSUME NEW p \in Walker, OnGround(p), NEW dt \in Deltas, NEW dir \in Signs, NEW key,
           NEW mouse \in Signs, NEW jump \in BOOLEAN, Update(p, dt, dir, key, mouse, jump)
    PROVE  /\ WalkInv'
           /\ p.acc = 0 => Above(me)'
           /\ Above(p) /\ me'.y \in (p.y - Reach)..(p.y - 1) => Above(me)'
<1> DEFINE q == Move(p, dt)
<1>1. /\ q \in Walker /\ OnGround(q)
      /\ p.acc = 0 => Above(q)
      /\ Above(p) /\ q.y \in (p.y - Reach)..(p.y - 1) => Above(q)
  BY MoveKeeps
<1>2. me' = InputFromUser(p, q, dir, key, mouse, jump) /\ fell' = (p.y < MinHeight)
  BY DEF Update
<1> HIDE DEF q
<1>3. me' \in Walker /\ OnGround(me)' /\ me'.x = q.x /\ me'.y = q.y
  <2> DEFINE r == InputFromUser(p, q, dir, key, mouse, jump)
  <2>1. r \in Walker /\ OnGround(r) /\ r.x = q.x /\ r.y = q.y
    BY <1>1, InputKeeps
  <2>2. me' = r
    BY <1>2
  <2> HIDE DEF r
  <2> QED
    BY <2>1, <2>2 DEF OnGround
<1>4. Above(q) => Above(me)'
  BY <1>3 DEF Above
<1> QED
  BY <1>1, <1>2, <1>3, <1>4 DEF WalkInv

LEMMA FrameWalks ==
    ASSUME WalkInv, NEW dt \in Deltas, NEW dir \in Signs, NEW key,
           NEW mouse \in Signs, NEW jump \in BOOLEAN, WalkFrame(dt, dir, key, mouse, jump)
    PROVE  WalkInv' /\ (Above(me) /\ me'.y \in (me.y - Reach)..(me.y - 1) => Above(me)')
<1>1. CASE ~fell /\ Update(me, dt, dir, key, mouse, jump)
  BY <1>1, UpdateKeeps DEF WalkInv
<1>2. CASE \E x \in Starts :
               Update([me EXCEPT !.x = x, !.y = Floor[x], !.acc = 0, !.vy = 0],
                      dt, dir, key, mouse, jump)
  <2>1. PICK x \in Starts :
               Update([me EXCEPT !.x = x, !.y = Floor[x], !.acc = 0, !.vy = 0],
                      dt, dir, key, mouse, jump)
    BY <1>2
  <2> DEFINE none == 0
             p == [me EXCEPT !.x = x, !.y = Floor[x], !.acc = none, !.vy = none]
  <2>2. x \in DOMAIN Floor /\ x \in Int /\ Floor[x] \in Int
    BY StageFacts
  <2>3. none = 0 /\ none \in Int /\ Update(p, dt, dir, key, mouse, jump)
    BY <2>1
  <2> HIDE DEF none
  <2>4. p \in Walker /\ p.acc = 0 /\ p.x = x /\ p.y = Floor[x] /\ p.vy = 0
    BY <2>2, <2>3 DEF WalkInv, Walker
  <2> HIDE DEF p
  <2>5. OnGround(p)
    BY <2>2, <2>4 DEF OnGround
  <2> QED
    BY <2>3, <2>4, <2>5, UpdateKeeps
<1> QED
  BY <1>1, <1>2 DEF WalkFrame

LEMMA WalkStepKeeps ==
    ASSUME WalkInv, [WalkNext]_walkVars
    PROVE  /\ WalkInv'
           /\ me' # me /\ Above(me) /\ me'.y \in (me.y - Reach)..(me.y - 1) => Above(me)'
<1>1. CASE WalkStep
  <2>1. CASE \E dt \in Deltas, dir \in {-1, 0, 1}, key \in {"up", "pressed"}, jump \in BOOLEAN :
                 WalkFrame(dt, dir, key, 0, jump)
    <3>1. PICK dt \in Deltas, dir \in {-1, 0, 1}, key \in {"up", "pressed"}, jump \in BOOLEAN :
                 WalkFrame(dt, dir, key, 0, jump)
      BY <2>1
    <3> DEFINE mouse == 0
    <3>2. dir \in Signs /\ mouse \in Signs /\ WalkFrame(dt, dir, key, mouse, jump)
      BY <3>1 DEF Signs
    <3> HIDE DEF mouse
    <3> QED
      BY <3>2, FrameWalks
  <2>2. CASE \E dt \in Deltas, mouse \in {-1, 1} : WalkFrame(dt, 0, "up", mouse, FALSE)
    <3>1. PICK dt \in Deltas, mouse \in {-1, 1} : WalkFrame(dt, 0, "up", mouse, FALSE)
      BY <2>2
    <3> DEFINE dir == 0
               key == "up"
               jump == FALSE
    <3>2. /\ dir \in Signs /\ mouse \in Signs /\ jump \in BOOLEAN
          /\ WalkFrame(dt, dir, key, mouse, jump)
      BY <3>1 DEF Signs
    <3> HIDE DEF dir, key, jump
    <3> QED
      BY <3>2, FrameWalks
  <2> QED
    BY <1>1, <2>1, <2>2 DEF WalkStep
<1>2. CASE ResetPosition
  <2>1. /\ me' = [me EXCEPT !.x = Destination, !.y = Floor[Destination]] /\ fell' = fell
    BY <1>2 DEF ResetPosition
  <2>2. Destination \in DOMAIN Floor /\ Destination \in Int /\ Floor[Destination] \in Int
    BY StageFacts
  <2>3. /\ me' \in Walker /\ me'.x = Destination /\ me'.y = Floor[Destination]
        /\ me'.acc = me.acc /\ me'.vy = me.vy
    BY <2>1, <2>2 DEF WalkInv, Walker
  <2>4. OnGround(me)' /\ Above(me)'
    BY <2>2, <2>3 DEF WalkInv, OnGround, Above
  <2> QED
    BY <2>1, <2>3, <2>4 DEF WalkInv
<1>3. CASE UNCHANGED walkVars
  BY <1>3 DEF walkVars, WalkInv, OnGround
<1> QED
  BY <1>1, <1>2, <1>3 DEF WalkNext

(* On a stage of any shape, at any speed and with frames of any length: a  *)
(* character on the ground stands on its floor, and a fall of at most      *)
(* half his height in a frame does not lead through one                    *)
(* (FieldPlayer.cpp:345-490).                                              *)
THEOREM NobodyFallsThrough == WalkSpec => []Grounded /\ NoFallThrough
<1>1. WalkInit => WalkInv
  <2> SUFFICES ASSUME WalkInit PROVE WalkInv
    OBVIOUS
  <2>1. PICK x \in Starts : me = Standing(x)
    BY DEF WalkInit
  <2> DEFINE none == 0
             standing == FALSE
             stand == "stand"
             p == [x |-> x, y |-> Floor[x], vx |-> none, vy |-> none, acc |-> none,
                   walking |-> standing, motion |-> stand]
  <2>2. x \in DOMAIN Floor /\ x \in Int /\ Floor[x] \in Int
    BY StageFacts
  <2>3. me = p /\ none = 0 /\ none \in Int /\ standing \in BOOLEAN /\ stand \in Motion
    BY <2>1 DEF Standing, Motion
  <2> HIDE DEF none, standing, stand
  <2>4. me \in Walker /\ me.x = x /\ me.y = Floor[x] /\ me.vy = 0
    BY <2>2, <2>3 DEF Walker
  <2> QED
    BY <2>2, <2>4 DEF WalkInit, WalkInv, OnGround
<1>2. WalkInv /\ [WalkNext]_walkVars => WalkInv'
  BY WalkStepKeeps
<1>3. WalkSpec => []WalkInv
  BY <1>1, <1>2, PTL DEF WalkSpec
<1>4. WalkInv => Grounded
  BY DEF WalkInv, OnGround, Grounded
<1>5. ASSUME WalkInv, [WalkNext]_walkVars
      PROVE  [Above(me) /\ me'.y \in (me.y - Reach)..(me.y - 1) => Above(me')]_walkVars
  <2>1. CASE me' = me
    BY <2>1 DEF Above
  <2>2. CASE me' # me
    BY <1>5, <2>2, WalkStepKeeps
  <2> QED
    BY <2>1, <2>2
<1> QED
  BY <1>3, <1>4, <1>5, PTL DEF WalkSpec, NoFallThrough

-----------------------------------------------------------------------------
(* The sky, whatever the length of the day and of the twilights.           *)

(* The flag of a half of the day is up when its sky has yet to be set.     *)
FlagsStand ==
    /\ Dawn(clock) => noonFlag
    /\ Dusk(clock) => nightFlag
    /\ AtNoon(clock) => noonFlag \/ (evening = Before /\ night = After)
    /\ AtNight(clock) => nightFlag \/ (evening = 0 /\ night = 0)

DaylightInv ==
    /\ clock \in 0..(Day - 1) /\ evening \in Int /\ night \in Int
    /\ noonFlag \in BOOLEAN /\ nightFlag \in BOOLEAN
    /\ FlagsStand

LEMMA DaylightFacts ==
    /\ Before \in Nat \ {0} /\ After \in Nat \ {0} /\ LongestGap \in 1..(Before + After + 1)
    /\ Day \in Int /\ Sunrise \in Int /\ Sunset \in Int
    /\ Before < Sunrise /\ Sunrise + After < Sunset - Before /\ Sunset + After < Day - 1
  BY DaylightAssumption

(* A Calc goes past no twilight: day is reached from dawn or day only, and *)
(* night from dusk or night.                                               *)
LEMMA NextTwilight ==
    ASSUME NEW t \in 0..(Day - 1), NEW gap \in 1..LongestGap
    PROVE  LET n == (t + gap) % Day IN
           /\ n \in 0..(Day - 1)
           /\ AtNoon(n) => Dawn(t) \/ AtNoon(t)
           /\ AtNight(n) => Dusk(t) \/ AtNight(t)
<1> DEFINE n == (t + gap) % Day
<1>1. n = (IF t + gap < Day THEN t + gap ELSE t + gap - Day)
  BY DaylightFacts
<1> HIDE DEF n
<1>2. n \in 0..(Day - 1)
  BY <1>1, DaylightFacts
<1>3. AtNoon(n) => Dawn(t) \/ AtNoon(t)
  BY <1>1, DaylightFacts DEF AtNoon, Dawn, Dusk, AtNight
<1>4. AtNight(n) => Dusk(t) \/ AtNight(t)
  BY <1>1, DaylightFacts DEF AtNoon, Dawn, Dusk, AtNight
<1> QED
  BY <1>2, <1>3, <1>4 DEF n

LEMMA DaylightStep ==
    ASSUME DaylightInv, Calc
    PROVE  /\ DaylightInv'
           /\ AtNoon(clock') => evening' = Before /\ night' = After
           /\ AtNight(clock') => evening' = 0 /\ night' = 0
<1>1. PICK gap \in 1..LongestGap : CalcAt((clock + gap) % Day)
  BY DEF Calc
<1> DEFINE t == (clock + gap) % Day
           sky == SkyAt([evening |-> evening, night |-> night], t)
<1>2. /\ clock' = t /\ evening' = sky.evening /\ night' = sky.night
      /\ noonFlag' = (Dawn(t) \/ (noonFlag /\ ~AtNoon(t)))
      /\ nightFlag' = (Dusk(t) \/ (nightFlag /\ ~AtNight(t)))
  BY <1>1 DEF CalcAt
<1>3. /\ t \in 0..(Day - 1)
      /\ AtNoon(t) => Dawn(clock) \/ AtNoon(clock)
      /\ AtNight(t) => Dusk(clock) \/ AtNight(clock)
  BY NextTwilight DEF DaylightInv
<1> HIDE DEF t
<1>4. evening \in Int /\ night \in Int /\ Before \in Int /\ After \in Int
  BY DaylightFacts DEF DaylightInv
<1>5. /\ Dawn(t) => ~AtNoon(t) /\ ~AtNight(t) /\ ~Dusk(t)
      /\ Dusk(t) => ~AtNoon(t) /\ ~AtNight(t) /\ ~Dawn(t)
      /\ AtNight(t) => ~AtNoon(t)
  BY <1>3, DaylightFacts DEF AtNoon, AtNight, Dawn, Dusk
<1>6. CASE Dawn(t)
  <2>1. evening' \in Int /\ night' \in Int
    BY <1>2, <1>3, <1>4, <1>6, DaylightFacts DEF SkyAt, DawnSky
  <2> QED
    BY <1>2, <1>3, <1>5, <1>6, <2>1 DEF DaylightInv, FlagsStand
<1>7. CASE Dusk(t)
  <2>1. evening' \in Int /\ night' \in Int
    BY <1>2, <1>3, <1>4, <1>5, <1>7, DaylightFacts DEF SkyAt, DuskSky
  <2> QED
    BY <1>2, <1>3, <1>5, <1>7, <2>1 DEF DaylightInv, FlagsStand
<1>8. CASE AtNight(t)
  <2>1. ~Dawn(t) /\ ~Dusk(t)
    BY <1>5, <1>8
  <2>2. sky = IF nightFlag THEN Dark ELSE [evening |-> evening, night |-> night]
    BY <1>8, <2>1 DEF SkyAt
  <2>3. nightFlag \/ (evening = 0 /\ night = 0)
    BY <1>3, <1>8 DEF DaylightInv, FlagsStand
  <2>4. evening' = 0 /\ night' = 0
    BY <1>2, <2>2, <2>3 DEF Dark
  <2> QED
    BY <1>2, <1>3, <1>5, <1>8, <2>1, <2>4 DEF DaylightInv, FlagsStand
<1>9. CASE AtNoon(t)
  <2>1. ~Dawn(t) /\ ~Dusk(t) /\ ~AtNight(t)
    BY <1>9 DEF AtNoon
  <2>2. sky = IF noonFlag THEN WholeSky ELSE [evening |-> evening, night |-> night]
    BY <2>1 DEF SkyAt
  <2>3. noonFlag \/ (evening = Before /\ night = After)
    BY <1>3, <1>9 DEF DaylightInv, FlagsStand
  <2>4. evening' = Before /\ night' = After
    BY <1>2, <2>2, <2>3 DEF WholeSky
  <2> QED
    BY <1>2, <1>3, <1>4, <1>9, <2>1, <2>4 DEF DaylightInv, FlagsStand
<1> QED
  BY <1>6, <1>7, <1>8, <1>9 DEF AtNoon

(* Whatever the day's length and the sky a stage is entered under: after   *)
(* every Calc by day the sky is bright and by night dark, since no Calc    *)
(* leaves out a twilight (gameloop.cpp:642, 662-684).                      *)
THEOREM SkyAlwaysFits == DaylightSpec => SkyFitsTime
<1>1. DaylightInit => DaylightInv
  BY DaylightFacts DEF DaylightInit, DaylightInv, FlagsStand
<1>2. ASSUME DaylightInv, [Calc]_daylightVars PROVE DaylightInv'
  <2>1. CASE Calc
    BY <1>2, <2>1, DaylightStep
  <2>2. CASE UNCHANGED daylightVars
    BY <1>2, <2>2 DEF daylightVars, DaylightInv, FlagsStand, AtNoon, AtNight, Dawn, Dusk
  <2> QED
    BY <1>2, <2>1, <2>2
<1>3. ASSUME DaylightInv, [Calc]_daylightVars
      PROVE  [/\ AtNoon(clock') => [evening |-> evening', night |-> night'] = WholeSky
              /\ AtNight(clock') => [evening |-> evening', night |-> night'] = Dark]_daylightVars
  BY <1>3, DaylightStep DEF WholeSky, Dark
<1> QED
  BY <1>1, <1>2, <1>3, PTL DEF DaylightSpec, SkyFitsTime

-----------------------------------------------------------------------------
(* Commands as bytes, for every set of commands whose values fit their     *)
(* types, every delimiter and escape that byte stuffing can tell apart,    *)
(* and every way TCP cuts the stream.  What was framed comes back: number, *)
(* value, body, compression, cipher and stuffing each have a lemma; the    *)
(* invariant says that the bytes between the two ends are the frames of    *)
(* the commands that have not been handed on, and that the cipher of the   *)
(* receiver is as far as the first of them.                                *)

LEMMA SetInduction ==
    ASSUME NEW S, 0 \in S, \A n \in Nat : n \in S => n + 1 \in S
    PROVE  Nat \subseteq S
<1> SUFFICES ASSUME Nat \ S # {} PROVE FALSE
  OBVIOUS
<1>1. PICK n \in Nat \ S : \A m \in Nat \ S : n <= m
  BY LeastOf
<1>2. n # 0 /\ n - 1 \in Nat
  BY <1>1
<1>3. n - 1 \in S
  BY <1>1, <1>2
<1> QED
  BY <1>1, <1>2, <1>3

(* A fold over a sequence is defined, and stays in a set that every step   *)
(* of it stays in.                                                         *)
Steps(A, n) == [1..n -> [A -> A]]
Folds(A, n, a, step) ==
    \E f \in [0..n -> A] : f[0] = a /\ \A i \in 1..n : f[i] = step[i][f[i - 1]]

LEMMA FoldDefined ==
    ASSUME NEW A, NEW n \in Nat, NEW a \in A, NEW step \in Steps(A, n)
    PROVE  Folds(A, n, a, step)
<1> DEFINE Good(m) == \E f \in [0..m -> A] :
                 f[0] = a /\ \A i \in 1..m : f[i] = step[i][f[i - 1]]
           S == {m \in Nat : m <= n => Good(m)}
<1>1. Good(0)
  <2> DEFINE g == [i \in 0..0 |-> a]
  <2>1. g \in [0..0 -> A] /\ g[0] = a /\ \A i \in 1..0 : g[i] = step[i][g[i - 1]]
    OBVIOUS
  <2> QED
    BY <2>1
<1>2. ASSUME NEW m \in Nat, m + 1 <= n, Good(m) PROVE Good(m + 1)
  <2>1. PICK f \in [0..m -> A] : f[0] = a /\ \A i \in 1..m : f[i] = step[i][f[i - 1]]
    BY <1>2
  <2> DEFINE g == [i \in 0..(m + 1) |-> IF i = m + 1 THEN step[m + 1][f[m]] ELSE f[i]]
  <2>2. step[m + 1][f[m]] \in A
    <3>1. f[m] \in A /\ step[m + 1] \in [A -> A]
      BY <1>2 DEF Steps
    <3> QED
      BY <3>1
  <2>3. g \in [0..(m + 1) -> A]
    <3>1. \A i \in 0..(m + 1) : i # m + 1 => i \in 0..m
      BY <1>2
    <3> QED
      BY <2>2, <3>1
  <2>4. g[0] = a
    BY <2>1
  <2>5. ASSUME NEW i \in 1..(m + 1) PROVE g[i] = step[i][g[i - 1]]
    <3>1. CASE i = m + 1
      <4>1. g[i - 1] = f[m]
        BY <1>2, <3>1
      <4> QED
        BY <1>2, <3>1, <4>1
    <3>2. CASE i # m + 1
      <4>1. i \in 1..m /\ i - 1 \in 0..m /\ i - 1 # m + 1
        BY <1>2, <3>2
      <4>2. g[i] = f[i] /\ g[i - 1] = f[i - 1]
        BY <3>2, <4>1
      <4> QED
        BY <2>1, <4>1, <4>2
    <3> QED
      BY <3>1, <3>2
  <2> HIDE DEF g
  <2> QED
    BY <2>3, <2>4, <2>5
<1>3. 0 \in S /\ \A m \in Nat : m \in S => m + 1 \in S
  <2> HIDE DEF Good
  <2> QED
    BY <1>1, <1>2
<1> HIDE DEF S
<1>4. n \in S
  BY <1>3, SetInduction
<1> QED
  BY <1>4 DEF S, Folds

LEMMA FoldStays ==
    ASSUME NEW A, NEW n \in Nat, NEW g, g[0] \in A,
           \A i \in 1..n : g[i - 1] \in A => g[i] \in A
    PROVE  g[n] \in A
<1> DEFINE S == {i \in Nat : i <= n => g[i] \in A}
<1>1. 0 \in S
  OBVIOUS
<1>2. ASSUME NEW i \in Nat, i \in S PROVE i + 1 \in S
  <2> SUFFICES ASSUME i + 1 <= n PROVE g[i + 1] \in A
    OBVIOUS
  <2>1. g[i] \in A
    BY <1>2
  <2>2. i + 1 \in 1..n /\ (i + 1) - 1 = i
    BY <1>2
  <2> QED
    BY <2>1, <2>2
<1> HIDE DEF S
<1>3. n \in S
  BY <1>1, <1>2, SetInduction
<1> QED
  BY <1>3 DEF S

Text == Seq(Byte)

LEMMA SequenceOf ==
    ASSUME NEW A, NEW n \in Nat, NEW f \in [1..n -> A]
    PROVE  f \in Seq(A) /\ Len(f) = n
<1>1. f \in Seq(A)
  BY SeqDef
<1>2. DOMAIN f = 1..n /\ Len(f) \in Nat /\ DOMAIN f = 1..Len(f)
  BY <1>1, LenProperties
<1>3. Len(f) = n
  BY <1>2
<1> QED
  BY <1>1, <1>3

LEMMA TextOfBytes ==
    ASSUME NEW n \in Nat, NEW f \in [1..n -> Byte]
    PROVE  f \in Text /\ Len(f) = n
  BY SequenceOf DEF Text

LEMMA BytesAreNumbers == \A b \in Byte : b \in Nat
  BY DEF Byte

LEMMA TwoTexts ==
    ASSUME NEW s \in Text, NEW t \in Text
    PROVE  /\ s \o t \in Text /\ Len(s \o t) = Len(s) + Len(t)
           /\ Len(s) \in Nat /\ Len(t) \in Nat
  BY ConcatProperties, LenProperties DEF Text

LEMMA ThreeTexts ==
    ASSUME NEW r \in Text, NEW s \in Text, NEW t \in Text
    PROVE  (r \o s) \o t = r \o (s \o t)
  BY ConcatAssociative DEF Text

LEMMA PlaceFacts ==
    Place[1] = 1 /\ Place[2] = 256 /\ Place[3] = 256 * 256 /\ Place[4] = 256 * 256 * 256
  BY DEF Place

LEMMA DigitIsByte ==
    ASSUME NEW bytes \in Text, NEW k \in 1..4
    PROVE  Digit(bytes, k) \in Byte
<1>1. Len(bytes) \in Nat
  BY DEF Text
<1>2. CASE k <= Len(bytes)
  <2>1. Len(bytes) - k + 1 \in 1..Len(bytes)
    BY <1>1, <1>2
  <2>2. bytes[Len(bytes) - k + 1] \in Byte
    BY <2>1, ElementOfSeq DEF Text
  <2> QED
    BY <1>2, <2>2 DEF Digit
<1>3. CASE ~(k <= Len(bytes))
  BY <1>3 DEF Digit, Byte
<1> QED
  BY <1>2, <1>3

LEMMA NumberIsNat ==
    ASSUME NEW bytes \in Text
    PROVE  Number(bytes) \in Nat
<1>1. /\ Digit(bytes, 1) \in Nat /\ Digit(bytes, 2) \in Nat /\ Digit(bytes, 3) \in Nat
      /\ Digit(bytes, 4) \in Nat
  BY DigitIsByte DEF Byte
<1> QED
  BY <1>1 DEF Number

(* A division by two bytes, and by three, is one byte after the other.      *)
LEMMA ByteByByte ==
    ASSUME NEW n \in Nat
    PROVE  /\ n \div (256 * 256) = (n \div 256) \div 256
           /\ n \div (256 * 256 * 256) = ((n \div 256) \div 256) \div 256
  BY SMTT(60)

LEMMA OneByte ==
    ASSUME NEW n \in Nat
    PROVE  /\ n \div 256 \in Nat /\ n % 256 \in Byte
           /\ n = (n % 256) + 256 * (n \div 256)
<1>1. n \div 256 \in Nat /\ n % 256 \in 0..255 /\ n = (n % 256) + 256 * (n \div 256)
  OBVIOUS
<1> QED
  BY <1>1 DEF Byte

(* The four bytes of a number.                                             *)
LEMMA FourBytes ==
    ASSUME NEW n \in Nat, n \div Place[4] < 256
    PROVE  /\ n \div Place[4] \in Byte /\ (n \div Place[3]) % 256 \in Byte
           /\ (n \div 256) % 256 \in Byte /\ n % 256 \in Byte
           /\ n = (n % 256) + 256 * (((n \div 256) % 256) + 256 * (((n \div Place[3]) % 256)
                  + 256 * (n \div Place[4])))
<1> DEFINE a == n \div 256
           b == a \div 256
           x == b \div 256
<1>1. n \div Place[3] = b /\ n \div Place[4] = x
  BY ByteByByte, PlaceFacts
<1>2. a \in Nat /\ n % 256 \in Byte /\ n = (n % 256) + 256 * a
  BY OneByte
<1> HIDE DEF a
<1>3. b \in Nat /\ a % 256 \in Byte /\ a = (a % 256) + 256 * b
  BY <1>2, OneByte
<1> HIDE DEF b
<1>4. x \in Nat /\ b % 256 \in Byte /\ b = (b % 256) + 256 * x
  BY <1>3, OneByte
<1> HIDE DEF x
<1>5. x \in Byte
  BY <1>1, <1>4 DEF Byte
<1>6. n = (n % 256) + 256 * ((a % 256) + 256 * ((b % 256) + 256 * x))
  BY <1>2, <1>3, <1>4
<1> QED
  BY <1>1, <1>2, <1>3, <1>4, <1>5, <1>6 DEF a

(* A number that fits into its bytes comes back from them.                 *)
LEMMA NumberComesBack ==
    ASSUME NEW n \in Nat, NEW w \in {1, 2, 4}, n \div Place[w] < 256
    PROVE  /\ Bytes(n, w) \in Text /\ Len(Bytes(n, w)) = w
           /\ Number(Bytes(n, w)) = n
<1>1. CASE w = 1
  <2>1. Bytes(n, w) = [i \in 1..1 |-> (n \div Place[1 - i + 1]) % 256]
    BY <1>1 DEF Bytes
  <2>2. n \in 0..255
    BY <1>1, PlaceFacts
  <2>3. 1 - 1 + 1 = 1 /\ (n \div 1) % 256 = n
    BY <2>2
  <2>4. Bytes(n, w)[1] = n /\ Len(Bytes(n, w)) = 1 /\ Bytes(n, w) \in Text
    <3>1. \A i \in 1..1 : (n \div Place[1 - i + 1]) % 256 = n
      BY <2>3, PlaceFacts
    <3>2. Bytes(n, w) = [i \in 1..1 |-> n]
      BY <2>1, <3>1
    <3> QED
      BY <2>2, <3>2 DEF Text, Byte
  <2> QED
    BY <1>1, <2>2, <2>4 DEF Number, Digit
<1>2. CASE w = 2
  <2> DEFINE x == n \div 256
             y == n % 256
             f == [i \in 1..2 |-> IF i = 1 THEN x ELSE y]
  <2>1. n = 256 * x + y /\ x \in 0..255 /\ y \in 0..255
    BY <1>2, PlaceFacts
  <2>2. x % 256 = x /\ (n \div 1) % 256 = y
    BY <2>1
  <2>3. \A i \in 1..2 : (n \div Place[2 - i + 1]) % 256 = IF i = 1 THEN x ELSE y
    <3>1. \A i \in 1..2 : i = 1 \/ i = 2
      OBVIOUS
    <3>2. 2 - 1 + 1 = 2 /\ 2 - 2 + 1 = 1
      OBVIOUS
    <3> QED
      BY <2>2, <3>1, <3>2, PlaceFacts
  <2>4. Bytes(n, w) = f
    BY <1>2, <2>3 DEF Bytes
  <2> HIDE DEF x, y
  <2>5. f[1] = x /\ f[2] = y /\ f \in [1..2 -> Byte]
    BY <2>1 DEF Byte
  <2> HIDE DEF f
  <2>6. f \in Text /\ Len(f) = 2
    BY <2>5, TextOfBytes
  <2>7. Digit(f, 1) = y /\ Digit(f, 2) = x /\ Digit(f, 3) = 0 /\ Digit(f, 4) = 0
    BY <2>5, <2>6 DEF Digit
  <2>8. Number(f) = n
    BY <2>1, <2>7 DEF Number
  <2> QED
    BY <1>2, <2>4, <2>6, <2>8
<1>3. CASE w = 4
  <2> DEFINE x == n \div Place[4]
             y == (n \div Place[3]) % 256
             z == (n \div 256) % 256
             u == n % 256
             f == [i \in 1..4 |-> IF i = 1 THEN x ELSE IF i = 2 THEN y ELSE
                                  IF i = 3 THEN z ELSE u]
  <2>1. /\ x \in Byte /\ y \in Byte /\ z \in Byte /\ u \in Byte
        /\ n = u + 256 * (z + 256 * (y + 256 * x))
    BY <1>3, PlaceFacts, FourBytes
  <2>2. x % 256 = x /\ (n \div 1) % 256 = u
    BY <2>1 DEF Byte
  <2>3. \A i \in 1..4 : (n \div Place[4 - i + 1]) % 256 =
            IF i = 1 THEN x ELSE IF i = 2 THEN y ELSE IF i = 3 THEN z ELSE u
    <3>1. \A i \in 1..4 : i = 1 \/ i = 2 \/ i = 3 \/ i = 4
      OBVIOUS
    <3>2. 4 - 1 + 1 = 4 /\ 4 - 2 + 1 = 3 /\ 4 - 3 + 1 = 2 /\ 4 - 4 + 1 = 1
      OBVIOUS
    <3> QED
      BY <2>2, <3>1, <3>2, PlaceFacts
  <2>4. Bytes(n, w) = f
    BY <1>3, <2>3 DEF Bytes
  <2> HIDE DEF x, y, z, u
  <2>5. f[1] = x /\ f[2] = y /\ f[3] = z /\ f[4] = u /\ f \in [1..4 -> Byte]
    BY <2>1
  <2> HIDE DEF f
  <2>6. f \in Text /\ Len(f) = 4
    BY <2>5, TextOfBytes
  <2>7. Digit(f, 1) = u /\ Digit(f, 2) = z /\ Digit(f, 3) = y /\ Digit(f, 4) = x
    BY <2>5, <2>6 DEF Digit
  <2>8. Number(f) = n
    BY <2>1, <2>7 DEF Number, Byte
  <2> QED
    BY <1>3, <2>4, <2>6, <2>8
<1> QED
  BY <1>1, <1>2, <1>3

(* Pieces one after the other.                                             *)
Joins(out, pieces) ==
    /\ out[0] = <<>> /\ \A i \in 1..Len(pieces) : out[i] = out[i - 1] \o pieces[i]

(* FlattenSeq comes to the end of them.                                    *)
LEMMA Flattened ==
    ASSUME NEW A, NEW pieces \in Seq(Seq(A))
    PROVE  \E out \in [0..Len(pieces) -> Seq(A)] :
               Joins(out, pieces) /\ FlattenSeq(pieces) = out[Len(pieces)]
<1> DEFINE n == Len(pieces)
           Q == Seq(A)
           step == [i \in 1..n |-> [a \in Q |-> a \o pieces[i]]]
           Fold(g) == g = [i \in 1..n |-> IF i = 1 THEN pieces[i] ELSE g[i - 1] \o pieces[i]]
           flatten == CHOOSE g : Fold(g)
<1>1. n \in Nat /\ \A i \in 1..n : pieces[i] \in Q
  OBVIOUS
<1>2. step \in [1..n -> [Q -> Q]]
  BY <1>1
<1>3. \A i \in 1..n, a \in Q : step[i][a] = a \o pieces[i]
  OBVIOUS
<1>4. <<>> \in Q /\ \A q \in Q : <<>> \o q = q
  BY ConcatEmptySeq
<1> HIDE DEF step, Q
<1>5. PICK out \in [0..n -> Q] : out[0] = <<>> /\ \A i \in 1..n : out[i] = step[i][out[i - 1]]
  <2>1. n \in Nat /\ step \in Steps(Q, n)
    BY <1>1, <1>2 DEF Steps
  <2>2. Folds(Q, n, <<>>, step)
    BY <1>4, <2>1, FoldDefined
  <2> QED
    BY <2>2 DEF Folds
<1>6. \A i \in 1..n : out[i] = out[i - 1] \o pieces[i]
  <2> TAKE i \in 1..n
  <2>1. out[i - 1] \in Q
    BY <1>1, <1>5
  <2> QED
    BY <1>3, <1>5, <2>1
<1>7. CASE n = 0
  <2>1. pieces = <<>> /\ FlattenSeq(pieces) = pieces
    BY <1>7 DEF FlattenSeq
  <2> QED
    BY <1>5, <1>6, <1>7, <2>1 DEF Joins, Q
<1>8. CASE n # 0
  <2> DEFINE f == [i \in 1..n |-> out[i]]
  <2>1. Fold(f)
    <3>1. ASSUME NEW i \in 1..n
          PROVE  f[i] = IF i = 1 THEN pieces[i] ELSE f[i - 1] \o pieces[i]
      <4>1. CASE i = 1
        <5>1. 1 \in 1..n /\ 1 - 1 = 0
          BY <4>1
        <5>2. out[1] = out[1 - 1] \o pieces[1] /\ pieces[1] \in Q
          BY <1>1, <1>6, <5>1
        <5>3. out[1] = pieces[1]
          BY <1>4, <1>5, <5>1, <5>2
        <5> QED
          BY <4>1, <5>3
      <4>2. CASE i # 1
        <5>1. i - 1 \in 1..n
          BY <1>1, <4>2
        <5> QED
          BY <1>6, <4>2, <5>1
      <4> QED
        BY <4>1, <4>2
    <3> QED
      BY <3>1
  <2>2. Fold(flatten)
    <3> HIDE DEF Fold, f
    <3> QED
      BY <2>1
  <2>3. FlattenSeq(pieces) = flatten[n]
    BY <1>8 DEF FlattenSeq
  <2> HIDE DEF flatten, f
  <2>4. \A i \in 1..n : flatten[i] = IF i = 1 THEN pieces[i] ELSE flatten[i - 1] \o pieces[i]
    BY <2>2, Zenon
  <2> DEFINE S == {i \in Nat : i \in 1..n => flatten[i] = out[i]}
  <2>5. 0 \in S
    OBVIOUS
  <2>6. ASSUME NEW i \in Nat, i \in S PROVE i + 1 \in S
    <3> SUFFICES ASSUME i + 1 \in 1..n PROVE flatten[i + 1] = out[i + 1]
      OBVIOUS
    <3> DEFINE k == i + 1
    <3>0. k \in 1..n /\ k - 1 = i /\ k \in Nat
      BY <1>1
    <3>h. i \in 1..n => flatten[i] = out[i]
      BY <2>6
    <3> HIDE DEF k, S
    <3>1. out[k] = out[k - 1] \o pieces[k] /\ pieces[k] \in Q
      BY <1>1, <1>6, <3>0
    <3>2. CASE k = 1
      <4>0. out[k - 1] = <<>>
        BY <1>5, <3>2
      <4>1. out[k] = pieces[k]
        BY <1>4, <3>1, <4>0
      <4> QED
        BY <2>4, <3>0, <3>2, <4>1 DEF k
    <3>3. CASE k # 1
      <4>1. i \in 1..n
        BY <1>1, <3>0, <3>3
      <4>2. flatten[k - 1] = out[k - 1]
        BY <3>0, <3>h, <4>1
      <4>3. flatten[k] = flatten[k - 1] \o pieces[k]
        BY <2>4, <3>0, <3>3
      <4> QED
        BY <3>1, <4>2, <4>3 DEF k
    <3> QED
      BY <3>2, <3>3
  <2> HIDE DEF S
  <2>7. n \in S
    BY <1>1, <2>5, <2>6, SetInduction
  <2>8. flatten[n] = out[n]
    BY <1>1, <1>8, <2>7 DEF S
  <2> QED
    BY <1>5, <1>6, <2>3, <2>8 DEF Joins, Q
<1> QED
  BY <1>7, <1>8

(* Every stage of it is a beginning of the end.                            *)
Begins(s, t, A) == \E r \in Seq(A) : t = s \o r

LEMMA BeginsOn ==
    ASSUME NEW A, NEW s \in Seq(A), NEW t \in Seq(A), NEW r \in Seq(A), Begins(s, t, A)
    PROVE  Begins(s, t \o r, A)
<1>1. PICK q \in Seq(A) : t = s \o q
  BY DEF Begins
<1>2. t \o r = s \o (q \o r)
  BY <1>1, ConcatAssociative, SMTT(60)
<1>3. q \o r \in Seq(A)
  BY ConcatProperties
<1> QED
  BY <1>2, <1>3 DEF Begins

LEMMA Beginnings ==
    ASSUME NEW A, NEW pieces \in Seq(Seq(A)), NEW out \in [0..Len(pieces) -> Seq(A)],
           Joins(out, pieces), NEW i \in 0..Len(pieces)
    PROVE  Begins(out[i], out[Len(pieces)], A)
<1> DEFINE n == Len(pieces)
           S == {k \in Nat : i <= k /\ k <= n => Begins(out[i], out[k], A)}
<1>1. n \in Nat /\ i \in 0..n
  OBVIOUS
<1>2. \A k \in 0..n : out[k] \in Seq(A)
  OBVIOUS
<1>3. \A k \in 1..n : pieces[k] \in Seq(A)
  OBVIOUS
<1>4. Begins(out[i], out[i], A)
  <2>1. out[i] = out[i] \o <<>> /\ <<>> \in Seq(A)
    BY <1>1, <1>2, ConcatEmptySeq
  <2> QED
    BY <2>1 DEF Begins
<1>5. 0 \in S
  BY <1>1, <1>4
<1>6. ASSUME NEW k \in Nat, k \in S PROVE k + 1 \in S
  <2> SUFFICES ASSUME i <= k + 1, k + 1 <= n PROVE Begins(out[i], out[k + 1], A)
    OBVIOUS
  <2>1. CASE i = k + 1
    BY <1>4, <2>1
  <2>2. CASE i # k + 1
    <3>1. i <= k /\ k <= n /\ k \in 0..n /\ k + 1 \in 1..n /\ (k + 1) - 1 = k
      BY <1>1, <2>2
    <3>2. Begins(out[i], out[k], A)
      BY <1>6, <3>1
    <3>3. out[k + 1] = out[k] \o pieces[k + 1]
      <4>1. \A m \in 1..n : out[m] = out[m - 1] \o pieces[m]
        BY DEF Joins
      <4>2. out[k + 1] = out[(k + 1) - 1] \o pieces[k + 1]
        BY <3>1, <4>1
      <4> QED
        BY <3>1, <4>2
    <3>4. Begins(out[i], out[k] \o pieces[k + 1], A)
      <4>1. pieces[k + 1] \in Seq(A) /\ out[k] \in Seq(A) /\ out[i] \in Seq(A)
        BY <1>1, <1>2, <1>3, <3>1
      <4> QED
        BY <3>2, <4>1, BeginsOn
    <3> QED
      BY <3>3, <3>4
  <2> QED
    BY <2>1, <2>2
<1> HIDE DEF S
<1>7. n \in S
  BY <1>1, <1>5, <1>6, SetInduction
<1> QED
  BY <1>1, <1>7 DEF S

(* What was put together comes apart again.                                *)
LEMMA Apart ==
    ASSUME NEW A, NEW s \in Seq(A), NEW t \in Seq(A)
    PROVE  /\ SubSeq(s \o t, 1, Len(s)) = s
           /\ SubSeq(s \o t, Len(s) + 1, Len(s \o t)) = t
           /\ Len(s \o t) = Len(s) + Len(t)
<1> DEFINE st == s \o t
           m == Len(s)
           n == Len(t)
<1>1. /\ m \in Nat /\ n \in Nat /\ Len(st) = m + n /\ st \in Seq(A)
      /\ \A i \in 1..(m + n) : st[i] = IF i <= m THEN s[i] ELSE t[i - m]
  BY ConcatProperties
<1> HIDE DEF st
<1>2. SubSeq(st, 1, m) = s
  <2> DEFINE p == SubSeq(st, 1, m)
  <2>1. \A i \in 1..m : st[i] \in A
    BY <1>1, ElementOfSeq
  <2>2. p \in Seq(A) /\ Len(p) = m /\ \A i \in 1..m : p[i] = st[i]
    <3>1. m - 1 + 1 = m /\ \A i \in 1..m : 1 + i - 1 = i
      BY <1>1
    <3> QED
      BY <1>1, <2>1, <3>1, SubSeqProperties
  <2> HIDE DEF p
  <2>3. \A i \in 1..m : p[i] = s[i]
    BY <1>1, <2>2
  <2>4. p = s
    BY <2>2, <2>3, SeqEqual
  <2> QED
    BY <2>4 DEF p
<1>3. SubSeq(st, m + 1, m + n) = t
  <2> DEFINE p == SubSeq(st, m + 1, m + n)
  <2>1. \A i \in (m + 1)..(m + n) : st[i] \in A
    BY <1>1, ElementOfSeq
  <2>2. p \in Seq(A) /\ Len(p) = n /\ \A i \in 1..n : p[i] = st[m + i]
    <3>1. /\ (m + n) - (m + 1) + 1 = n /\ \A i \in 1..n : m + 1 + i - 1 = m + i
          /\ m + 1 \in Int /\ m + n \in Int
          /\ (IF m + 1 <= m + n THEN n ELSE 0) = n
      BY <1>1
    <3>2. p \in Seq(A) /\ Len(p) = IF m + 1 <= m + n THEN (m + n) - (m + 1) + 1 ELSE 0
      BY <2>1, <3>1, SubSeqProperties
    <3>3. \A i \in 1..((m + n) - (m + 1) + 1) : p[i] = st[m + 1 + i - 1]
      BY <2>1, <3>1, SubSeqProperties
    <3> QED
      BY <3>1, <3>2, <3>3
  <2> HIDE DEF p
  <2>3. \A i \in 1..n : p[i] = t[i]
    <3> TAKE i \in 1..n
    <3>1. p[i] = st[m + i] /\ m + i \in 1..(m + n) /\ ~(m + i <= m) /\ (m + i) - m = i
      BY <1>1, <2>2
    <3> QED
      BY <1>1, <3>1
  <2>4. p = t
    BY <2>2, <2>3, SeqEqual
  <2> QED
    BY <2>4 DEF p
<1> QED
  BY <1>1, <1>2, <1>3 DEF st

LEMMA ApartTexts ==
    ASSUME NEW s \in Text, NEW t \in Text
    PROVE  /\ SubSeq(s \o t, 1, Len(s)) = s
           /\ SubSeq(s \o t, Len(s) + 1, Len(s \o t)) = t
  BY Apart DEF Text

LEMMA FlippedFacts ==
    ASSUME NEW b \in Byte
    PROVE  Flipped(b) \in Byte /\ Flipped(Flipped(b)) = b /\ Flipped(b) # b
<1> DEFINE q == b \div 32
           r == b % 32
<1>1. q \in 0..7 /\ r \in 0..31 /\ b = 32 * q + r
  <2>1. b \in 0..255
    BY DEF Byte
  <2>2. q \in 0..7
    BY <2>1
  <2>3. r \in 0..31
    BY <2>1
  <2>4. b = 32 * q + r
    BY <2>1
  <2> QED
    BY <2>2, <2>3, <2>4
<1>2. b \div 32 = q
  OBVIOUS
<1> HIDE DEF q, r
<1>3. CASE q % 2 = 1
  <2>1. Flipped(b) = b - 32
    BY <1>2, <1>3 DEF Flipped
  <2>2. (b - 32) \div 32 = q - 1 /\ (q - 1) % 2 = 0 /\ q >= 1
    BY <1>1, <1>3
  <2>3. Flipped(b - 32) = (b - 32) + 32
    BY <2>2 DEF Flipped
  <2> QED
    BY <1>1, <2>1, <2>2, <2>3 DEF Byte
<1>4. CASE q % 2 # 1
  <2>1. Flipped(b) = b + 32
    BY <1>2, <1>4 DEF Flipped
  <2>2. (b + 32) \div 32 = q + 1 /\ (q + 1) % 2 = 1 /\ q <= 6
    BY <1>1, <1>4
  <2>3. Flipped(b + 32) = (b + 32) - 32
    BY <2>2 DEF Flipped
  <2> QED
    BY <1>1, <2>1, <2>2, <2>3 DEF Byte
<1> QED
  BY <1>3, <1>4

(* The cipher opens what it sealed, when both ends have done as many bytes. *)
LEMMA CipherComesBack ==
    ASSUME NEW in \in Text, NEW done \in Nat
    PROVE  /\ Encrypt(in, done) \in Text /\ Len(Encrypt(in, done)) = Len(in)
           /\ Decrypt(Encrypt(in, done), done) = in
<1> DEFINE n == Len(in)
           f == [i \in 1..n |-> (in[i] + Key(done + i)) % 256]
           g == [i \in 1..n |-> (f[i] - Key(done + i)) % 256]
<1>1. n \in Nat /\ DOMAIN in = 1..n /\ in \in [1..n -> Byte] /\ \A i \in 1..n : in[i] \in Byte
  BY DEF Text
<1>2. \A i \in 1..n : Key(done + i) \in Byte
  BY <1>1 DEF Key, Byte
<1>3. \A x, k \in Byte : (x + k) % 256 \in Byte /\ (((x + k) % 256) - k) % 256 = x
  <2>1. ASSUME NEW x \in Byte, NEW k \in Byte
        PROVE  (x + k) % 256 \in Byte /\ (((x + k) % 256) - k) % 256 = x
    <3>1. CASE x + k < 256
      <4>1. (x + k) % 256 = x + k
        BY <3>1 DEF Byte
      <4> QED
        BY <3>1, <4>1 DEF Byte
    <3>2. CASE ~(x + k < 256)
      <4>1. (x + k) % 256 = x + k - 256
        BY <3>2 DEF Byte
      <4>2. (x - 256) % 256 = x
        BY DEF Byte
      <4>3. (x + k - 256) - k = x - 256 /\ x + k - 256 \in 0..255
        BY <3>2 DEF Byte
      <4> QED
        BY <4>1, <4>2, <4>3 DEF Byte
    <3> QED
      BY <3>1, <3>2
  <2> QED
    BY <2>1
<1>4. f \in [1..n -> Byte]
  BY <1>1, <1>2, <1>3
<1>5. \A i \in 1..n : g[i] = in[i]
  BY <1>1, <1>2, <1>3
<1>6. g = in
  <2>1. g = [i \in 1..n |-> g[i]] /\ in = [i \in 1..n |-> in[i]]
    BY <1>1
  <2> HIDE DEF g
  <2> QED
    BY <1>5, <2>1
<1>7. Encrypt(in, done) = f
  BY <1>1 DEF Encrypt
<1> HIDE DEF f
<1>8. f \in Text /\ Len(f) = n /\ DOMAIN f = 1..n
  BY <1>1, <1>4 DEF Text
<1>9. Decrypt(f, done) = g
  BY <1>8 DEF Decrypt
<1> QED
  BY <1>6, <1>7, <1>8, <1>9

(* The compression leaves out a run, and the size says how long it was.    *)
LEMMA CompressionComesBack ==
    ASSUME NEW in \in Text, in # <<>>
    PROVE  /\ LZ4Compress(in) \in Text
           /\ LZ4Uncompress(LZ4Compress(in), Len(in)) = in
<1> DEFINE n == Len(in)
           last == in[n]
           T == {i \in 1..n : \A j \in i..n : in[j] = last}
           k == Min(T)
           out == SubSeq(in, 1, k)
<1>1. n \in Nat /\ n >= 1 /\ DOMAIN in = 1..n /\ in \in [1..n -> Byte]
      /\ \A i \in 1..n : in[i] \in Byte
  BY DEF Text
<1>2. Last(in) = last
  BY DEF Last
<1>3. n \in T
  <2>1. \A m \in Nat : \A j \in m..m : j = m
    OBVIOUS
  <2>2. \A j \in n..n : in[j] = last
    <3> HIDE DEF n
    <3> QED
      BY <1>1, <2>1
  <2> QED
    BY <1>1, <2>2
<1>4. T \in SUBSET Nat /\ T # {}
  BY <1>1, <1>3
<1> HIDE DEF T
<1>5. k \in T
  <2>1. \E i \in T : \A j \in T : i <= j
    BY <1>4, LeastOf
  <2> QED
    BY <2>1 DEF Min
<1>6. k \in 1..n /\ \A j \in k..n : in[j] = last
  BY <1>5 DEF T
<1> HIDE DEF k
<1>7. out \in Text /\ Len(out) = k /\ \A i \in 1..k : out[i] = in[i]
  <2>1. \A i \in 1..k : in[i] \in Byte
    BY <1>1, <1>6
  <2>2. k - 1 + 1 = k /\ 1 <= k /\ k \in Int /\ \A i \in 1..k : 1 + i - 1 = i
    BY <1>1, <1>6
  <2> QED
    BY <2>1, <2>2, SubSeqProperties DEF Text
<1>8. LZ4Compress(in) = out
  <2>1. {i \in DOMAIN in : \A j \in i..Len(in) : in[j] = Last(in)} = T
    BY <1>1, <1>2 DEF T
  <2> QED
    BY <2>1 DEF LZ4Compress, k
<1> HIDE DEF out
<1>9. Last(out) = last
  <2>1. out[k] = in[k] /\ in[k] = last
    BY <1>1, <1>6, <1>7
  <2> QED
    BY <1>7, <2>1 DEF Last
<1>10. LZ4Uncompress(out, n) = in
  <2> DEFINE u == [i \in 1..n |-> IF i <= k THEN out[i] ELSE last]
  <2>1. LZ4Uncompress(out, n) = u
    BY <1>7, <1>9 DEF LZ4Uncompress
  <2>2. \A i \in 1..n : u[i] = in[i]
    <3> TAKE i \in 1..n
    <3>1. CASE i <= k
      BY <1>1, <1>6, <1>7, <3>1
    <3>2. CASE ~(i <= k)
      <4>1. i \in k..n
        BY <1>1, <1>6, <3>2
      <4> QED
        BY <1>6, <3>2, <4>1
    <3> QED
      BY <3>1, <3>2
  <2>3. u = [i \in 1..n |-> u[i]] /\ in = [i \in 1..n |-> in[i]]
    BY <1>1
  <2> HIDE DEF u
  <2> QED
    BY <2>1, <2>2, <2>3
<1> QED
  BY <1>7, <1>8, <1>10

Undelimited == Byte \ {Delimiter}

LEMMA StuffedFacts ==
    ASSUME NEW b \in Byte
    PROVE  /\ Stuffed(b) \in Seq(Undelimited)
           /\ \/ b # Escape /\ Stuffed(b) = <<b>>
              \/ Stuffed(b) = <<Escape, Flipped(b)>>
<1>1. Escape \in Undelimited /\ Flipped(Escape) \in Undelimited
  BY WireAssumption, FlippedFacts DEF Undelimited
<1>2. CASE b \in {Delimiter, Escape}
  <2>1. Flipped(b) \in Undelimited
    BY <1>1, <1>2, FlippedFacts DEF Undelimited
  <2>2. Stuffed(b) = <<Escape, Flipped(b)>>
    BY <1>2 DEF Stuffed
  <2> QED
    BY <1>1, <2>1, <2>2
<1>3. CASE ~(b \in {Delimiter, Escape})
  <2>1. b \in Undelimited /\ Stuffed(b) = <<b>> /\ b # Escape
    BY <1>3 DEF Undelimited, Stuffed
  <2> QED
    BY <2>1
<1> QED
  BY <1>2, <1>3

(* How Decode goes through its bytes.                                      *)
Reads(read, s) ==
    /\ read[0] = [out |-> <<>>, escape |-> FALSE]
    /\ \A i \in 1..Len(s) : read[i] = Unstuff(read[i - 1], s[i])

LEMMA DecodeReads ==
    ASSUME NEW s \in Text
    PROVE  \E read : Reads(read, s) /\ Decode(s) = read[Len(s)].out
<1> DEFINE n == Len(s)
           A == [out : Text, escape : BOOLEAN]
           init == [out |-> <<>>, escape |-> FALSE]
           step == [i \in 1..n |-> [a \in A |-> Unstuff(a, s[i])]]
           Fold(g) == g = [i \in 0..n |-> IF i = 0 THEN init ELSE Unstuff(g[i - 1], s[i])]
           read == CHOOSE g : Fold(g)
<1>1. n \in Nat /\ \A i \in 1..n : s[i] \in Byte
  BY DEF Text
<1>2. init \in A
  BY DEF Text
<1>3. \A a \in A, b \in Byte : Unstuff(a, b) \in A
  BY FlippedFacts, AppendProperties DEF Unstuff, Text
<1> HIDE DEF A, init
<1>4. step \in [1..n -> [A -> A]]
  BY <1>1, <1>3
<1>5. \A i \in 1..n, a \in A : step[i][a] = Unstuff(a, s[i])
  OBVIOUS
<1> HIDE DEF step
<1>6. PICK f \in [0..n -> A] : f[0] = init /\ \A i \in 1..n : f[i] = step[i][f[i - 1]]
  <2>1. step \in Steps(A, n)
    BY <1>4 DEF Steps
  <2>2. Folds(A, n, init, step)
    BY <1>1, <1>2, <2>1, FoldDefined
  <2> QED
    BY <2>2 DEF Folds
<1>7. Fold(f)
  <2>1. ASSUME NEW i \in 0..n, i # 0 PROVE f[i] = Unstuff(f[i - 1], s[i])
    <3>1. i \in 1..n /\ i - 1 \in 0..n
      BY <1>1, <2>1
    <3>2. f[i - 1] \in A
      BY <3>1
    <3> QED
      BY <1>5, <1>6, <3>1, <3>2
  <2>2. \A i \in 0..n : f[i] = IF i = 0 THEN init ELSE Unstuff(f[i - 1], s[i])
    BY <1>6, <2>1
  <2>3. f = [i \in 0..n |-> f[i]]
    OBVIOUS
  <2> QED
    BY <2>2, <2>3
<1>8. Fold(read)
  <2> HIDE DEF Fold
  <2> QED
    BY <1>7
<1>9. Decode(s) = read[n].out
  BY DEF Decode, init
<1> HIDE DEF read
<1>10. \A i \in 0..n : read[i] = IF i = 0 THEN init ELSE Unstuff(read[i - 1], s[i])
  BY <1>8, Zenon
<1>11. \A i \in 1..n : read[i] = Unstuff(read[i - 1], s[i])
  <2>1. \A i \in 1..n : i \in 0..n /\ i # 0
    BY <1>1
  <2> QED
    BY <1>10, <2>1
<1>12. read[0] = init
  <2>1. 0 \in 0..n
    BY <1>1
  <2> QED
    BY <1>10, <2>1
<1> QED
  BY <1>9, <1>11, <1>12 DEF Reads, init

At(read, p, known) == read[Len(p)] = [out |-> known, escape |-> FALSE]

(* After the bytes of a piece it has read what the piece stands for.       *)
LEMMA PieceComesBack ==
    ASSUME NEW s \in Text, NEW read, Reads(read, s), NEW p \in Text, NEW b \in Byte,
           NEW known, At(read, p, known), Begins(p \o Stuffed(b), s, Byte)
    PROVE  At(read, p \o Stuffed(b), Append(known, b))
<1> DEFINE m == Len(p)
           piece == Stuffed(b)
<1>1. piece \in Seq(Undelimited) /\ piece \in Text
  <2>1. piece \in Seq(Undelimited)
    BY StuffedFacts
  <2>2. Undelimited \subseteq Byte
    BY DEF Undelimited
  <2> HIDE DEF piece
  <2> QED
    BY <2>1, <2>2, SeqMonotonic DEF Text
<1>2. PICK t \in Text : s = (p \o piece) \o t
  BY DEF Begins, Text
<1>3. /\ m \in Nat /\ Len(piece) \in Nat /\ p \o piece \in Text /\ Len(p \o piece) = m + Len(piece)
      /\ \A i \in 1..(m + Len(piece)) : (p \o piece)[i] = IF i <= m THEN p[i] ELSE piece[i - m]
  BY <1>1, ConcatProperties DEF Text
<1>4. /\ Len(s) = m + Len(piece) + Len(t) /\ Len(t) \in Nat
      /\ \A i \in 1..Len(p \o piece) : s[i] = (p \o piece)[i]
  <2>1. /\ Len(s) = Len(p \o piece) + Len(t) /\ Len(t) \in Nat
        /\ \A i \in 1..(Len(p \o piece) + Len(t)) : s[i] = IF i <= Len(p \o piece)
              THEN (p \o piece)[i] ELSE t[i - Len(p \o piece)]
    BY <1>2, <1>3, ConcatProperties DEF Text
  <2> HIDE DEF piece
  <2> QED
    BY <1>3, <2>1
<1>5. \A i \in 1..Len(piece) : m + i \in 1..Len(s) /\ s[m + i] = piece[i]
  <2> TAKE i \in 1..Len(piece)
  <2> HIDE DEF piece
  <2>1. m + i \in 1..(m + Len(piece)) /\ ~(m + i <= m) /\ (m + i) - m = i /\ m + i \in 1..Len(s)
    BY <1>3, <1>4
  <2>2. (p \o piece)[m + i] = piece[i]
    BY <1>3, <2>1
  <2> QED
    BY <1>3, <1>4, <2>1, <2>2
<1>0. read[m] = [out |-> known, escape |-> FALSE]
  BY DEF At
<1>6. \A i \in 1..Len(s) : read[i] = Unstuff(read[i - 1], s[i])
  BY DEF Reads
<1>7. CASE b # Escape /\ piece = <<b>>
  <2>1. Len(piece) = 1 /\ piece[1] = b
    BY <1>7
  <2> HIDE DEF At, piece
  <2>2. m + 1 \in 1..Len(s) /\ s[m + 1] = b /\ (m + 1) - 1 = m
    BY <1>3, <1>5, <2>1
  <2>3. read[m + 1] = Unstuff(read[(m + 1) - 1], s[m + 1])
    BY <1>6, <2>2
  <2>4. read[m + 1] = Unstuff([out |-> known, escape |-> FALSE], b)
    BY <1>0, <2>2, <2>3
  <2>5. Unstuff([out |-> known, escape |-> FALSE], b) = [out |-> Append(known, b), escape |-> FALSE]
    BY <1>7 DEF Unstuff
  <2> QED
    BY <1>3, <2>1, <2>4, <2>5 DEF At, piece
<1>8. CASE piece = <<Escape, Flipped(b)>>
  <2>1. Len(piece) = 2 /\ piece[1] = Escape /\ piece[2] = Flipped(b)
    BY <1>8
  <2> HIDE DEF At, piece
  <2>2. /\ m + 1 \in 1..Len(s) /\ s[m + 1] = Escape /\ (m + 1) - 1 = m
        /\ m + 2 \in 1..Len(s) /\ s[m + 2] = Flipped(b) /\ (m + 2) - 1 = m + 1
    BY <1>3, <1>5, <2>1
  <2>3. read[m + 1] = Unstuff(read[(m + 1) - 1], s[m + 1])
    BY <1>6, <2>2
  <2>4. read[m + 1] = Unstuff([out |-> known, escape |-> FALSE], Escape)
    BY <1>0, <2>2, <2>3
  <2>5. Unstuff([out |-> known, escape |-> FALSE], Escape) = [out |-> known, escape |-> TRUE]
    BY DEF Unstuff
  <2>6. read[m + 2] = Unstuff(read[(m + 2) - 1], s[m + 2])
    BY <1>6, <2>2
  <2>7. read[m + 2] = Unstuff([out |-> known, escape |-> TRUE], Flipped(b))
    BY <2>2, <2>4, <2>5, <2>6
  <2>8. Unstuff([out |-> known, escape |-> TRUE], Flipped(b))
          = [out |-> Append(known, Flipped(Flipped(b))), escape |-> FALSE]
    BY DEF Unstuff
  <2> QED
    BY <1>3, <2>1, <2>7, <2>8, FlippedFacts DEF At, piece
<1> QED
  BY <1>7, <1>8, StuffedFacts

LEMMA OneMore ==
    ASSUME NEW A, NEW s \in Seq(A), NEW i \in 1..Len(s)
    PROVE  SubSeq(s, 1, i) = Append(SubSeq(s, 1, i - 1), s[i])
<1>1. SubSeq(s, 1, i) = SubSeq(s, 1, i - 1) \o <<s[i]>>
  <2>1. 1 \in 1..Len(s) /\ i \in 1..Len(s)
    OBVIOUS
  <2> QED
    BY <2>1, SubSeqRecursiveSecond
<1>2. SubSeq(s, 1, i - 1) \in Seq(A) /\ s[i] \in A
  OBVIOUS
<1> QED
  BY <1>1, <1>2, AppendIsConcat

(* What was stuffed comes back, and holds no delimiter.                    *)
LEMMA StuffingComesBack ==
    ASSUME NEW in \in Text, in # <<>>
    PROVE  \E s \in Seq(Undelimited) :
               s # <<>> /\ Encode(in) = Append(s, Delimiter) /\ Decode(s) = in
<1> DEFINE n == Len(in)
           pieces == [i \in 1..n |-> Stuffed(in[i])]
<1>1. n \in Nat /\ n >= 1 /\ DOMAIN in = 1..n /\ \A i \in 1..n : in[i] \in Byte
  BY DEF Text
<1>2. pieces \in Seq(Seq(Undelimited)) /\ Len(pieces) = n
  BY <1>1, StuffedFacts
<1>3. \A i \in 1..n : pieces[i] = Stuffed(in[i])
  OBVIOUS
<1>4. Encode(in) = Append(FlattenSeq(pieces), Delimiter)
  BY <1>1 DEF Encode
<1> HIDE DEF pieces
<1>5. PICK out \in [0..n -> Seq(Undelimited)] : Joins(out, pieces) /\ FlattenSeq(pieces) = out[n]
  BY <1>2, Flattened
<1> DEFINE s == out[n]
<1>6. Undelimited \subseteq Byte
  BY DEF Undelimited
<1>7. \A i \in 0..n : out[i] \in Seq(Undelimited) /\ out[i] \in Text
  <2>1. \A i \in 0..n : out[i] \in Seq(Undelimited)
    BY <1>1, <1>5
  <2> QED
    BY <1>6, <2>1, SeqMonotonic DEF Text
<1>8. s \in Seq(Undelimited) /\ s \in Text
  BY <1>1, <1>7
<1>9. \A i \in 0..n : Begins(out[i], s, Undelimited)
  BY <1>2, <1>5, Beginnings
<1>10. \A i \in 0..n : Begins(out[i], s, Byte)
  <2> TAKE i \in 0..n
  <2>1. PICK r \in Seq(Undelimited) : s = out[i] \o r
    BY <1>9 DEF Begins
  <2>2. r \in Seq(Byte)
    BY <1>6, SeqMonotonic
  <2> QED
    BY <2>1, <2>2 DEF Begins
<1> HIDE DEF s
<1>11. out[0] = <<>> /\ \A i \in 1..n : out[i] = out[i - 1] \o Stuffed(in[i])
  BY <1>2, <1>3, <1>5 DEF Joins
<1>12. PICK read : Reads(read, s) /\ Decode(s) = read[Len(s)].out
  BY <1>8, DecodeReads
<1> DEFINE Good(i) == At(read, out[i], SubSeq(in, 1, i))
           S == {i \in Nat : i \in 0..n => Good(i)}
<1>13. 0 \in S
  <2>1. Len(out[0]) = 0 /\ SubSeq(in, 1, 0) = <<>>
    BY <1>11
  <2>2. Good(0)
    BY <1>12, <2>1 DEF Reads, At
  <2> QED
    BY <2>2
<1>14. ASSUME NEW k \in Nat, k \in S PROVE k + 1 \in S
  <2> SUFFICES ASSUME k + 1 \in 0..n PROVE Good(k + 1)
    OBVIOUS
  <2> DEFINE i == k + 1
  <2>1. i \in 1..n /\ i - 1 = k /\ k \in 0..n /\ i \in 0..n
    BY <1>1
  <2>2. Good(k)
    BY <1>14, <2>1
  <2> HIDE DEF i
  <2>3. out[i] = out[k] \o Stuffed(in[i])
    BY <1>11, <2>1
  <2>4. out[k] \in Text /\ in[i] \in Byte /\ Begins(out[k] \o Stuffed(in[i]), s, Byte)
    BY <1>1, <1>7, <1>10, <2>1, <2>3
  <2>5. At(read, out[k] \o Stuffed(in[i]), Append(SubSeq(in, 1, k), in[i]))
    <3> HIDE DEF s
    <3> QED
      BY <1>8, <1>12, <2>2, <2>4, PieceComesBack
  <2>6. Append(SubSeq(in, 1, k), in[i]) = SubSeq(in, 1, i)
    BY <1>1, <2>1, OneMore DEF Text
  <2> QED
    BY <2>3, <2>5, <2>6 DEF i
<1> HIDE DEF S
<1>15. n \in S
  BY <1>1, <1>13, <1>14, SetInduction
<1>16. Decode(s) = in
  <2>1. Good(n)
    BY <1>1, <1>15 DEF S
  <2>2. Decode(s) = SubSeq(in, 1, n)
    BY <1>12, <2>1 DEF s, At
  <2> QED
    BY <2>2, SubSeqFull DEF Text
<1>17. s # <<>>
  <2>1. out[1] = out[0] \o Stuffed(in[1]) /\ 1 \in 0..n /\ in[1] \in Byte
    <3>1. 1 \in 1..n /\ 1 - 1 = 0 /\ 1 \in 0..n
      BY <1>1
    <3>2. out[1] = out[1 - 1] \o Stuffed(in[1])
      BY <1>11, <3>1
    <3> QED
      BY <1>1, <3>1, <3>2
  <2>2. Stuffed(in[1]) \in Seq(Undelimited) /\ Len(Stuffed(in[1])) >= 1
    BY <2>1, StuffedFacts
  <2>3. Len(out[1]) >= 1
    <3>1. out[0] \in Seq(Undelimited) /\ Len(out[0]) = 0
      BY <1>11
    <3> QED
      BY <2>1, <2>2, <3>1, ConcatProperties
  <2>4. PICK r \in Seq(Undelimited) : s = out[1] \o r
    BY <1>9, <2>1 DEF Begins
  <2>5. Len(s) = Len(out[1]) + Len(r) /\ Len(r) \in Nat
    BY <1>7, <2>1, <2>4, ConcatProperties
  <2>6. Len(s) >= 1
    <3>1. Len(out[1]) \in Nat
      <4>1. out[1] \in Seq(Undelimited)
        BY <1>7, <2>1
      <4> QED
        BY <4>1
    <3> QED
      BY <2>3, <2>5, <3>1
  <2> QED
    BY <2>6
<1> QED
  BY <1>4, <1>5, <1>8, <1>16, <1>17 DEF s

Width == {0, 1, 2, 4}
Beginning == [left : Text, values : Seq(Seq(Nat))]

LEMMA ForemostFacts ==
    ASSUME NEW s \in Text, NEW n \in Nat
    PROVE  Foremost(s, n) \in Text /\ Len(Foremost(s, n)) \in 0..Len(s)
<1> DEFINE m == IF n <= Len(s) THEN n ELSE Len(s)
<1>1. m \in 0..Len(s) /\ Len(s) \in Nat
  BY DEF Text
<1> HIDE DEF m
<1>2. SubSeq(s, 1, m) \in Text /\ Len(SubSeq(s, 1, m)) = m
  BY <1>1 DEF Text
<1> QED
  BY <1>1, <1>2 DEF Foremost, m

LEMMA ForemostOf ==
    ASSUME NEW s \in Text, NEW t \in Text
    PROVE  Foremost(s \o t, Len(s)) = s
<1>1. Len(s) <= Len(s \o t)
  BY DEF Text
<1>2. SubSeq(s \o t, 1, Len(s)) = s
  BY ApartTexts
<1> QED
  BY <1>1, <1>2 DEF Foremost

LEMMA TakeStays ==
    ASSUME NEW read \in Beginning, NEW w \in Width
    PROVE  Take(read, w) \in Beginning
<1> DEFINE left == read.left
           size == IF w = 0 THEN 4 + Number(Foremost(left, 4)) ELSE w
           bytes == Foremost(left, size)
           value == IF w = 0 THEN SubSeq(bytes, 5, Len(bytes)) ELSE <<Number(bytes)>>
           rest == SubSeq(left, Len(bytes) + 1, Len(left))
<1>1. left \in Text /\ read.values \in Seq(Seq(Nat)) /\ Len(left) \in Nat
  BY DEF Beginning, Text
<1> HIDE DEF left
<1>2. size \in Nat
  BY <1>1, ForemostFacts, NumberIsNat DEF Width
<1> HIDE DEF size
<1>3. bytes \in Text /\ Len(bytes) \in 0..Len(left)
  BY <1>1, <1>2, ForemostFacts
<1> HIDE DEF bytes
<1>4. value \in Seq(Nat)
  <2>1. CASE w = 0
    <3>1. SubSeq(bytes, 5, Len(bytes)) \in Seq(Nat)
      <4>1. \A i \in 5..Len(bytes) : bytes[i] \in Nat
        <5> TAKE i \in 5..Len(bytes)
        <5>1. i \in 1..Len(bytes)
          BY <1>1, <1>3
        <5>2. bytes[i] \in Byte
          BY <1>3, <5>1, ElementOfSeq DEF Text
        <5> QED
          BY <5>2, BytesAreNumbers
      <4>2. Len(bytes) \in Int
        BY <1>1, <1>3
      <4> QED
        BY <4>1, <4>2, SubSeqProperties
    <3> QED
      BY <2>1, <3>1
  <2>2. CASE w # 0
    BY <1>3, <2>2, NumberIsNat
  <2> QED
    BY <2>1, <2>2
<1>5. rest \in Text
  <2>1. \A i \in (Len(bytes) + 1)..Len(left) : left[i] \in Byte
    BY <1>1, <1>3 DEF Text
  <2>2. Len(bytes) + 1 \in Int /\ Len(left) \in Int
    BY <1>1, <1>3
  <2> QED
    BY <2>1, <2>2, SubSeqProperties DEF Text
<1>6. Take(read, w) = [left |-> rest, values |-> Append(read.values, value)]
  BY DEF Take, left, size, bytes
<1> HIDE DEF value, rest
<1>7. Append(read.values, value) \in Seq(Seq(Nat))
  BY <1>1, <1>4, AppendProperties
<1> QED
  BY <1>5, <1>6, <1>7 DEF Beginning

(* A value is taken off the front as it was put there.                     *)
LEMMA TakesBack ==
    ASSUME NEW w \in Width, NEW value \in Seq(Nat), Fits(value, w), NEW rest \in Text, NEW known
    PROVE  /\ SerializedValue(value, w) \in Text
           /\ Take([left |-> SerializedValue(value, w) \o rest, values |-> known], w)
                = [left |-> rest, values |-> Append(known, value)]
<1> DEFINE v == SerializedValue(value, w)
           left == v \o rest
<1>1. ASSUME v \in Text, Foremost(left, IF w = 0 THEN 4 + Number(Foremost(left, 4)) ELSE w) = v,
             value = IF w = 0 THEN SubSeq(v, 5, Len(v)) ELSE <<Number(v)>>
      PROVE  Take([left |-> left, values |-> known], w)
                = [left |-> rest, values |-> Append(known, value)]
  <2>1. SubSeq(left, Len(v) + 1, Len(left)) = rest
    <3> HIDE DEF v
    <3> QED
      BY <1>1, ApartTexts
  <2> HIDE DEF v, left
  <2> QED
    BY <1>1, <2>1 DEF Take
<1>2. CASE w = 0
  <2> DEFINE h == Bytes(Len(value), 4)
  <2>1. value \in Text /\ Len(value) \in Nat /\ Len(value) \div Place[4] < 256
    BY <1>2, PlaceFacts DEF Fits, Text
  <2>2. h \in Text /\ Len(h) = 4 /\ Number(h) = Len(value)
    BY <2>1, NumberComesBack
  <2>3. v = h \o value
    BY <1>2 DEF SerializedValue
  <2> HIDE DEF h, v
  <2>4. v \in Text /\ Len(v) = 4 + Len(value)
    <3>1. value \in Text /\ h \in Text /\ Len(h) = 4
      BY <2>1, <2>2
    <3> QED
      BY <2>3, <3>1, TwoTexts
  <2>5. left = h \o (value \o rest) /\ value \o rest \in Text
    <3>1. value \in Text /\ h \in Text
      BY <2>1, <2>2
    <3> QED
      BY <2>3, <3>1, TwoTexts, ThreeTexts
  <2>6. Foremost(left, 4) = h
    <3> HIDE DEF left
    <3> QED
      BY <2>2, <2>5, ForemostOf
  <2>7. Foremost(left, 4 + Len(value)) = v
    BY <2>4, ForemostOf
  <2>8. SubSeq(v, 5, Len(v)) = value
    <3>1. SubSeq(v, Len(h) + 1, Len(v)) = value
      BY <2>1, <2>2, <2>3, ApartTexts
    <3>2. Len(h) + 1 = 5
      BY <2>2
    <3> QED
      BY <3>1, <3>2
  <2> HIDE DEF left
  <2> QED
    BY <1>1, <1>2, <2>2, <2>4, <2>6, <2>7, <2>8 DEF left, v
<1>3. CASE w # 0
  <2>1. Len(value) = 1 /\ value[1] \in Nat /\ value[1] \div Place[w] < 256 /\ w \in {1, 2, 4}
    <3>1. Len(value) = 1 /\ value[1] \div Place[w] < 256
      BY <1>3, SMTT(30) DEF Fits
    <3>2. 1 \in 1..Len(value) /\ value \in Seq(Nat)
      BY <3>1
    <3>3. value[1] \in Nat
      BY <3>2, ElementOfSeq
    <3>4. w \in {1, 2, 4}
      BY <1>3 DEF Width
    <3> QED
      BY <3>1, <3>3, <3>4
  <2>2. v = Bytes(value[1], w)
    BY <1>3 DEF SerializedValue
  <2> HIDE DEF v
  <2>3. v \in Text /\ Len(v) = w /\ Number(v) = value[1]
    BY <2>1, <2>2, NumberComesBack
  <2>4. Foremost(left, w) = v
    BY <2>3, ForemostOf
  <2>5. value = <<value[1]>>
    BY <2>1
  <2> HIDE DEF left
  <2> QED
    BY <1>1, <1>3, <2>3, <2>4, <2>5 DEF left, v
<1> QED
  BY <1>2, <1>3

(* How Values goes through its widths.                                     *)
Takes(read, body, widths) ==
    /\ read[0] = [left |-> body, values |-> <<>>]
    /\ \A i \in 1..Len(widths) : read[i] = Take(read[i - 1], widths[i])

LEMMA ValuesTakes ==
    ASSUME NEW body \in Text, NEW widths \in Seq(Width)
    PROVE  \E read : Takes(read, body, widths) /\ Values(body, widths) = read[Len(widths)].values
<1> DEFINE n == Len(widths)
           A == Beginning
           init == [left |-> body, values |-> <<>>]
           step == [i \in 1..n |-> [a \in A |-> Take(a, widths[i])]]
           Fold(g) == g = [i \in 0..n |-> IF i = 0 THEN init ELSE Take(g[i - 1], widths[i])]
           read == CHOOSE g : Fold(g)
<1>1. n \in Nat /\ \A i \in 1..n : widths[i] \in Width
  OBVIOUS
<1>2. init \in A
  BY DEF Beginning
<1>3. \A a \in A, w \in Width : Take(a, w) \in A
  BY TakeStays
<1> HIDE DEF A, init
<1>4. step \in [1..n -> [A -> A]]
  BY <1>1, <1>3
<1>5. \A i \in 1..n, a \in A : step[i][a] = Take(a, widths[i])
  OBVIOUS
<1> HIDE DEF step
<1>6. PICK f \in [0..n -> A] : f[0] = init /\ \A i \in 1..n : f[i] = step[i][f[i - 1]]
  <2>1. step \in Steps(A, n)
    BY <1>4 DEF Steps
  <2>2. Folds(A, n, init, step)
    BY <1>1, <1>2, <2>1, FoldDefined
  <2> QED
    BY <2>2 DEF Folds
<1>7. Fold(f)
  <2>1. ASSUME NEW i \in 0..n, i # 0 PROVE f[i] = Take(f[i - 1], widths[i])
    <3>1. i \in 1..n /\ i - 1 \in 0..n
      BY <1>1, <2>1
    <3>2. f[i - 1] \in A
      BY <3>1
    <3> QED
      BY <1>5, <1>6, <3>1, <3>2
  <2>2. \A i \in 0..n : f[i] = IF i = 0 THEN init ELSE Take(f[i - 1], widths[i])
    BY <1>6, <2>1
  <2>3. f = [i \in 0..n |-> f[i]]
    OBVIOUS
  <2> QED
    BY <2>2, <2>3
<1>8. Fold(read)
  <2> HIDE DEF Fold
  <2> QED
    BY <1>7
<1>9. Values(body, widths) = read[n].values
  BY DEF Values, init
<1> HIDE DEF read
<1>10. \A i \in 0..n : read[i] = IF i = 0 THEN init ELSE Take(read[i - 1], widths[i])
  BY <1>8, Zenon
<1>11. \A i \in 1..n : read[i] = Take(read[i - 1], widths[i])
  <2>1. \A i \in 1..n : i \in 0..n /\ i # 0
    BY <1>1
  <2> QED
    BY <1>10, <2>1
<1>12. read[0] = init
  <2>1. 0 \in 0..n
    BY <1>1
  <2> QED
    BY <1>10, <2>1
<1> QED
  BY <1>9, <1>11, <1>12 DEF Takes, init

(* The values of a command come back from its body.                        *)
LEMMA ValuesComeBack ==
    ASSUME NEW widths \in Seq(Width), NEW values \in Seq(Seq(Nat)), Len(values) = Len(widths),
           \A i \in DOMAIN values : Fits(values[i], widths[i])
    PROVE  /\ Serialize(values, widths) \in Text
           /\ Values(Serialize(values, widths), widths) = values
<1> DEFINE n == Len(widths)
           pieces == [i \in 1..n |-> SerializedValue(values[i], widths[i])]
<1>1. /\ n \in Nat /\ DOMAIN values = 1..n
      /\ \A i \in 1..n : values[i] \in Seq(Nat) /\ widths[i] \in Width /\ Fits(values[i], widths[i])
  <2>1. n \in Nat /\ DOMAIN values = 1..n
    BY LenProperties
  <2> HIDE DEF n
  <2>2. \A i \in 1..n : values[i] \in Seq(Nat)
    <3> TAKE i \in 1..n
    <3>1. i \in 1..Len(values)
      BY DEF n
    <3> QED
      BY <3>1, ElementOfSeq
  <2>3. \A i \in 1..n : widths[i] \in Width
    BY ElementOfSeq DEF n
  <2> QED
    BY <2>1, <2>2, <2>3
<1>2. pieces \in Seq(Text) /\ Len(pieces) = n
  <2>1. <<>> \in Text
    BY DEF Text
  <2>2. \A i \in 1..n : SerializedValue(values[i], widths[i]) \in Text
    BY <1>1, <2>1, TakesBack
  <2>3. pieces \in [1..n -> Text]
    BY <2>2
  <2> HIDE DEF pieces
  <2> QED
    BY <1>1, <2>3, SequenceOf
<1>3. \A i \in 1..n : pieces[i] = SerializedValue(values[i], widths[i])
  OBVIOUS
<1>4. Serialize(values, widths) = FlattenSeq(pieces)
  BY <1>1 DEF Serialize
<1> HIDE DEF pieces
<1>5. PICK out \in [0..n -> Text] : Joins(out, pieces) /\ FlattenSeq(pieces) = out[n]
  BY <1>2, Flattened DEF Text
<1> DEFINE s == out[n]
           Rest(i) == SubSeq(s, Len(out[i]) + 1, Len(s))
           Good(i, read) == read[i] = [left |-> Rest(i), values |-> SubSeq(values, 1, i)]
<1>6. s \in Text
  BY <1>1, <1>5
<1>7. \A i \in 0..n : out[i] \in Text /\ Begins(out[i], s, Byte)
  BY <1>2, <1>5, Beginnings DEF Text
<1> HIDE DEF s
<1>8. \A i \in 1..n : out[i] = out[i - 1] \o SerializedValue(values[i], widths[i])
  BY <1>2, <1>3, <1>5 DEF Joins
<1>9. PICK read : Takes(read, s, widths) /\ Values(s, widths) = read[n].values
  BY <1>6, ValuesTakes
<1> DEFINE S == {i \in Nat : i \in 0..n => Good(i, read)}
<1>10. 0 \in S
  <2>1. Len(out[0]) = 0 /\ SubSeq(values, 1, 0) = <<>> /\ SubSeq(s, 1, Len(s)) = s
    BY <1>5, <1>6, SubSeqFull DEF Joins, Text
  <2>2. Good(0, read)
    BY <1>9, <2>1 DEF Takes
  <2> QED
    BY <2>2
<1>11. ASSUME NEW k \in Nat, k \in S PROVE k + 1 \in S
  <2> SUFFICES ASSUME k + 1 \in 0..n PROVE Good(k + 1, read)
    OBVIOUS
  <2> DEFINE i == k + 1
             piece == SerializedValue(values[i], widths[i])
  <2>1. i \in 1..n /\ i - 1 = k /\ k \in 0..n /\ i \in 0..n
    BY <1>1
  <2>2. Good(k, read)
    BY <1>11, <2>1
  <2> HIDE DEF i, S
  <2>3. out[i] = out[k] \o piece
    BY <1>8, <2>1
  <2>4. out[k] \in Text /\ out[i] \in Text /\ Begins(out[i], s, Byte)
    BY <1>7, <2>1
  <2>5. PICK t \in Text : s = out[i] \o t
    BY <2>4 DEF Begins, Text
  <2>6. /\ piece \in Text
        /\ Take([left |-> piece \o t, values |-> SubSeq(values, 1, k)], widths[i])
              = [left |-> t, values |-> Append(SubSeq(values, 1, k), values[i])]
    BY <1>1, <2>1, TakesBack
  <2> HIDE DEF piece
  <2>7. s = out[k] \o (piece \o t) /\ piece \o t \in Text
    <3>1. out[k] \in Text /\ piece \in Text /\ t \in Text
      BY <2>4, <2>5, <2>6
    <3>2. piece \o t \in Text
      BY <3>1, TwoTexts
    <3>3. (out[k] \o piece) \o t = out[k] \o (piece \o t)
      BY <3>1, ThreeTexts
    <3> QED
      BY <2>3, <2>5, <3>2, <3>3
  <2>8. Rest(k) = piece \o t
    BY <2>4, <2>7, ApartTexts
  <2>9. Rest(i) = t
    BY <2>4, <2>5, ApartTexts
  <2>10. read[i] = Take(read[i - 1], widths[i])
    BY <1>9, <2>1 DEF Takes
  <2>11. Append(SubSeq(values, 1, k), values[i]) = SubSeq(values, 1, i)
    BY <1>1, <2>1, OneMore
  <2> HIDE DEF Rest
  <2> QED
    BY <2>1, <2>2, <2>6, <2>8, <2>9, <2>10, <2>11 DEF i
<1> HIDE DEF S
<1>12. n \in S
  BY <1>1, <1>10, <1>11, SetInduction
<1>13. Values(s, widths) = values
  <2>1. Good(n, read)
    BY <1>1, <1>12 DEF S
  <2>2. Values(s, widths) = SubSeq(values, 1, n)
    BY <1>9, <2>1
  <2> QED
    BY <2>2, SubSeqFull
<1> QED
  BY <1>4, <1>5, <1>6, <1>13 DEF s

LEMMA CommandFacts ==
    ASSUME NEW c \in Commands
    PROVE  /\ c.header \in 0..239 /\ c.values \in Seq(Seq(Nat))
           /\ c = [header |-> c.header, values |-> c.values]
           /\ Types[c.header] \in Seq(Width) /\ Len(c.values) = Len(Types[c.header])
           /\ \A i \in DOMAIN c.values : Fits(c.values[i], Types[c.header][i])
           /\ Shrinks(c) => Len(Message(c)) < 65535
<1>1. c \in [header : DOMAIN Types \cap 0..(LZ4_COMPRESS_HEADER - 1), values : Seq(Seq(Nat))]
  BY WireAssumption
<1>2. LZ4_COMPRESS_HEADER - 1 = 239
  BY DEF LZ4_COMPRESS_HEADER
<1>3. /\ Types[c.header] \in Seq(Width) /\ Len(c.values) = Len(Types[c.header])
      /\ \A i \in DOMAIN c.values : Fits(c.values[i], Types[c.header][i])
      /\ Shrinks(c) => Len(Message(c)) < 65535
  BY WireAssumption DEF Width
<1>4. /\ c.header \in 0..239 /\ c.values \in Seq(Seq(Nat))
      /\ c = [header |-> c.header, values |-> c.values]
  BY <1>1, <1>2
<1> QED
  BY <1>3, <1>4

\* What is known of a text put together from two.
Joined(s, t) ==
    /\ s \o t \in Text /\ Len(s) \in Nat /\ Len(t) \in Nat
    /\ Len(s \o t) = Len(s) + Len(t)
    /\ \A i \in 1..Len(s) : (s \o t)[i] = s[i]
    /\ \A i \in 1..Len(t) : (s \o t)[Len(s) + i] = t[i]
    /\ SubSeq(s \o t, Len(s) + 1, Len(s \o t)) = t

LEMMA Together ==
    ASSUME NEW s \in Text, NEW t \in Text
    PROVE  Joined(s, t)
<1>1. s \in Seq(Byte) /\ t \in Seq(Byte)
  BY DEF Text
<1>2. /\ s \o t \in Seq(Byte)
      /\ Len(s \o t) = Len(s) + Len(t)
      /\ \A i \in 1..(Len(s) + Len(t)) : (s \o t)[i] = IF i <= Len(s) THEN s[i] ELSE t[i - Len(s)]
  BY <1>1, ConcatProperties
<1>3. Len(s) \in Nat /\ Len(t) \in Nat
  BY <1>1
<1>4. \A i \in 1..Len(s) : (s \o t)[i] = s[i]
  BY <1>2, <1>3
<1>5. \A i \in 1..Len(t) : (s \o t)[Len(s) + i] = t[i]
  <2> TAKE i \in 1..Len(t)
  <2>1. Len(s) + i \in 1..(Len(s) + Len(t)) /\ ~(Len(s) + i <= Len(s)) /\ (Len(s) + i) - Len(s) = i
    BY <1>3
  <2> QED
    BY <1>2, <2>1
<1>6. SubSeq(s \o t, Len(s) + 1, Len(s \o t)) = t
  BY <1>1, Apart
<1> QED
  BY <1>2, <1>3, <1>4, <1>5, <1>6 DEF Text, Joined

LEMMA MessageFacts ==
    ASSUME NEW c \in Commands
    PROVE  /\ Message(c) \in Text /\ Len(Message(c)) >= 1 /\ Message(c)[1] = c.header
           /\ Command(Message(c)) = c
<1> DEFINE body == Body(c)
           msg == Message(c)
           first == <<c.header>>
<1>1. body \in Text /\ Values(body, Types[c.header]) = c.values
  BY CommandFacts, ValuesComeBack DEF Body
<1>2. msg = first \o body
  BY DEF Message
<1> HIDE DEF body, msg
<1>3. first \in Text /\ Len(first) = 1 /\ first[1] = c.header
  BY CommandFacts DEF Text, Byte
<1> HIDE DEF first
<1>4. /\ msg \in Text /\ Len(msg) = 1 + Len(body) /\ Len(body) \in Nat
      /\ msg[1] = c.header
  <2>1. Joined(first, body)
    BY <1>1, <1>3, Together
  <2> QED
    BY <1>2, <1>3, <2>1 DEF Joined
<1>5. Tail(msg) = body
  <2>1. SubSeq(msg, Len(first) + 1, Len(msg)) = body
    BY <1>1, <1>2, <1>3, ApartTexts
  <2>2. msg # <<>>
    BY <1>4
  <2> QED
    BY <1>3, <1>4, <2>1, <2>2, TailIsSubSeq DEF Text
<1>6. Command(msg) = [header |-> c.header, values |-> c.values]
  BY <1>1, <1>4, <1>5 DEF Command
<1> QED
  BY <1>4, <1>6, CommandFacts DEF msg

(* A message comes out of its compression, and never begins as a sealed    *)
(* one.                                                                    *)
LEMMA MessageComesBack ==
    ASSUME NEW c \in Commands
    PROVE  /\ Packed(c) \in Text /\ Packed(c) # <<>> /\ Packed(c)[1] # ENCRYPT_HEADER
           /\ Command(Unpacked(Packed(c))) = c
<1> DEFINE msg == Message(c)
           n == Len(msg)
           z == LZ4Compress(msg)
           size == Bytes(n, 2)
           h == <<LZ4_COMPRESS_HEADER>>
           packed == (h \o size) \o z
<1>1. msg \in Text /\ n \in Nat /\ n >= 1 /\ msg[1] \in 0..239 /\ Command(msg) = c
  <2>1. msg \in Text /\ n >= 1 /\ msg[1] = c.header /\ Command(msg) = c
    BY MessageFacts
  <2>2. c.header \in 0..239
    BY CommandFacts
  <2> HIDE DEF msg
  <2> QED
    BY <2>1, <2>2 DEF Text
<1>2. CASE Shrinks(c)
  <2>1. n < 65535
    BY <1>2, CommandFacts, SMTT(60)
  <2> HIDE DEF msg
  <2>2. n \div 256 < 256
    BY <1>1, <2>1, SMTT(60)
  <2>3. size \in Text /\ Len(size) = 2 /\ Number(size) = n
    BY <1>1, <2>2, NumberComesBack, PlaceFacts
  <2>4. z \in Text /\ LZ4Uncompress(z, n) = msg
    <3>1. msg # <<>>
      BY <1>1
    <3> QED
      BY <1>1, <3>1, CompressionComesBack
  <2>5. h \in Text /\ Len(h) = 1 /\ h[1] = 240
    BY DEF LZ4_COMPRESS_HEADER, Text, Byte
  <2>6. Packed(c) = packed
    BY <1>2 DEF Packed, msg
  <2> HIDE DEF n, size, z, h
  <2>7. h \o size \in Text /\ Len(h \o size) = 3
    <3>1. Joined(h, size)
      BY <2>3, <2>5, Together
    <3> QED
      BY <2>3, <2>5, <3>1 DEF Joined
  <2>8. packed \in Text /\ Len(packed) >= 3 /\ Len(packed) \in Nat
    <3> DEFINE hs == h \o size
    <3>1. Joined(hs, z) /\ Len(hs) = 3
      BY <2>4, <2>7, Together
    <3> HIDE DEF hs
    <3>2. hs \o z \in Text /\ Len(hs \o z) >= 3 /\ Len(hs \o z) \in Nat
      BY <3>1 DEF Joined
    <3> QED
      BY <3>2 DEF hs
  <2>10. /\ packed[1] = 240 /\ packed[2] = size[1] /\ packed[3] = size[2]
         /\ SubSeq(packed, 4, Len(packed)) = z
    <3> DEFINE hs == h \o size
    <3>1. hs[1] = 240 /\ hs[2] = size[1] /\ hs[3] = size[2]
      <4>1. hs[1] = h[1] /\ hs[Len(h) + 1] = size[1] /\ hs[Len(h) + 2] = size[2]
        <5>1. Joined(h, size)
          BY <2>3, <2>5, Together
        <5>2. 1 \in 1..Len(h) /\ 1 \in 1..Len(size) /\ 2 \in 1..Len(size)
          BY <2>3, <2>5
        <5>3. \A i \in 1..Len(h) : (h \o size)[i] = h[i]
          BY <5>1 DEF Joined
        <5>4. \A i \in 1..Len(size) : (h \o size)[Len(h) + i] = size[i]
          BY <5>1 DEF Joined
        <5> HIDE DEF h, size
        <5>5. (h \o size)[1] = h[1]
          BY <5>2, <5>3
        <5>6. (h \o size)[Len(h) + 1] = size[1]
          BY <5>2, <5>4
        <5>7. (h \o size)[Len(h) + 2] = size[2]
          BY <5>2, <5>4
        <5> QED
          BY <5>5, <5>6, <5>7
      <4>2. Len(h) + 1 = 2 /\ Len(h) + 2 = 3 /\ h[1] = 240
        BY <2>5
      <4> HIDE DEF h, size, hs
      <4> QED
        BY <4>1, <4>2, Zenon
    <3>2. hs \in Text /\ Len(hs) = 3
      BY <2>7
    <3> HIDE DEF hs
    <3>0. Joined(hs, z)
      BY <2>4, <3>2, Together
    <3>3. \A i \in 1..3 : (hs \o z)[i] = hs[i]
      BY <3>0, <3>2 DEF Joined
    <3>4. SubSeq(hs \o z, Len(hs) + 1, Len(hs \o z)) = z
      BY <3>0 DEF Joined
    <3>5. Len(hs) + 1 = 4
      BY <3>2
    <3> QED
      BY <3>1, <3>3, <3>4, <3>5 DEF hs
  <2>12. SubSeq(packed, 2, 3) = size
    <3> DEFINE p == SubSeq(packed, 2, 3)
    <3> HIDE DEF packed
    <3>5. p \in Text /\ Len(p) = 2 /\ p[1] = packed[2] /\ p[2] = packed[3]
      BY <2>8 DEF Text
    <3> HIDE DEF p
    <3>6. \A i \in 1..2 : p[i] = size[i]
      BY <2>10, <3>5
    <3>7. p = size
      BY <2>3, <3>5, <3>6, SeqEqual DEF Text
    <3> QED
      BY <3>7 DEF p
  <2> HIDE DEF packed
  <2>13. Unpacked(packed) = msg
    BY <2>3, <2>4, <2>10, <2>12 DEF Unpacked, LZ4_COMPRESS_HEADER
  <2> QED
    BY <1>1, <2>6, <2>8, <2>10, <2>13 DEF ENCRYPT_HEADER
<1>3. CASE ~Shrinks(c)
  <2>1. Packed(c) = msg
    BY <1>3 DEF Packed
  <2> HIDE DEF msg
  <2>2. msg[1] # 240 /\ msg[1] # 241
    <3>1. \A x \in 0..239 : x # 240 /\ x # 241
      OBVIOUS
    <3>2. msg[1] \in 0..239
      BY <1>1
    <3> QED
      BY <3>1, <3>2, Zenon
  <2>4. msg # <<>>
    BY <1>1
  <2>3. Unpacked(msg) = msg
    BY <2>2 DEF Unpacked, LZ4_COMPRESS_HEADER
  <2> QED
    BY <1>1, <2>1, <2>2, <2>3, <2>4 DEF ENCRYPT_HEADER
<1> QED
  BY <1>2, <1>3

-----------------------------------------------------------------------------
\* What Post puts on the stream, and how far the cipher is then.
Plain(e, c, done) ==
    IF e THEN <<ENCRYPT_HEADER>> \o Encrypt(Packed(c), done) ELSE Packed(c)
Framed(e, c, done) == Encode(Plain(e, c, done))
Further(e, c, done) == IF e THEN done + Len(Packed(c)) ELSE done

Ready == [left : Text, opening : Nat, fetched : Seq(Commands)]

(* The bytes of a command, given to Handed where the cipher of the other   *)
(* end is as far, are that command.                                        *)
LEMMA FrameComesBack ==
    ASSUME NEW e \in BOOLEAN, NEW c \in Commands, NEW done \in Nat
    PROVE  /\ Further(e, c, done) \in Nat
           /\ \E s \in Seq(Undelimited) :
                /\ Framed(e, c, done) = Append(s, Delimiter)
                /\ \A state \in Ready : state.opening = done =>
                     Handed(state, s) = [left |-> state.left, opening |-> Further(e, c, done),
                                         fetched |-> Append(state.fetched, c)]
<1> DEFINE packed == Packed(c)
           plain == Plain(e, c, done)
           next == Further(e, c, done)
<1>1. packed \in Text /\ packed # <<>> /\ packed[1] # ENCRYPT_HEADER /\ Command(Unpacked(packed)) = c
  BY MessageComesBack
<1>2. next \in Nat
  BY <1>1 DEF Further, Text
<1>3. /\ plain \in Text /\ plain # <<>>
      /\ Opened(plain, done) = packed
      /\ next = IF Sealed(plain) THEN done + Len(plain) - 1 ELSE done
  <2> HIDE DEF packed
  <2>1. CASE e
    <3> DEFINE secret == Encrypt(packed, done)
               h == <<ENCRYPT_HEADER>>
    <3>1. plain = h \o secret
      BY <2>1 DEF Plain, packed
    <3>2. secret \in Text /\ Len(secret) = Len(packed) /\ Decrypt(secret, done) = packed
      BY <1>1, CipherComesBack
    <3>3. h \in Text /\ Len(h) = 1 /\ h[1] = 241
      BY DEF ENCRYPT_HEADER, Text, Byte
    <3> HIDE DEF secret, h, plain
    <3>4. /\ plain \in Text /\ Len(plain) = 1 + Len(packed) /\ Len(packed) \in Nat
          /\ plain[1] = 241
      <4>1. Joined(h, secret)
        BY <3>2, <3>3, Together
      <4> QED
        BY <3>1, <3>2, <3>3, <4>1 DEF Joined
    <3>5. plain # <<>>
      BY <3>4
    <3>6. Tail(plain) = secret
      <4>1. SubSeq(plain, Len(h) + 1, Len(plain)) = secret
        BY <3>1, <3>2, <3>3, ApartTexts
      <4> QED
        BY <3>3, <3>4, <3>5, <4>1, TailIsSubSeq DEF Text
    <3>7. Sealed(plain)
      BY <3>4 DEF Sealed, ENCRYPT_HEADER
    <3>8. next = done + Len(packed)
      BY <2>1 DEF Further, packed
    <3>9. Opened(plain, done) = packed
      BY <3>2, <3>6, <3>7 DEF Opened
    <3>10. next = done + Len(plain) - 1
      BY <3>4, <3>8
    <3> QED
      BY <3>4, <3>5, <3>7, <3>9, <3>10
  <2>2. CASE ~e
    <3>1. plain = packed
      BY <2>2 DEF Plain, packed
    <3>2. ~Sealed(packed)
      BY <1>1 DEF Sealed
    <3>3. next = done
      BY <2>2 DEF Further
    <3> QED
      BY <1>1, <3>1, <3>2, <3>3 DEF Opened
  <2> QED
    BY <2>1, <2>2
<1> HIDE DEF packed, plain, next
<1>4. PICK s \in Seq(Undelimited) :
          s # <<>> /\ Encode(plain) = Append(s, Delimiter) /\ Decode(s) = plain
  BY <1>3, StuffingComesBack
<1>5. ASSUME NEW state \in Ready, state.opening = done
      PROVE  Handed(state, s) = [left |-> state.left, opening |-> next,
                                 fetched |-> Append(state.fetched, c)]
  <2>1. Handed(state, s) = [state EXCEPT
                !.opening = IF Sealed(plain) THEN @ + Len(plain) - 1 ELSE @,
                !.fetched = Append(@, Command(Unpacked(Opened(plain, state.opening))))]
    BY <1>4 DEF Handed
  <2>2. state = [left |-> state.left, opening |-> state.opening, fetched |-> state.fetched]
    BY DEF Ready
  <2>3. Handed(state, s) = [left |-> state.left,
                opening |-> IF Sealed(plain) THEN state.opening + Len(plain) - 1 ELSE state.opening,
                fetched |-> Append(state.fetched, Command(Unpacked(Opened(plain, state.opening))))]
    BY <2>1, <2>2
  <2> QED
    BY <1>1, <1>3, <1>5, <2>3
<1> QED
  BY <1>2, <1>4, <1>5 DEF Framed, next, plain

\* The bytes are those of the commands; the cipher goes from one count to the other.
Chain(e, cmds, b, o) ==
    \A i \in 1..Len(cmds) :
        b[i - 1] = Framed(e, cmds[i], o[i - 1]) \o b[i] /\ o[i] = Further(e, cmds[i], o[i - 1])
Carries(e, bytes, cmds, from, to) ==
    \E b \in [0..Len(cmds) -> Text], o \in [0..Len(cmds) -> Nat] :
        /\ b[0] = bytes /\ o[0] = from /\ b[Len(cmds)] = <<>> /\ o[Len(cmds)] = to
        /\ Chain(e, cmds, b, o)

LEMMA CarriesNone ==
    ASSUME NEW e \in BOOLEAN, NEW bytes, NEW cmds, NEW from, NEW to,
           Carries(e, bytes, cmds, from, to), cmds = <<>>
    PROVE  bytes = <<>>
<1>1. Len(cmds) = 0
  OBVIOUS
<1> QED
  BY <1>1 DEF Carries

LEMMA FramedIsText ==
    ASSUME NEW e \in BOOLEAN, NEW c \in Commands, NEW done \in Nat
    PROVE  Framed(e, c, done) \in Text /\ Further(e, c, done) \in Nat
<1>1. PICK s \in Seq(Undelimited) : Framed(e, c, done) = Append(s, Delimiter)
  BY FrameComesBack
<1>2. s \in Seq(Byte) /\ Delimiter \in Byte
  <2>1. Undelimited \subseteq Byte
    BY DEF Undelimited
  <2> QED
    BY <2>1, SeqMonotonic, WireAssumption
<1>3. Append(s, Delimiter) \in Seq(Byte)
  BY <1>2, AppendProperties
<1> QED
  BY <1>1, <1>3, FrameComesBack DEF Text

(* The first of the commands comes first, and the others after it.         *)
LEMMA CarriesFirst ==
    ASSUME NEW e \in BOOLEAN, NEW bytes, NEW cmds \in Seq(Commands), NEW from \in Nat, NEW to,
           Carries(e, bytes, cmds, from, to), cmds # <<>>
    PROVE  \E rest \in Text :
               /\ bytes = Framed(e, cmds[1], from) \o rest
               /\ Carries(e, rest, Tail(cmds), Further(e, cmds[1], from), to)
<1> DEFINE n == Len(cmds)
           more == Tail(cmds)
<1>1. n \in Nat /\ n >= 1
  OBVIOUS
<1>2. more \in Seq(Commands) /\ Len(more) = n - 1 /\ \A i \in 1..(n - 1) : more[i] = cmds[i + 1]
  BY HeadTailProperties
<1> HIDE DEF more
<1>3. PICK b \in [0..n -> Text] : \E o \in [0..n -> Nat] :
        /\ b[0] = bytes /\ o[0] = from /\ b[n] = <<>> /\ o[n] = to
        /\ Chain(e, cmds, b, o)
  BY DEF Carries
<1>4. PICK o \in [0..n -> Nat] :
        /\ b[0] = bytes /\ o[0] = from /\ b[n] = <<>> /\ o[n] = to
        /\ Chain(e, cmds, b, o)
  BY <1>3
<1> HIDE DEF n
<1>5. \A i \in 1..n : b[i - 1] = Framed(e, cmds[i], o[i - 1]) \o b[i]
                      /\ o[i] = Further(e, cmds[i], o[i - 1])
  BY <1>4 DEF Chain, n
<1> DEFINE bb == [i \in 0..(n - 1) |-> b[i + 1]]
           oo == [i \in 0..(n - 1) |-> o[i + 1]]
<1>6. \A i \in 0..(n - 1) : i + 1 \in 0..n
  BY <1>1
<1>7. bb \in [0..(n - 1) -> Text] /\ oo \in [0..(n - 1) -> Nat]
  BY <1>6
<1>8. \A i \in 0..(n - 1) : bb[i] = b[i + 1] /\ oo[i] = o[i + 1]
  OBVIOUS
<1> HIDE DEF bb, oo
<1>9. /\ bytes = Framed(e, cmds[1], from) \o b[1] /\ o[1] = Further(e, cmds[1], from)
  <2>1. 1 \in 1..n /\ 1 - 1 = 0
    BY <1>1
  <2>2. b[1 - 1] = Framed(e, cmds[1], o[1 - 1]) \o b[1] /\ o[1] = Further(e, cmds[1], o[1 - 1])
    BY <1>5, <2>1
  <2> QED
    BY <1>4, <2>1, <2>2
<1>10. bb[0] = b[1] /\ oo[0] = o[1] /\ bb[n - 1] = <<>> /\ oo[n - 1] = to
  <2>1. 0 \in 0..(n - 1) /\ n - 1 \in 0..(n - 1) /\ 0 + 1 = 1 /\ (n - 1) + 1 = n
    BY <1>1
  <2>2. bb[n - 1] = b[(n - 1) + 1] /\ oo[n - 1] = o[(n - 1) + 1]
    BY <1>8, <2>1
  <2>3. bb[0] = b[0 + 1] /\ oo[0] = o[0 + 1]
    BY <1>8, <2>1
  <2> QED
    BY <1>4, <2>1, <2>2, <2>3
<1>11. Chain(e, more, bb, oo)
  <2>1. ASSUME NEW i \in 1..(n - 1)
        PROVE  /\ bb[i - 1] = Framed(e, more[i], oo[i - 1]) \o bb[i]
               /\ oo[i] = Further(e, more[i], oo[i - 1])
    <3> DEFINE k == i + 1
    <3>1. k \in 1..n /\ k - 1 = i /\ i \in 0..(n - 1) /\ i - 1 \in 0..(n - 1) /\ (i - 1) + 1 = i
      BY <1>1
    <3>2. b[k - 1] = Framed(e, cmds[k], o[k - 1]) \o b[k] /\ o[k] = Further(e, cmds[k], o[k - 1])
      BY <1>5, <3>1
    <3>3. bb[i] = b[k] /\ oo[i] = o[k]
      BY <1>8, <3>1
    <3>4. bb[i - 1] = b[(i - 1) + 1] /\ oo[i - 1] = o[(i - 1) + 1]
      BY <1>8, <3>1
    <3>5. more[i] = cmds[k]
      BY <1>2
    <3> HIDE DEF k
    <3> QED
      BY <3>1, <3>2, <3>3, <3>4, <3>5
  <2> QED
    BY <1>2, <2>1 DEF Chain
<1>12. Carries(e, b[1], more, Further(e, cmds[1], from), to)
  BY <1>2, <1>7, <1>9, <1>10, <1>11 DEF Carries
<1>13. b[1] \in Text
  <2>1. 1 \in 0..n
    BY <1>1
  <2> QED
    BY <2>1
<1> QED
  BY <1>9, <1>12, <1>13 DEF more

LEMMA Bracketed ==
    ASSUME NEW r \in Text, NEW s \in Text, NEW t \in Text
    PROVE  (r \o s) \o t = r \o (s \o t)
  BY ConcatAssociative DEF Text

(* One more command goes on at the end.                                    *)
LEMMA CarriesMore ==
    ASSUME NEW e \in BOOLEAN, NEW bytes, NEW cmds \in Seq(Commands), NEW from \in Nat, NEW to \in Nat,
           Carries(e, bytes, cmds, from, to), NEW c \in Commands
    PROVE  Carries(e, bytes \o Framed(e, c, to), Append(cmds, c), from, Further(e, c, to))
<1> DEFINE n == Len(cmds)
           frame == Framed(e, c, to)
           next == Further(e, c, to)
           more == Append(cmds, c)
<1>1. n \in Nat /\ frame \in Text /\ next \in Nat
  BY FramedIsText
<1>2. more \in Seq(Commands) /\ Len(more) = n + 1 /\ more[n + 1] = c /\ \A i \in 1..n : more[i] = cmds[i]
  BY AppendProperties
<1> HIDE DEF more
<1>3. PICK b \in [0..n -> Text] : \E o \in [0..n -> Nat] :
        /\ b[0] = bytes /\ o[0] = from /\ b[n] = <<>> /\ o[n] = to
        /\ Chain(e, cmds, b, o)
  BY DEF Carries
<1>4. PICK o \in [0..n -> Nat] :
        /\ b[0] = bytes /\ o[0] = from /\ b[n] = <<>> /\ o[n] = to
        /\ Chain(e, cmds, b, o)
  BY <1>3
<1> HIDE DEF n
<1>5. \A i \in 1..n : b[i - 1] = Framed(e, cmds[i], o[i - 1]) \o b[i]
                      /\ o[i] = Further(e, cmds[i], o[i - 1])
  BY <1>4 DEF Chain, n
<1>6. \A i \in 0..n : b[i] \in Text /\ b[i] \o frame \in Text /\ o[i] \in Nat
  <2>1. \A i \in 0..n : b[i] \in Text /\ o[i] \in Nat
    OBVIOUS
  <2>2. \A t \in Text : t \o frame \in Text
    BY <1>1, ConcatProperties DEF Text
  <2> QED
    BY <2>1, <2>2
<1>7. <<>> \in Text /\ <<>> \o frame = frame /\ frame \o <<>> = frame
  BY <1>1, ConcatEmptySeq DEF Text
<1> HIDE DEF frame, next
<1> DEFINE bb == [i \in 0..(n + 1) |-> IF i = n + 1 THEN <<>> ELSE b[i] \o frame]
           oo == [i \in 0..(n + 1) |-> IF i = n + 1 THEN next ELSE o[i]]
<1>8. \A i \in 0..(n + 1) : i = n + 1 \/ i \in 0..n
  BY <1>1
<1>9. bb \in [0..(n + 1) -> Text] /\ oo \in [0..(n + 1) -> Nat]
  BY <1>1, <1>6, <1>7, <1>8
<1>10. /\ \A i \in 0..n : bb[i] = b[i] \o frame /\ oo[i] = o[i]
       /\ bb[n + 1] = <<>> /\ oo[n + 1] = next
  <2>1. \A i \in 0..n : i \in 0..(n + 1) /\ i # n + 1
    BY <1>1
  <2>2. n + 1 \in 0..(n + 1)
    BY <1>1
  <2> QED
    BY <2>1, <2>2
<1> HIDE DEF bb, oo
<1>11. bb[0] = bytes \o frame /\ oo[0] = from
  <2>1. 0 \in 0..n
    BY <1>1
  <2> QED
    BY <1>4, <1>10, <2>1
<1>12. Chain(e, more, bb, oo)
  <2>1. ASSUME NEW i \in 1..(n + 1)
        PROVE  /\ bb[i - 1] = Framed(e, more[i], oo[i - 1]) \o bb[i]
               /\ oo[i] = Further(e, more[i], oo[i - 1])
    <3>1. CASE i = n + 1
      <4>1. i - 1 = n /\ n \in 0..n
        BY <1>1, <3>1
      <4>2. bb[i - 1] = frame /\ oo[i - 1] = to
        BY <1>4, <1>7, <1>10, <4>1
      <4>3. bb[i] = <<>> /\ oo[i] = next /\ more[i] = c
        BY <1>2, <1>10, <3>1
      <4> QED
        BY <1>7, <4>2, <4>3 DEF frame, next
    <3>2. CASE i # n + 1
      <4>1. i \in 1..n /\ i \in 0..n /\ i - 1 \in 0..n
        BY <1>1, <3>2
      <4>2. b[i - 1] = Framed(e, cmds[i], o[i - 1]) \o b[i] /\ o[i] = Further(e, cmds[i], o[i - 1])
        BY <1>5, <4>1
      <4>3. /\ bb[i - 1] = b[i - 1] \o frame /\ oo[i - 1] = o[i - 1] /\ oo[i] = o[i]
            /\ bb[i] = b[i] \o frame /\ more[i] = cmds[i]
        BY <1>2, <1>10, <4>1
      <4>4. (Framed(e, cmds[i], o[i - 1]) \o b[i]) \o frame = Framed(e, cmds[i], o[i - 1]) \o (b[i] \o frame)
        <5> DEFINE f == Framed(e, cmds[i], o[i - 1])
                   t == b[i]
        <5>1. cmds[i] \in Commands
          BY <4>1, ElementOfSeq DEF n
        <5>2. o[i - 1] \in Nat /\ t \in Text
          BY <1>6, <4>1
        <5>3. f \in Text
          BY <5>1, <5>2, FramedIsText
        <5> HIDE DEF f, t
        <5>4. (f \o t) \o frame = f \o (t \o frame)
          BY <1>1, <5>2, <5>3, Bracketed
        <5> QED
          BY <5>4 DEF f, t
      <4> QED
        BY <4>2, <4>3, <4>4
    <3> QED
      BY <3>1, <3>2
  <2> QED
    BY <1>2, <2>1 DEF Chain
<1> HIDE DEF Chain
<1>13. Carries(e, bytes \o frame, more, from, next)
  BY <1>2, <1>9, <1>10, <1>11, <1>12 DEF Carries
<1> QED
  BY <1>13 DEF frame, next, more

\* Of the commands that were sent, those the handler has not yet are in the bytes
\* before it and those on their way.
Holds(e, whole, coming, sealed, state) ==
    /\ state \in Ready
    /\ \E cmds \in Seq(Commands) :
         state.fetched \o cmds = whole /\ Carries(e, state.left \o coming, cmds, state.opening, sealed)

\* Cut at its first delimiter, `left` is s and what begins the rest.
CutsOff(left, coming, s, rest) ==
    LET end == Min(Ends(left))
        left2 == SubSeq(left, end + 1, Len(left))
    IN  SubSeq(left, 1, end - 1) = s /\ left2 \in Text /\ left2 \o coming = rest

(* The first delimiter of the bytes ends the first command.                *)
LEMMA FirstEnd ==
    ASSUME NEW left \in Text, NEW coming \in Text, NEW s \in Seq(Undelimited), NEW rest \in Text,
           left \o coming = Append(s, Delimiter) \o rest, Ends(left) # {}
    PROVE  CutsOff(left, coming, s, rest)
<1> DEFINE m == Len(s)
           end == Min(Ends(left))
           left2 == SubSeq(left, end + 1, Len(left))
           frame == Append(s, Delimiter)
           all == left \o coming
<1>1. /\ m \in Nat /\ s \in Text /\ frame \in Text /\ Len(frame) = m + 1
      /\ frame[m + 1] = Delimiter /\ \A i \in 1..m : frame[i] = s[i] /\ s[i] # Delimiter
  <2>1. Undelimited \subseteq Byte /\ Delimiter \in Byte
    BY WireAssumption DEF Undelimited
  <2>2. s \in Seq(Byte) /\ m \in Nat
    BY <2>1, SeqMonotonic
  <2>3. \A i \in 1..m : s[i] \in Undelimited
    BY ElementOfSeq
  <2> QED
    BY <2>1, <2>2, <2>3, AppendProperties DEF Text, Undelimited
<1> HIDE DEF frame
<1>2. Joined(left, coming) /\ Joined(frame, rest)
  BY <1>1, Together
<1>3. all = frame \o rest
  BY DEF frame
<1> HIDE DEF all
<1>4. \A i \in 1..Len(left) : all[i] = left[i]
  BY <1>2 DEF Joined, all
<1>5. \A i \in 1..(m + 1) : all[i] = frame[i]
  BY <1>1, <1>2, <1>3 DEF Joined
<1>6. Len(left) \in Nat /\ DOMAIN left = 1..Len(left)
  BY DEF Text
<1>7. end \in Ends(left) /\ \A i \in Ends(left) : end <= i
  <2>1. Ends(left) \in SUBSET Nat
    BY <1>6 DEF Ends
  <2>2. \E n \in Ends(left) : \A i \in Ends(left) : n <= i
    BY <2>1, LeastOf
  <2> QED
    BY <2>2 DEF Min
<1> HIDE DEF end
<1>8. end \in 1..Len(left) /\ left[end] = Delimiter
  BY <1>6, <1>7 DEF Ends
<1>9. end = m + 1
  <2>1. ~(end < m + 1)
    <3> SUFFICES ASSUME end < m + 1 PROVE FALSE
      OBVIOUS
    <3>1. end \in 1..m /\ end \in 1..(m + 1)
      BY <1>1, <1>6, <1>8
    <3> QED
      BY <1>1, <1>4, <1>5, <1>8, <3>1
  <2>2. ~(m + 1 < end)
    <3> SUFFICES ASSUME m + 1 < end PROVE FALSE
      OBVIOUS
    <3>1. m + 1 \in 1..Len(left) /\ m + 1 \in 1..(m + 1)
      BY <1>1, <1>6, <1>8
    <3>2. left[m + 1] = Delimiter
      BY <1>1, <1>4, <1>5, <3>1
    <3>3. m + 1 \in Ends(left)
      BY <1>6, <3>1, <3>2 DEF Ends
    <3>4. end <= m + 1
      BY <1>7, <3>3
    <3> QED
      BY <1>1, <1>6, <1>8, <3>4
  <2> QED
    BY <1>1, <1>6, <1>8, <2>1, <2>2
<1>10. SubSeq(left, 1, end - 1) = s
  <2> DEFINE p == SubSeq(left, 1, m)
  <2>1. p \in Text /\ Len(p) = m /\ \A i \in 1..m : p[i] = left[i]
    <3>1. \A i \in 1..m : i \in 1..Len(left) /\ left[i] \in Byte
      BY <1>1, <1>6, <1>8, <1>9, ElementOfSeq DEF Text
    <3>2. m - 1 + 1 = m /\ \A i \in 1..m : 1 + i - 1 = i
      BY <1>1
    <3>3. (IF 1 <= m THEN m - 1 + 1 ELSE 0) = m
      BY <1>1
    <3> QED
      BY <1>1, <3>1, <3>2, <3>3, SubSeqProperties DEF Text
  <2> HIDE DEF p
  <2>2. \A i \in 1..m : p[i] = s[i]
    <3> TAKE i \in 1..m
    <3>1. i \in 1..Len(left) /\ i \in 1..(m + 1)
      BY <1>1, <1>6, <1>8, <1>9
    <3> QED
      BY <1>1, <1>4, <1>5, <2>1, <3>1
  <2>3. p = s
    BY <1>1, <2>1, <2>2, SeqEqual DEF Text
  <2>4. end - 1 = m
    BY <1>1, <1>9
  <2> QED
    BY <2>3, <2>4 DEF p
<1>11. left2 \in Text /\ left = frame \o left2
  <2>1. left2 \in Text /\ left = SubSeq(left, 1, m + 1) \o left2
    <3>1. left2 \in Text
      BY <1>6, <1>8 DEF Text
    <3>2. SubSeq(left, 1, m + 1) \o SubSeq(left, (m + 1) + 1, Len(left)) = SubSeq(left, 1, Len(left))
      <4>1. 1 \in 1..(Len(left) + 1) /\ m + 1 \in (1 - 1)..Len(left) /\ Len(left) \in (m + 1)..Len(left)
        BY <1>1, <1>6, <1>8, <1>9
      <4> QED
        BY <4>1, ConcatAdjacentSubSeq DEF Text
    <3>3. SubSeq(left, 1, Len(left)) = left
      BY SubSeqFull DEF Text
    <3> QED
      BY <1>9, <3>1, <3>2, <3>3, ZenonT(30)
  <2>2. SubSeq(left, 1, m + 1) = frame
    <3> DEFINE p == SubSeq(left, 1, m + 1)
    <3>1. p \in Text /\ Len(p) = m + 1 /\ \A i \in 1..(m + 1) : p[i] = left[i]
      BY <1>1, <1>6, <1>8, <1>9 DEF Text
    <3> HIDE DEF p
    <3>2. \A i \in 1..(m + 1) : p[i] = frame[i]
      <4> TAKE i \in 1..(m + 1)
      <4>1. i \in 1..Len(left)
        BY <1>1, <1>6, <1>8, <1>9
      <4> QED
        BY <1>4, <1>5, <3>1, <4>1
    <3>3. p = frame
      BY <1>1, <3>1, <3>2, SeqEqual DEF Text
    <3> QED
      BY <3>3 DEF p
  <2> QED
    BY <2>1, <2>2, ZenonT(30)
<1> HIDE DEF left2
<1>12. left2 \o coming = rest
  <2>1. left \o coming = frame \o (left2 \o coming)
    <3> HIDE DEF m
    <3>1. frame \in Seq(Byte) /\ left2 \in Seq(Byte) /\ coming \in Seq(Byte)
      BY <1>1, <1>11 DEF Text
    <3>2. (frame \o left2) \o coming = frame \o (left2 \o coming)
      BY <3>1, ConcatAssociative
    <3> QED
      BY <1>11, <3>2
  <2>2. left2 \o coming \in Seq(Byte) /\ frame \in Seq(Byte) /\ rest \in Seq(Byte)
    BY <1>1, <1>11, ConcatProperties DEF Text
  <2>3. frame \o (left2 \o coming) = frame \o rest
    BY <1>3, <2>1 DEF all
  <2> DEFINE u == left2 \o coming
  <2>4. u \in Seq(Byte) /\ frame \o u = frame \o rest
    BY <2>2, <2>3
  <2> HIDE DEF u
  <2>5. u = rest
    <3>1. Joined(frame, u) /\ Joined(frame, rest)
      BY <1>1, <2>2, <2>4, Together DEF Text
    <3>2. /\ SubSeq(frame \o u, Len(frame) + 1, Len(frame \o u)) = u
          /\ SubSeq(frame \o rest, Len(frame) + 1, Len(frame \o rest)) = rest
      BY <3>1 DEF Joined
    <3> QED
      BY <2>4, <3>2
  <2> QED
    BY <2>5 DEF u
<1> QED
  BY <1>10, <1>11, <1>12 DEF left2, end, CutsOff

(* A round of the loop hands on the command that comes first, and keeps    *)
(* count.                                                                  *)
LEMMA NextHolds ==
    ASSUME NEW e \in BOOLEAN, NEW whole, NEW coming \in Text, NEW sealed, NEW state,
           Holds(e, whole, coming, sealed, state)
    PROVE  Holds(e, whole, coming, sealed, NextMessage(state))
<1> DEFINE left == state.left
           next == NextMessage(state)
<1>1. left \in Text /\ state.opening \in Nat /\ state.fetched \in Seq(Commands) /\ state \in Ready
  BY DEF Holds, Ready
<1>2. CASE Ends(left) = {}
  BY <1>2 DEF NextMessage
<1>3. CASE Ends(left) # {}
  <2> DEFINE end == Min(Ends(left))
             left2 == SubSeq(left, end + 1, Len(left))
             piece == SubSeq(left, 1, end - 1)
             moved == [state EXCEPT !.left = left2]
  <2>1. next = Handed(moved, piece)
    BY <1>3 DEF NextMessage
  <2>2. PICK cmds \in Seq(Commands) :
          state.fetched \o cmds = whole /\ Carries(e, left \o coming, cmds, state.opening, sealed)
    BY DEF Holds
  <2>3. left \o coming # <<>>
    <3>1. Joined(left, coming)
      BY <1>1, Together
    <3>2. left # <<>>
      BY <1>3 DEF Ends
    <3> HIDE DEF left
    <3>3. Len(left) >= 1
      <4>1. Len(left) \in Nat /\ Len(left) # 0
        BY <1>1, <3>2 DEF Text
      <4> QED
        BY <4>1
    <3>4. Len(left \o coming) >= 1
      BY <3>1, <3>3 DEF Joined
    <3> QED
      BY <3>4
  <2>4. cmds # <<>>
    BY <2>2, <2>3, CarriesNone
  <2> DEFINE c == cmds[1]
             more == Tail(cmds)
             further == Further(e, c, state.opening)
  <2>5. c \in Commands /\ more \in Seq(Commands) /\ cmds = <<c>> \o more
    <3>1. c \in Commands /\ more \in Seq(Commands)
      BY <2>4
    <3>2. cmds = <<c>> \o more
      BY <2>4
    <3> QED
      BY <3>1, <3>2
  <2>6. PICK rest \in Text :
          /\ left \o coming = Framed(e, c, state.opening) \o rest
          /\ Carries(e, rest, more, further, sealed)
    BY <1>1, <2>2, <2>4, CarriesFirst
  <2> HIDE DEF c, more, further
  <2>7. PICK s \in Seq(Undelimited) :
          /\ Framed(e, c, state.opening) = Append(s, Delimiter)
          /\ \A x \in Ready : x.opening = state.opening =>
               Handed(x, s) = [left |-> x.left, opening |-> Further(e, c, state.opening),
                               fetched |-> Append(x.fetched, c)]
    BY <1>1, <2>5, FrameComesBack
  <2>8. further \in Nat
    BY <1>1, <2>5, FrameComesBack DEF further
  <2>9. piece = s /\ left2 \in Text /\ left2 \o coming = rest
    <3>1. left \o coming = Append(s, Delimiter) \o rest
      BY <2>6, <2>7
    <3>2. CutsOff(left, coming, s, rest)
      <4> HIDE DEF left
      <4> QED
        BY <1>1, <1>3, <3>1, FirstEnd
    <3> QED
      BY <3>2 DEF CutsOff
  <2> HIDE DEF left2, piece, end
  <2>10. /\ moved \in Ready /\ moved.opening = state.opening
         /\ moved.left = left2 /\ moved.fetched = state.fetched
    <3> HIDE DEF left
    <3> QED
      BY <1>1, <2>9 DEF Ready
  <2> HIDE DEF moved
  <2>11. next = [left |-> left2, opening |-> further, fetched |-> Append(state.fetched, c)]
    <3>1. Handed(moved, s) = [left |-> moved.left, opening |-> Further(e, c, state.opening),
                              fetched |-> Append(moved.fetched, c)]
      BY <2>7, <2>10
    <3> QED
      BY <2>1, <2>9, <2>10, <3>1 DEF further
  <2> DEFINE had == state.fetched
  <2>12. Append(had, c) \in Seq(Commands) /\ Append(had, c) \o more = whole
    <3> HIDE DEF had
    <3>1. had \in Seq(Commands)
      BY <1>1 DEF had
    <3>2. Append(had, c) = had \o <<c>> /\ <<c>> \in Seq(Commands)
      BY <2>5, <3>1, AppendIsConcat
    <3>3. (had \o <<c>>) \o more = had \o (<<c>> \o more)
      BY <2>5, <3>1, <3>2, ConcatAssociative
    <3>4. had \o cmds = whole
      BY <2>2 DEF had
    <3>5. Append(had, c) \in Seq(Commands)
      BY <2>5, <3>1, AppendProperties
    <3> QED
      BY <2>5, <3>2, <3>3, <3>4, <3>5
  <2> HIDE DEF next
  <2>13. next \in Ready
    BY <2>8, <2>9, <2>11, <2>12 DEF Ready
  <2>14. /\ next.fetched \o more = whole
         /\ Carries(e, next.left \o coming, more, next.opening, sealed)
    BY <2>6, <2>9, <2>11, <2>12
  <2>15. Holds(e, whole, coming, sealed, next)
    BY <2>5, <2>13, <2>14 DEF Holds
  <2> QED
    BY <2>15 DEF next
<1> QED
  BY <1>2, <1>3

LEMMA ReceivedHolds ==
    ASSUME NEW e \in BOOLEAN, NEW whole, NEW coming \in Text, NEW sealed, NEW state,
           Holds(e, whole, coming, sealed, state)
    PROVE  Holds(e, whole, coming, sealed, Received(state))
<1> DEFINE n == Len(state.left)
           A == {x \in Ready : Holds(e, whole, coming, sealed, x)}
           step == [i \in 1..n |-> [a \in A |-> NextMessage(a)]]
           Fold(g) == g = [i \in 0..n |-> IF i = 0 THEN state ELSE NextMessage(g[i - 1])]
           after == CHOOSE g : Fold(g)
<1>1. n \in Nat
  BY DEF Holds, Ready, Text
<1>2. state \in A
  BY DEF Holds
<1>3. \A a \in A : NextMessage(a) \in A
  <2> TAKE a \in A
  <2>1. Holds(e, whole, coming, sealed, NextMessage(a))
    BY NextHolds
  <2>2. NextMessage(a) \in Ready
    BY <2>1 DEF Holds
  <2> QED
    BY <2>1, <2>2
<1> HIDE DEF A, n
<1>4. step \in [1..n -> [A -> A]]
  BY <1>1, <1>3
<1>5. \A i \in 1..n, a \in A : step[i][a] = NextMessage(a)
  OBVIOUS
<1> HIDE DEF step
<1>6. PICK f \in [0..n -> A] : f[0] = state /\ \A i \in 1..n : f[i] = step[i][f[i - 1]]
  <2>1. step \in Steps(A, n)
    BY <1>4 DEF Steps
  <2>2. Folds(A, n, state, step)
    BY <1>1, <1>2, <2>1, FoldDefined
  <2> QED
    BY <2>2 DEF Folds
<1>7. Fold(f)
  <2>1. ASSUME NEW i \in 0..n, i # 0 PROVE f[i] = NextMessage(f[i - 1])
    <3>1. i \in 1..n /\ i - 1 \in 0..n
      BY <1>1, <2>1
    <3>2. f[i - 1] \in A
      BY <3>1
    <3> QED
      BY <1>5, <1>6, <3>1, <3>2
  <2>2. \A i \in 0..n : f[i] = IF i = 0 THEN state ELSE NextMessage(f[i - 1])
    BY <1>6, <2>1
  <2>3. f = [i \in 0..n |-> f[i]]
    OBVIOUS
  <2> QED
    BY <2>2, <2>3
<1>8. Fold(after)
  <2> HIDE DEF Fold
  <2> QED
    BY <1>7
<1>9. Received(state) = after[n]
  BY DEF Received, n
<1> HIDE DEF after
<1>10. \A i \in 0..n : after[i] = IF i = 0 THEN state ELSE NextMessage(after[i - 1])
  BY <1>8, Zenon
<1>11. after[0] \in A
  <2>1. 0 \in 0..n
    BY <1>1
  <2> QED
    BY <1>2, <1>10, <2>1
<1>12. \A i \in 1..n : after[i - 1] \in A => after[i] \in A
  <2>1. \A i \in 1..n : i \in 0..n /\ i # 0
    BY <1>1
  <2> QED
    BY <1>3, <1>10, <2>1
<1>13. after[n] \in A
  BY <1>1, <1>11, <1>12, FoldStays
<1> QED
  BY <1>9, <1>13 DEF A

(* The bytes between the two ends are those of the commands the handler    *)
(* has not been given, with the counts of the two ciphers as far apart as  *)
(* what is sealed of them.                                                 *)
WireTyped ==
    /\ encryption \in BOOLEAN /\ posted \in Seq(Commands)
    /\ sealing \in Nat /\ stream \in Text
WireInv ==
    /\ WireTyped
    /\ Holds(encryption, posted, stream, sealing,
             [left |-> buffer, opening |-> opening, fetched |-> fetched])

LEMMA WireStarts == WireInit => WireInv
<1> SUFFICES ASSUME WireInit PROVE WireInv
  OBVIOUS
<1> DEFINE none == <<>>
           state == [left |-> buffer, opening |-> opening, fetched |-> fetched]
           b == [i \in 0..0 |-> none]
           o == [i \in 0..0 |-> 0]
<1>1. none \in Seq(Commands) /\ Len(none) = 0 /\ none \in Text /\ none \o none = none
  BY DEF Text
<1>2. b \in [0..0 -> Text] /\ o \in [0..0 -> Nat] /\ b[0] = none /\ o[0] = 0
  BY <1>1
<1> HIDE DEF b, o
<1>3. Chain(encryption, none, b, o)
  <2>1. \A i \in 1..0 : FALSE
    OBVIOUS
  <2> QED
    BY <1>1, <2>1 DEF Chain
<1>4. Carries(encryption, none, none, 0, 0)
  <2> HIDE DEF none
  <2> QED
    BY <1>1, <1>2, <1>3 DEF Carries, none
<1>5. state \in Ready /\ state.left = none /\ state.opening = 0 /\ state.fetched = none
  BY <1>1 DEF Ready, WireInit
<1>6. WireTyped
  BY <1>1 DEF WireTyped, WireInit
<1>7. posted = none /\ stream = none /\ sealing = 0
  BY DEF WireInit
<1> HIDE DEF none, state
<1>8. Holds(encryption, posted, stream, sealing, state)
  <2>1. state.fetched \o none = posted
    BY <1>1, <1>5, <1>7
  <2>2. Carries(encryption, state.left \o stream, none, state.opening, sealing)
    BY <1>1, <1>4, <1>5, <1>7
  <2> QED
    BY <1>1, <1>5, <2>1, <2>2 DEF Holds
<1> QED
  BY <1>6, <1>8 DEF WireInv, state

LEMMA PostKeeps ==
    ASSUME WireInv, NEW c \in Commands, Post(c)
    PROVE  WireInv'
<1> DEFINE frame == Framed(encryption, c, sealing)
           next == Further(encryption, c, sealing)
           state == [left |-> buffer, opening |-> opening, fetched |-> fetched]
<1>1. WireTyped /\ Holds(encryption, posted, stream, sealing, state)
  BY DEF WireInv
<1>2. /\ encryption' = encryption /\ posted' = Append(posted, c)
      /\ opening' = opening /\ buffer' = buffer /\ fetched' = fetched
  BY DEF Post
<1>3. stream' = stream \o frame /\ sealing' = next
  <2>1. CASE encryption
    <3>1. /\ stream' = stream \o Encode(<<ENCRYPT_HEADER>> \o Encrypt(Packed(c), sealing))
          /\ sealing' = sealing + Len(Encrypt(Packed(c), sealing))
      BY <2>1 DEF Post
    <3>2. Len(Encrypt(Packed(c), sealing)) = Len(Packed(c))
      BY <1>1, MessageComesBack, CipherComesBack DEF WireTyped
    <3> QED
      BY <2>1, <3>1, <3>2 DEF Framed, Plain, Further
  <2>2. CASE ~encryption
    BY <2>2 DEF Post, Framed, Plain, Further
  <2> QED
    BY <1>1, <2>1, <2>2 DEF WireTyped
<1>4. frame \in Text /\ next \in Nat
  BY <1>1, FramedIsText DEF WireTyped
<1> HIDE DEF frame, next
<1>5. stream \o frame \in Text /\ Append(posted, c) \in Seq(Commands)
  <2>1. Joined(stream, frame)
    BY <1>1, <1>4, Together DEF WireTyped
  <2> QED
    BY <1>1, <2>1, AppendProperties DEF Joined, WireTyped
<1>6. PICK cmds \in Seq(Commands) :
        state.fetched \o cmds = posted /\ Carries(encryption, state.left \o stream, cmds, state.opening, sealing)
  BY <1>1 DEF Holds
<1>7. state \in Ready /\ state.left = buffer /\ state.opening = opening /\ state.fetched = fetched
  BY <1>1 DEF Holds
<1>8. buffer \in Text /\ opening \in Nat /\ fetched \in Seq(Commands)
  BY <1>7 DEF Ready
<1> DEFINE more == Append(cmds, c)
<1>9. more \in Seq(Commands) /\ fetched \o more = Append(posted, c)
  <2>1. more = cmds \o <<c>> /\ <<c>> \in Seq(Commands) /\ more \in Seq(Commands)
    BY AppendIsConcat, AppendProperties
  <2> HIDE DEF more
  <2>2. (fetched \o cmds) \o <<c>> = fetched \o (cmds \o <<c>>)
    BY <1>8, <2>1, ConcatAssociative
  <2>3. Append(posted, c) = posted \o <<c>>
    BY <1>1, AppendIsConcat DEF WireTyped
  <2> QED
    BY <1>6, <1>7, <2>1, <2>2, <2>3
<1>10. Carries(encryption, buffer \o (stream \o frame), more, opening, next)
  <2>1. Carries(encryption, (buffer \o stream) \o frame, more, opening, next)
    <3>1. Carries(encryption, buffer \o stream, cmds, opening, sealing)
      BY <1>6, <1>7
    <3>2. sealing \in Nat /\ encryption \in BOOLEAN
      BY <1>1 DEF WireTyped
    <3> DEFINE bytes == buffer \o stream
    <3> HIDE DEF bytes
    <3>3. Carries(encryption, bytes, cmds, opening, sealing)
      BY <3>1 DEF bytes
    <3>4. Carries(encryption, bytes \o Framed(encryption, c, sealing), Append(cmds, c), opening,
                  Further(encryption, c, sealing))
      BY <1>8, <3>2, <3>3, CarriesMore
    <3> QED
      BY <3>4 DEF bytes, frame, next
  <2>2. (buffer \o stream) \o frame = buffer \o (stream \o frame)
    <3>1. buffer \in Seq(Byte) /\ stream \in Seq(Byte) /\ frame \in Seq(Byte)
      BY <1>1, <1>4, <1>8 DEF WireTyped, Text
    <3> QED
      BY <3>1, ConcatAssociative
  <2> QED
    BY <2>1, <2>2
<1> HIDE DEF more
<1>11. Holds(encryption, Append(posted, c), stream \o frame, next, state)
  <2>1. state.fetched \o more = Append(posted, c)
    BY <1>7, <1>9
  <2>2. Carries(encryption, state.left \o (stream \o frame), more, state.opening, next)
    BY <1>7, <1>10
  <2> QED
    BY <1>7, <1>9, <2>1, <2>2 DEF Holds
<1>12. Holds(encryption, posted, stream, sealing, state)'
  <2>1. state' = state
    BY <1>2
  <2> HIDE DEF state
  <2>2. Holds(encryption', posted', stream', sealing', state')
    BY <1>2, <1>3, <1>11, <2>1
  <2> QED
    BY <2>2
<1>13. WireTyped'
  BY <1>1, <1>2, <1>3, <1>4, <1>5 DEF WireTyped
<1> QED
  BY <1>12, <1>13 DEF WireInv

LEMMA BytesComeKeeps ==
    ASSUME WireInv, NEW n \in 1..Len(stream), BytesCome(n)
    PROVE  WireInv'
<1> DEFINE state == [left |-> buffer, opening |-> opening, fetched |-> fetched]
           first == SubSeq(stream, 1, n)
           last == SubSeq(stream, n + 1, Len(stream))
           moved == [left |-> buffer \o first, opening |-> opening, fetched |-> fetched]
<1>1. WireTyped /\ Holds(encryption, posted, stream, sealing, state)
  BY DEF WireInv
<1>2. /\ encryption' = encryption /\ posted' = posted /\ sealing' = sealing
      /\ opening' = opening /\ fetched' = fetched
      /\ buffer' = buffer \o first /\ stream' = last
  BY DEF BytesCome
<1>3. stream \in Seq(Byte)
  BY <1>1 DEF WireTyped, Text
<1>4. first \in Seq(Byte) /\ last \in Seq(Byte)
  BY <1>3
<1>5. first \o last = stream
  <2>1. 1 \in 1..(Len(stream) + 1) /\ n \in (1 - 1)..Len(stream) /\ Len(stream) \in n..Len(stream)
    BY <1>3
  <2>2. first \o last = SubSeq(stream, 1, Len(stream))
    BY <1>3, <2>1, ConcatAdjacentSubSeq
  <2> QED
    BY <1>3, <2>2, SubSeqFull
<1> HIDE DEF first, last
<1>6. state \in Ready /\ state.left = buffer /\ state.opening = opening /\ state.fetched = fetched
  BY <1>1 DEF Holds
<1>7. buffer \in Seq(Byte) /\ opening \in Nat /\ fetched \in Seq(Commands)
  BY <1>6 DEF Ready, Text
<1>8. (buffer \o first) \o last = buffer \o stream /\ buffer \o first \in Seq(Byte)
  <2>1. (buffer \o first) \o last = buffer \o (first \o last)
    BY <1>4, <1>7, ConcatAssociative
  <2>2. buffer \o first \in Seq(Byte)
    BY <1>4, <1>7, ConcatProperties
  <2> QED
    BY <1>5, <2>1, <2>2
<1>9. PICK cmds \in Seq(Commands) :
        state.fetched \o cmds = posted /\ Carries(encryption, state.left \o stream, cmds, state.opening, sealing)
  BY <1>1 DEF Holds
<1>10. /\ moved \in Ready /\ moved.left = buffer \o first
       /\ moved.opening = opening /\ moved.fetched = fetched
  BY <1>7, <1>8 DEF Ready, Text
<1> HIDE DEF state, moved
<1>11. moved.fetched \o cmds = posted
  BY <1>6, <1>9, <1>10
<1>12. Carries(encryption, moved.left \o last, cmds, moved.opening, sealing)
  BY <1>6, <1>8, <1>9, <1>10
<1>13. Holds(encryption, posted, last, sealing, moved)
  BY <1>10, <1>11, <1>12 DEF Holds
<1>14. Holds(encryption, posted, stream, sealing, state)'
  <2>1. state' = moved
    BY <1>2 DEF state, moved
  <2>2. Holds(encryption', posted', stream', sealing', state')
    BY <1>2, <1>13, <2>1
  <2> QED
    BY <2>2
<1>15. WireTyped'
  BY <1>1, <1>2, <1>4 DEF WireTyped, Text
<1> QED
  BY <1>14, <1>15 DEF WireInv, state

LEMMA ReceiveTCPKeeps ==
    ASSUME WireInv, ReceiveTCP
    PROVE  WireInv'
<1> DEFINE state == [left |-> buffer, opening |-> opening, fetched |-> fetched]
           after == Received(state)
<1>1. WireTyped /\ Holds(encryption, posted, stream, sealing, state)
  BY DEF WireInv
<1>2. /\ encryption' = encryption /\ posted' = posted /\ sealing' = sealing /\ stream' = stream
      /\ buffer' = after.left /\ opening' = after.opening /\ fetched' = after.fetched
  BY DEF ReceiveTCP
<1> HIDE DEF state
<1>3. Holds(encryption, posted, stream, sealing, after)
  BY <1>1, ReceivedHolds DEF WireTyped
<1> HIDE DEF after
<1>4. state' = after
  <2>1. after \in Ready
    BY <1>3 DEF Holds
  <2>2. after = [left |-> after.left, opening |-> after.opening, fetched |-> after.fetched]
    BY <2>1 DEF Ready
  <2>3. state' = [left |-> buffer', opening |-> opening', fetched |-> fetched']
    BY DEF state
  <2> QED
    BY <1>2, <2>2, <2>3
<1>5. Holds(encryption, posted, stream, sealing, state)'
  <2>1. Holds(encryption', posted', stream', sealing', state')
    BY <1>2, <1>3, <1>4
  <2> QED
    BY <2>1
<1>6. WireTyped'
  BY <1>1, <1>2 DEF WireTyped
<1> QED
  BY <1>5, <1>6 DEF WireInv, state

LEMMA InOrderThen == WireInv => CommandsInOrder
<1> SUFFICES ASSUME WireInv PROVE CommandsInOrder
  OBVIOUS
<1> DEFINE state == [left |-> buffer, opening |-> opening, fetched |-> fetched]
<1>1. Holds(encryption, posted, stream, sealing, state)
  BY DEF WireInv
<1>2. state \in Ready /\ state.fetched = fetched
  BY <1>1 DEF Holds
<1>3. fetched \in Seq(Commands)
  BY <1>2 DEF Ready
<1>4. PICK cmds \in Seq(Commands) : fetched \o cmds = posted
  BY <1>1, <1>2 DEF Holds
<1>5. SubSeq(fetched \o cmds, 1, Len(fetched)) = fetched /\ Len(fetched) <= Len(fetched \o cmds)
  BY <1>3, Apart
<1>6. SubSeq(fetched, 1, Len(fetched)) = fetched
  BY <1>3, SubSeqFull
<1>7. Len(fetched) <= Len(posted) /\ SubSeq(fetched, 1, Len(fetched)) = SubSeq(posted, 1, Len(fetched))
  BY <1>4, <1>5, <1>6
<1> QED
  BY <1>7 DEF CommandsInOrder, IsPrefix

(* However TCP cuts the stream, and whatever is compressed and encrypted,  *)
(* the handler has been given the first of the commands that were sent,    *)
(* value by value and in their order: Session::Serialize and Deserialize,  *)
(* Utils::Encode and Decode, ReceiveTCP.                                   *)
THEOREM CommandsComeInOrder == WireSpec => []CommandsInOrder
<1>1. WireInit => WireInv
  BY WireStarts
<1>2. WireInv /\ [WireNext]_wireVars => WireInv'
  <2> SUFFICES ASSUME WireInv, [WireNext]_wireVars PROVE WireInv'
    OBVIOUS
  <2>1. ASSUME NEW c \in Commands, Post(c) PROVE WireInv'
    BY <2>1, PostKeeps
  <2>2. ASSUME NEW n \in 1..Len(stream), BytesCome(n) PROVE WireInv'
    BY <2>2, BytesComeKeeps
  <2>3. ASSUME ReceiveTCP PROVE WireInv'
    BY <2>3, ReceiveTCPKeeps
  <2>4. CASE UNCHANGED wireVars
    BY <2>4 DEF wireVars, WireInv, WireTyped
  <2> QED
    BY <2>1, <2>2, <2>3, <2>4 DEF WireNext
<1>3. WireInv => CommandsInOrder
  BY InOrderThen
<1> QED
  BY <1>1, <1>2, <1>3, PTL DEF WireSpec
=============================================================================
