---------------------- MODULE VelocityController_proofs ----------------------
(***************************************************************************)
(* VelocityController for all parameters: type correctness, the limits,    *)
(* the last word of a stop and the age of a motion.                        *)
(***************************************************************************)
EXTENDS VelocityController, TLAPS

Float == Int \cup {NaN}

(* A datagram within the limits, and a wire of them.                       *)
Sound(c) == c \in Datagram /\ Within(c.v)

SoundWire(w) ==
  /\ w \in Seq(Datagram) /\ Len(w) <= WireCap
  /\ \A i \in DOMAIN w : Within(w[i].v)

(* The invariant, by owner: the SDK and the robot, the topics, the node.   *)
SdkInv == socketOpen \in BOOLEAN /\ Sound(command) /\ SoundWire(wire)

TopicInv ==
  /\ cmdVelTopic \in Seq(Velocity) /\ Len(cmdVelTopic) <= 1
  /\ estopTopic \in Seq({"stop", "release"}) /\ Len(estopTopic) <= EstopDepth

NodeInv ==
  /\ connected \in BOOLEAN /\ spinning \in BOOLEAN /\ emergencyStop \in BOOLEAN
  /\ currentCmd \in Velocity
  /\ cmdAge \in 0..OldAge /\ sinceTimer \in 0..Period
  /\ unheard = cmdAge

(* Why a motion is recent: the timer that allowed it found its Twist no    *)
(* older than the timeout, and both have aged alike since.                 *)
MotionAge ==
  spinning /\ connected /\ command.v # Still => cmdAge <= Timeout + sinceTimer

IInv == SdkInv /\ Sound(robot) /\ TopicInv /\ NodeInv /\ StopIsLastWord /\ MotionAge

-----------------------------------------------------------------------------
(* Clamping brings any float within the limit, a NaN included.             *)
LEMMA ClampWithin ==
  ASSUME NEW x \in Float, NEW limit \in Nat
  PROVE  Clamp(x, limit) \in -limit..limit
<1>0. NaN \notin Int BY ControllerAssumption
<1>1. CASE x = NaN
  <2>1. PyMin(limit, x) = limit BY <1>1 DEF PyMin, Less
  <2>2. PyMax(-limit, limit) \in {-limit, limit} BY DEF PyMax
  <2> QED BY <2>1, <2>2 DEF Clamp
<1>2. CASE x \in Int
  <2>1. -limit \in Int /\ limit \in Int OBVIOUS
  <2>2. PyMin(limit, x) \in Int /\ PyMin(limit, x) <= limit
    BY <1>0, <1>2, <2>1 DEF PyMin, Less
  <2> DEFINE y == PyMin(limit, x)
  <2>3. y \in Int /\ y <= limit BY <2>2
  <2> HIDE DEF y
  <2>4. PyMax(-limit, y) \in Int /\ -limit <= PyMax(-limit, y) /\ PyMax(-limit, y) <= limit
    BY <1>0, <2>1, <2>3 DEF PyMax, Less
  <2> QED BY <2>4 DEF Clamp, y
<1> QED BY <1>1, <1>2 DEF Float

LEMMA LimitedWithin ==
  ASSUME NEW v \in Velocity
  PROVE  Limited(v) \in Velocity /\ Within(Limited(v))
<1>1. v[1] \in Float /\ v[2] \in Float /\ v[3] \in Float BY DEF Velocity, Float
<1>2. MaxLinear \in Nat /\ MaxAngular \in Nat BY ControllerAssumption
<1>3. /\ Clamp(v[1], MaxLinear) \in -MaxLinear..MaxLinear
      /\ Clamp(v[2], MaxLinear) \in -MaxLinear..MaxLinear
      /\ Clamp(v[3], MaxAngular) \in -MaxAngular..MaxAngular
  BY <1>1, <1>2, ClampWithin
<1> HIDE DEF Clamp
<1> QED BY <1>2, <1>3 DEF Limited, Within, Velocity

LEMMA StillWithin == Still \in Velocity /\ Within(Still)
<1>1. MaxLinear \in Nat /\ MaxAngular \in Nat BY ControllerAssumption
<1> QED BY <1>1 DEF Still, Velocity, Within

LEMMA StandingSound == Sound(Standing)
BY StillWithin DEF Sound, Standing, Datagram

(* Sending a sound datagram, through or not, keeps the wire sound.         *)
LEMMA SendKeeps ==
  ASSUME SoundWire(wire), NEW c, Sound(c), SendCommand(c)
  PROVE  SoundWire(wire')
<1>1. CASE UNCHANGED wire BY <1>1
<1>2. CASE Len(wire) < WireCap /\ wire' = Append(wire, c)
  <2>1. wire \in Seq(Datagram) /\ c \in Datagram BY DEF SoundWire, Sound
  <2>2. wire' \in Seq(Datagram) /\ Len(wire') = Len(wire) + 1 BY <1>2, <2>1
  <2>3. Len(wire') <= WireCap
    BY <1>2, <2>1, <2>2, WireCapAssumption
  <2>4. ASSUME NEW i \in DOMAIN wire' PROVE Within(wire'[i].v)
    <3>1. CASE i \in DOMAIN wire
      <4>1. wire'[i] = wire[i] BY <1>2, <2>1, <3>1
      <4> QED BY <3>1, <4>1 DEF SoundWire
    <3>2. CASE i = Len(wire) + 1
      <4>1. wire'[i] = c BY <1>2, <2>1, <3>2
      <4> QED BY <4>1 DEF Sound
    <3> QED BY <2>1, <2>2, <2>4, <3>1, <3>2
  <2> QED BY <2>2, <2>3, <2>4 DEF SoundWire
<1> QED BY <1>1, <1>2 DEF SendCommand

LEMMA SetVelocityKeeps ==
  ASSUME SdkInv, NEW v \in Velocity, Within(v), SetVelocity(v)
  PROVE  SdkInv' /\ command'.v = v
<1>1. command'.mode \in {1, 2} /\ command'.v = v /\ command' \in Datagram
  BY DEF SetVelocity, Datagram
<1>2. Sound(command') BY <1>1 DEF Sound
<1>3. SoundWire(wire') BY <1>2, SendKeeps DEF SetVelocity, SdkInv
<1> QED BY <1>1, <1>2, <1>3 DEF SdkInv, SetVelocity, Sound, SoundWire, Within

LEMMA StopKeeps ==
  ASSUME SdkInv, Stop
  PROVE  SdkInv' /\ command'.v = Still
BY SetVelocityKeeps, StillWithin DEF Stop

-----------------------------------------------------------------------------
LEMMA InitIInv == Init => IInv
<1> SUFFICES ASSUME Init PROVE IInv OBVIOUS
<1>0. /\ Timeout \in Nat /\ Period \in Nat \ {0} /\ EstopDepth \in Nat \ {0}
      /\ WireCap \in Nat \ {0}
  BY ControllerAssumption, WireCapAssumption
<1>1. Sound(robot) BY StandingSound DEF Init
<1>2. Sound(command) /\ command.v = Still
  BY StillWithin DEF Init, Sound, Datagram
<1>3. SoundWire(<<>>) BY <1>0 DEF SoundWire
<1>4. SoundWire(<<Standing>>)
  BY <1>0, StandingSound DEF SoundWire, Sound
<1>5. SoundWire(wire) BY <1>3, <1>4 DEF Init
<1>6. SdkInv BY <1>2, <1>5 DEF Init, SdkInv
<1>7. TopicInv BY <1>0 DEF Init, TopicInv
<1>8. NodeInv
  <2>1. connected \in BOOLEAN /\ spinning \in BOOLEAN /\ emergencyStop \in BOOLEAN
    BY DEF Init
  <2>2. currentCmd \in Velocity /\ unheard = cmdAge BY StillWithin DEF Init
  <2>3. OldAge \in Nat BY <1>0 DEF OldAge
  <2>4. cmdAge \in 0..OldAge /\ sinceTimer \in 0..Period BY <1>0, <2>3 DEF Init
  <2> QED BY <2>1, <2>2, <2>4 DEF NodeInv
<1>9. StopIsLastWord /\ MotionAge BY <1>2 DEF StopIsLastWord, MotionAge
<1> QED BY <1>1, <1>6, <1>7, <1>8, <1>9 DEF IInv

(* Every step keeps the invariant, action by action.                       *)
LEMMA NextIInv == IInv /\ [Next]_vars => IInv'
<1> SUFFICES ASSUME IInv, [Next]_vars PROVE IInv' OBVIOUS
<1> USE DEF IInv
<1>0. /\ Timeout \in Nat /\ Period \in Nat \ {0} /\ EstopDepth \in Nat \ {0}
      /\ OldAge \in Nat /\ Twists \subseteq Velocity
  BY ControllerAssumption DEF OldAge, Velocity
<1>1. CASE PublishTwist
  <2>1. SdkInv' /\ Sound(robot)' BY <1>1 DEF PublishTwist, sdkVars, SdkInv, Sound, SoundWire, Within
  <2>2. TopicInv' BY <1>0, <1>1 DEF PublishTwist, TopicInv
  <2>3. NodeInv' /\ StopIsLastWord' /\ MotionAge'
    BY <1>1 DEF PublishTwist, nodeVars, sdkVars, NodeInv, StopIsLastWord, MotionAge
  <2> QED BY <2>1, <2>2, <2>3
<1>2. CASE PublishEstop
  <2>1. SdkInv' /\ Sound(robot)' BY <1>2 DEF PublishEstop, sdkVars, SdkInv, Sound, SoundWire, Within
  <2>2. TopicInv'
    <3> DEFINE q == IF Len(estopTopic) < EstopDepth THEN estopTopic ELSE Tail(estopTopic)
    <3>1. q \in Seq({"stop", "release"}) /\ Len(q) < EstopDepth
      <4>1. estopTopic \in Seq({"stop", "release"}) /\ Len(estopTopic) <= EstopDepth
        BY DEF TopicInv
      <4>2. CASE Len(estopTopic) < EstopDepth BY <4>1, <4>2
      <4>3. CASE Len(estopTopic) = EstopDepth
        <5>1. estopTopic # <<>> BY <1>0, <4>1, <4>3
        <5>2. Tail(estopTopic) \in Seq({"stop", "release"}) /\ Len(Tail(estopTopic)) = Len(estopTopic) - 1
          BY <4>1, <5>1
        <5> QED BY <1>0, <4>3, <5>2
      <4> QED BY <1>0, <4>1, <4>2, <4>3
    <3>2. PICK m \in {"stop", "release"} : estopTopic' = Append(q, m) BY <1>2 DEF PublishEstop
    <3> HIDE DEF q
    <3>3. estopTopic' \in Seq({"stop", "release"}) /\ Len(estopTopic') = Len(q) + 1
      BY <3>1, <3>2
    <3>4. Len(estopTopic') <= EstopDepth BY <1>0, <3>1, <3>3
    <3> QED BY <1>2, <3>3, <3>4 DEF TopicInv, PublishEstop
  <2>3. NodeInv' /\ StopIsLastWord' /\ MotionAge'
    BY <1>2 DEF PublishEstop, nodeVars, sdkVars, NodeInv, StopIsLastWord, MotionAge
  <2> QED BY <2>1, <2>2, <2>3
<1>3. CASE CmdVelCallback
  <2>1. SdkInv' /\ Sound(robot)' BY <1>3 DEF CmdVelCallback, sdkVars, SdkInv, Sound, SoundWire, Within
  <2>2. Head(cmdVelTopic) \in Velocity BY <1>3 DEF CmdVelCallback, TopicInv
  <2>3. TopicInv' BY <1>3 DEF CmdVelCallback, TopicInv
  <2>4. NodeInv' BY <1>0, <1>3, <2>2 DEF CmdVelCallback, NodeInv
  <2>5. StopIsLastWord' BY <1>3 DEF CmdVelCallback, sdkVars, StopIsLastWord
  <2>6. MotionAge' BY <1>0, <1>3 DEF CmdVelCallback, MotionAge, NodeInv
  <2> QED BY <2>1, <2>3, <2>4, <2>5, <2>6
<1>4. CASE EstopCallback
  <2>1. Sound(robot)' BY <1>4 DEF EstopCallback, Sound, Within
  <2>2. TopicInv'
    <3>1. estopTopic \in Seq({"stop", "release"}) /\ Len(estopTopic) <= EstopDepth /\ estopTopic # <<>>
      BY <1>4 DEF EstopCallback, TopicInv
    <3>2. Tail(estopTopic) \in Seq({"stop", "release"}) /\ Len(Tail(estopTopic)) = Len(estopTopic) - 1
      BY <3>1
    <3> QED BY <1>0, <1>4, <3>1, <3>2 DEF EstopCallback, TopicInv
  <2>3. NodeInv' BY <1>4 DEF EstopCallback, NodeInv
  <2>4. CASE emergencyStop' /\ ~emergencyStop /\ connected
    <3>1. Stop BY <1>4, <2>4 DEF EstopCallback, IfConnected
    <3>2. SdkInv' /\ command'.v = Still BY <3>1, StopKeeps
    <3> QED BY <2>1, <2>2, <2>3, <3>2 DEF StopIsLastWord, MotionAge
  <2>5. CASE ~(emergencyStop' /\ ~emergencyStop /\ connected)
    <3>1. UNCHANGED sdkVars BY <1>4, <2>5 DEF EstopCallback, IfConnected
    <3>2. SdkInv' BY <3>1 DEF sdkVars, SdkInv, Sound, SoundWire, Within
    <3>3. StopIsLastWord' /\ MotionAge'
      BY <1>4, <2>5, <3>1 DEF EstopCallback, sdkVars, StopIsLastWord, MotionAge
    <3> QED BY <2>1, <2>2, <2>3, <3>2, <3>3
  <2> QED BY <2>4, <2>5
<1>5. CASE ControlLoop
  <2>1. Sound(robot)' /\ TopicInv' BY <1>5 DEF ControlLoop, Sound, Within, TopicInv
  <2>2. NodeInv' BY <1>0, <1>5 DEF ControlLoop, NodeInv
  <2>3. CASE ~connected
    <3>1. UNCHANGED sdkVars BY <1>5, <2>3 DEF ControlLoop, IfConnected
    <3>2. SdkInv' BY <3>1 DEF sdkVars, SdkInv, Sound, SoundWire, Within
    <3>3. StopIsLastWord' /\ MotionAge' BY <1>5, <2>3 DEF ControlLoop, StopIsLastWord, MotionAge
    <3> QED BY <2>1, <2>2, <3>2, <3>3
  <2>4. CASE connected /\ (emergencyStop \/ Expired)
    <3>1. Stop BY <1>5, <2>4 DEF ControlLoop, IfConnected
    <3>2. SdkInv' /\ command'.v = Still BY <3>1, StopKeeps
    <3> QED BY <2>1, <2>2, <3>2 DEF StopIsLastWord, MotionAge
  <2>5. CASE connected /\ ~emergencyStop /\ ~Expired
    <3>1. SetVelocity(Limited(currentCmd)) BY <1>5, <2>5 DEF ControlLoop, IfConnected
    <3>2. currentCmd \in Velocity BY DEF NodeInv
    <3>3. Limited(currentCmd) \in Velocity /\ Within(Limited(currentCmd)) BY <3>2, LimitedWithin
    <3>4. SdkInv' BY <3>1, <3>3, SetVelocityKeeps
    <3>5. StopIsLastWord' BY <1>5, <2>5 DEF ControlLoop, StopIsLastWord
    <3>6. cmdAge' <= Timeout + sinceTimer'
      BY <1>0, <1>5, <2>5 DEF ControlLoop, Expired, NodeInv
    <3> QED BY <2>1, <2>2, <3>4, <3>5, <3>6 DEF MotionAge
  <2> QED BY <2>3, <2>4, <2>5
<1>6. CASE DestroyNode
  <2>1. Sound(robot)' /\ TopicInv' BY <1>6 DEF DestroyNode, Sound, Within, TopicInv
  <2>2. NodeInv' BY <1>6 DEF DestroyNode, NodeInv
  <2>3. MotionAge' BY <1>6 DEF DestroyNode, MotionAge
  <2>4. CASE connected
    <3>1. StopAndDisconnect BY <1>6, <2>4 DEF DestroyNode, IfConnected
    <3>2. Sound(command') /\ command'.v = Still
      BY <3>1, StandingSound DEF StopAndDisconnect, Standing
    <3>3. SoundWire(wire') BY <3>1, <3>2, SendKeeps DEF StopAndDisconnect, SdkInv
    <3>4. SdkInv' BY <3>1, <3>2, <3>3 DEF StopAndDisconnect, SdkInv, Sound, SoundWire, Within
    <3> QED BY <2>1, <2>2, <2>3, <3>2, <3>4 DEF StopIsLastWord
  <2>5. CASE ~connected
    <3>1. UNCHANGED sdkVars BY <1>6, <2>5 DEF DestroyNode, IfConnected
    <3>2. SdkInv' BY <3>1 DEF sdkVars, SdkInv, Sound, SoundWire, Within
    <3>3. StopIsLastWord' BY <1>6, <2>5 DEF DestroyNode, StopIsLastWord
    <3> QED BY <2>1, <2>2, <2>3, <3>2, <3>3
  <2> QED BY <2>4, <2>5
<1>7. CASE Tick
  <2>1. SdkInv' /\ Sound(robot)' /\ TopicInv'
    BY <1>7 DEF Tick, sdkVars, SdkInv, Sound, SoundWire, Within, TopicInv
  <2>2. NodeInv' BY <1>0, <1>7 DEF Tick, Older, NodeInv
  <2>3. StopIsLastWord' BY <1>7 DEF Tick, sdkVars, StopIsLastWord
  <2>4. cmdAge' <= cmdAge + 1 /\ sinceTimer' = sinceTimer + 1
    BY <1>0, <1>7 DEF Tick, Older, NodeInv
  <2>5. MotionAge'
    BY <1>0, <1>7, <2>2, <2>4 DEF Tick, sdkVars, MotionAge, NodeInv
  <2> QED BY <2>1, <2>2, <2>3, <2>5
<1>8. CASE RobotReceives
  <2>1. wire \in Seq(Datagram) /\ wire # <<>> /\ Len(wire) <= WireCap
    BY <1>8 DEF RobotReceives, SdkInv, SoundWire
  <2>2. Sound(robot') BY <1>8, <2>1 DEF RobotReceives, SdkInv, SoundWire, Sound
  <2>3. SoundWire(wire')
    <3>1. wire' \in Seq(Datagram) /\ Len(wire') = Len(wire) - 1 BY <1>8, <2>1 DEF RobotReceives
    <3>2. Len(wire') <= WireCap BY <2>1, <3>1, WireCapAssumption
    <3>3. ASSUME NEW i \in DOMAIN wire' PROVE Within(wire'[i].v)
      <4>1. wire'[i] = wire[i + 1] /\ i + 1 \in DOMAIN wire BY <1>8, <2>1, <3>1 DEF RobotReceives
      <4> QED BY <4>1 DEF SdkInv, SoundWire
    <3> QED BY <3>1, <3>2, <3>3 DEF SoundWire
  <2>4. SdkInv' BY <1>8, <2>3 DEF RobotReceives, SdkInv, Sound, SoundWire, Within
  <2>5. TopicInv' /\ NodeInv' /\ StopIsLastWord' /\ MotionAge'
    BY <1>8 DEF RobotReceives, nodeVars, TopicInv, NodeInv, StopIsLastWord, MotionAge
  <2> QED BY <2>2, <2>4, <2>5 DEF Sound, Within
<1>9. CASE UNCHANGED vars
  BY <1>9 DEF vars, nodeVars, sdkVars, SdkInv, Sound, SoundWire, Within, TopicInv, NodeInv,
              StopIsLastWord, MotionAge
<1> QED BY <1>1, <1>2, <1>3, <1>4, <1>5, <1>6, <1>7, <1>8, <1>9 DEF Next

LEMMA Inductive == Spec => []IInv
BY InitIInv, NextIInv, PTL DEF Spec

-----------------------------------------------------------------------------
(* go2_velocity_controller: every variable keeps to its type.              *)
THEOREM VelocityTypeCorrect == Spec => []TypeOK
<1>1. OldAge \in Nat BY ControllerAssumption DEF OldAge
<1>2. IInv => TypeOK
  BY <1>1 DEF IInv, SdkInv, Sound, SoundWire, TopicInv, NodeInv, TypeOK
<1> QED BY <1>2, Inductive, PTL

(* Whatever is published, a NaN included, the clamps of control_loop keep   *)
(* every datagram within the limits.                                       *)
THEOREM VelocityWithinLimits == Spec => []LimitsHold
<1>1. IInv => LimitsHold BY DEF IInv, SdkInv, Sound, SoundWire, LimitsHold
<1> QED BY <1>1, Inductive, PTL

(* A stop stays the last word of a controller that holds it or was shut    *)
(* down.                                                                   *)
THEOREM StopStaysLastWord == Spec => []StopIsLastWord
<1>1. IInv => StopIsLastWord BY DEF IInv
<1> QED BY <1>1, Inductive, PTL

(* A motion ends within the timeout and one period of the last Twist.      *)
THEOREM MotionExpires == Spec => []MotionIsRecent
<1>1. Timeout \in Nat /\ Period \in Nat BY ControllerAssumption
<1>2. IInv => MotionIsRecent
  BY <1>1 DEF IInv, NodeInv, OldAge, MotionAge, MotionIsRecent
<1> QED BY <1>2, Inductive, PTL

=============================================================================
