------------------------ MODULE FoodgiverSystemProofs ------------------------
(***************************************************************************)
(* Proofs about FoodgiverSystem: a command for the treat tray that rests   *)
(* on a decision of a user keeps its word, and a decision causes at most   *)
(* one, for any number of phones, polls, failed calls and restarts.        *)
(***************************************************************************)
EXTENDS FoodgiverSystem, FoodgiverServerProofs

FeederTypeOK ==
    /\ feeder \in {"post", "poll", "handle", "done"}
    /\ from \in Decision \cup {NoDecision}
    /\ commands \in [Decision -> Seq({"TA", "TD"})]

\* Commands are covered by fetches; the decision the web thread is about to act
\* on was fetched and has had no command.
CommandsCovered ==
    /\ \A d \in Decision : Len(commands[d]) <= timesUsed[d]
    /\ feeder = "handle" /\ from # NoDecision => timesUsed[from] = 1 /\ Len(commands[from]) = 0

\* The answer the web thread holds is the word of the decision it rests on.
AnswerKeepsWord ==
    from # NoDecision =>
        /\ SetUpFor(from[1], Dev)
        /\ from[2] \in 1..Len(decisions[from[1]])
        /\ decisions[from[1]][from[2]] = answer

SysInv ==
    /\ ServerInv
    /\ FeederTypeOK
    /\ CommandsCovered
    /\ AnswerKeepsWord
    /\ CommandKeepsWord

-----------------------------------------------------------------------------
\* The phones' steps and the HTTP handlers are steps of the server.
LEMMA ServerSteps ==
  ASSUME NEW d \in Devices
  PROVE  /\ OnPostReqTreat(d) => Next
         /\ OnGetReqTreat(d) => Next
         /\ (\E c \in Conns : App(c) \/ Websocket(c)) => Next
BY DEF Next, Http

\* A decision the feeder got stays what it was through every step of the server,
\* and so do those that commands were made of.
LEMMA DecisionKept ==
  ASSUME SysInv, [Next]_vars
  PROVE  /\ UNCHANGED <<answer, from>> => AnswerKeepsWord'
         /\ UNCHANGED commands => CommandKeepsWord'
<1>1. ASSUME NEW c \in Conns, NEW k \in 1..Len(decisions[c])
      PROVE  /\ SetUpFor(c, Dev) => SetUpFor(c, Dev)'
             /\ k \in 1..Len(decisions'[c])
             /\ decisions'[c][k] = decisions[c][k]
  BY <1>1, DecisionsStand DEF SysInv, SetUpFor
<1>2. ASSUME UNCHANGED <<answer, from>>
      PROVE  AnswerKeepsWord'
  <2>1. CASE from = NoDecision
    BY <1>2, <2>1 DEF AnswerKeepsWord
  <2>2. CASE from # NoDecision
    <3>1. from[1] \in Conns
      BY <2>2 DEF SysInv, FeederTypeOK, Decision
    <3> QED
      BY <1>1, <1>2, <2>2, <3>1 DEF SysInv, AnswerKeepsWord
  <2> QED
    BY <2>1, <2>2
<1>3. ASSUME UNCHANGED commands
      PROVE  CommandKeepsWord'
  <2>1. ASSUME NEW d \in Decision, NEW n \in 1..Len(commands[d])
        PROVE  /\ SetUpFor(d[1], Dev)'
               /\ d[2] \in 1..Len(decisions'[d[1]])
               /\ commands[d][n] = TreatCommand(decisions'[d[1]][d[2]])
    <3>1. d[1] \in Conns
      BY DEF Decision
    <3>2. /\ SetUpFor(d[1], Dev)
          /\ d[2] \in 1..Len(decisions[d[1]])
          /\ commands[d][n] = TreatCommand(decisions[d[1]][d[2]])
      BY <2>1 DEF SysInv, CommandKeepsWord
    <3> QED
      BY <1>1, <3>1, <3>2
  <2> QED
    BY <1>3, <2>1 DEF CommandKeepsWord
<1> QED
  BY <1>2, <1>3

LEMMA SysInitInv == SysInit => SysInv
<1> SUFFICES ASSUME SysInit
             PROVE  SysInv
  OBVIOUS
<1>1. ServerInv
  BY InitServer DEF SysInit
<1>2. FeederTypeOK /\ AnswerKeepsWord
  BY DEF SysInit, FeederTypeOK, AnswerKeepsWord
<1>3. CommandsCovered /\ CommandKeepsWord
  BY DEF SysInit, Init, CommandsCovered, CommandKeepsWord
<1> QED
  BY <1>1, <1>2, <1>3 DEF SysInv

LEMMA PostInv ==
  ASSUME SysInv, PostTreatRequest
  PROVE  SysInv'
<1>1. /\ [Next]_vars /\ timesUsed' = timesUsed /\ feeder' = "poll"
      /\ UNCHANGED <<answer, from, commands>>
  <2>1. OnPostReqTreat(Dev) \/ UNCHANGED vars
    BY DEF PostTreatRequest
  <2> QED
    BY <2>1, ServerSteps, FeederAssumption DEF PostTreatRequest, OnPostReqTreat, vars
<1>2. ServerInv'
  BY <1>1, ServerStep DEF SysInv
<1>3. AnswerKeepsWord' /\ CommandKeepsWord'
  BY <1>1, DecisionKept
<1>4. FeederTypeOK' /\ CommandsCovered'
  BY <1>1 DEF SysInv, FeederTypeOK, CommandsCovered
<1> QED
  BY <1>2, <1>3, <1>4 DEF SysInv

LEMMA FetchInv ==
  ASSUME SysInv, GetRequestAnswer
  PROVE  SysInv'
<1> USE FeederAssumption
<1>1. /\ feeder' = "handle" /\ UNCHANGED commands
      /\ OnGetReqTreat(Dev) \/ UNCHANGED vars
      /\ \/ answer' = UNDEF /\ from' = NoDecision
         \/ OnGetReqTreat(Dev) /\ answer' = response'.body /\ from' = response'.from
  BY DEF GetRequestAnswer
<1>2. [Next]_vars
  BY <1>1, ServerSteps
<1>3. ServerInv'
  BY <1>2, ServerStep DEF SysInv
<1>4. ServerInv /\ timesUsed \in [Decision -> Nat]
  BY DEF SysInv, ServerInv, TypeOK
<1>5. \A d \in Decision : timesUsed[d] <= timesUsed'[d]
  <2>1. CASE UNCHANGED vars
    BY <1>4, <2>1 DEF vars
  <2>2. CASE OnGetReqTreat(Dev)
    <3>1. \/ timesUsed' = timesUsed
          \/ timesUsed[response'.from] = 0 /\ timesUsed' = [timesUsed EXCEPT ![response'.from] = 1]
      BY <1>4, <2>2, GetAnswerUses
    <3> QED
      BY <1>4, <3>1
  <2> QED
    BY <1>1, <2>1, <2>2
<1>6. ASSUME from' # NoDecision
      PROVE  /\ from' \in Decision /\ timesUsed[from'] = 0 /\ timesUsed'[from'] = 1
             /\ answer' = response'.body /\ from' = response'.from
             /\ response'.body \in {REPLY_ALLOW, REPLY_DENY} /\ response'.dev = Dev
  <2>1. OnGetReqTreat(Dev) /\ answer' = response'.body /\ from' = response'.from
    BY <1>1, <1>6
  <2> QED
    BY <1>4, <1>6, <2>1, GetAnswerUses
<1>7. FeederTypeOK'
  BY <1>1, <1>6 DEF SysInv, FeederTypeOK
<1>8. CommandsCovered'
  <2>1. ASSUME NEW d \in Decision
        PROVE  Len(commands'[d]) <= timesUsed'[d]
    <3>1. Len(commands[d]) \in Nat /\ timesUsed[d] \in Nat /\ timesUsed'[d] \in Nat
      BY <1>3, <1>4 DEF SysInv, FeederTypeOK, ServerInv, TypeOK
    <3>2. Len(commands[d]) <= timesUsed[d] /\ timesUsed[d] <= timesUsed'[d]
      BY <1>5 DEF SysInv, CommandsCovered
    <3>3. \A x, y, z \in Nat : x <= y /\ y <= z => x <= z
      OBVIOUS
    <3> QED
      BY <1>1, <3>1, <3>2, <3>3
  <2>2. from' # NoDecision => Len(commands'[from']) = 0
    <3>1. ASSUME from' # NoDecision
          PROVE  Len(commands[from']) = 0
      <4>1. Len(commands[from']) \in Nat /\ Len(commands[from']) <= 0
        BY <1>6, <3>1 DEF SysInv, FeederTypeOK, CommandsCovered
      <4>2. \A x \in Nat : x <= 0 => x = 0
        OBVIOUS
      <4> QED
        BY <4>1, <4>2
    <3> QED
      BY <1>1, <3>1
  <2> QED
    BY <1>6, <2>1, <2>2 DEF CommandsCovered
<1>9. AnswerKeepsWord'
  BY <1>3, <1>6 DEF ServerInv, AnswerWasDecided, AnswerKeepsWord, SetUpFor
<1>10. CommandKeepsWord'
  BY <1>1, <1>2, DecisionKept
<1> QED
  BY <1>3, <1>7, <1>8, <1>9, <1>10 DEF SysInv

LEMMA HandleInv ==
  ASSUME SysInv, HandleResponse
  PROVE  SysInv'
<1>1. /\ UNCHANGED <<vars, answer, from>> /\ feeder = "handle" /\ feeder' \in {"poll", "done"}
      /\ commands' = IF from = NoDecision THEN commands
                     ELSE [commands EXCEPT ![from] = Append(@, TreatCommand(answer))]
  BY DEF HandleResponse
<1>2. ServerInv'
  BY <1>1, ServerStep DEF SysInv
<1>3. AnswerKeepsWord'
  BY <1>1, DecisionKept
<1>4. /\ timesUsed' = timesUsed /\ decisions' = decisions
      /\ \A c \in Conns : SetUpFor(c, Dev) => SetUpFor(c, Dev)'
  BY <1>1 DEF vars, SetUpFor
<1>5. CASE from = NoDecision
  <2>1. commands' = commands
    BY <1>1, <1>5
  <2>2. CommandKeepsWord'
    BY <1>1, <2>1, DecisionKept
  <2>3. FeederTypeOK' /\ CommandsCovered'
    BY <1>1, <1>4, <1>5, <2>1 DEF SysInv, FeederTypeOK, CommandsCovered
  <2> QED
    BY <1>2, <1>3, <2>2, <2>3 DEF SysInv
<1>6. CASE from # NoDecision
  <2>1. /\ from \in Decision /\ commands[from] \in Seq({"TA", "TD"})
        /\ Len(commands[from]) = 0 /\ timesUsed[from] = 1
    BY <1>1, <1>6 DEF SysInv, FeederTypeOK, CommandsCovered
  <2>2. TreatCommand(answer) \in {"TA", "TD"}
    BY DEF TreatCommand
  <2>3. /\ Append(commands[from], TreatCommand(answer)) \in Seq({"TA", "TD"})
        /\ Len(Append(commands[from], TreatCommand(answer))) = 1
        /\ Append(commands[from], TreatCommand(answer))[1] = TreatCommand(answer)
    BY <2>1, <2>2
  <2>4. /\ commands' \in [Decision -> Seq({"TA", "TD"})]
        /\ commands'[from] = Append(commands[from], TreatCommand(answer))
        /\ \A d \in Decision \ {from} : commands'[d] = commands[d]
    BY <1>1, <1>6, <2>1, <2>3 DEF SysInv, FeederTypeOK
  <2>5. FeederTypeOK'
    BY <1>1, <1>6, <2>1, <2>4 DEF FeederTypeOK
  <2>6. CommandsCovered'
    <3>1. ASSUME NEW d \in Decision
          PROVE  Len(commands'[d]) <= timesUsed[d]
      <4>1. CASE d = from
        BY <2>1, <2>3, <2>4, <4>1
      <4>2. CASE d # from
        BY <2>4, <4>2 DEF SysInv, CommandsCovered
      <4> QED
        BY <4>1, <4>2
    <3> QED
      BY <1>1, <1>4, <3>1 DEF CommandsCovered
  <2>7. CommandKeepsWord'
    <3>1. ASSUME NEW d \in Decision, NEW n \in 1..Len(commands'[d])
          PROVE  /\ SetUpFor(d[1], Dev)'
                 /\ d[2] \in 1..Len(decisions[d[1]])
                 /\ commands'[d][n] = TreatCommand(decisions[d[1]][d[2]])
      <4>1. d[1] \in Conns
        BY DEF Decision
      <4>2. CASE d = from
        <5>1. n = 1
          BY <2>3, <2>4, <3>1, <4>2
        <5>2. commands'[d][n] = TreatCommand(answer)
          BY <2>3, <2>4, <4>2, <5>1
        <5>3. /\ SetUpFor(from[1], Dev)
              /\ from[2] \in 1..Len(decisions[from[1]])
              /\ decisions[from[1]][from[2]] = answer
          BY <1>6 DEF SysInv, AnswerKeepsWord
        <5> QED
          BY <1>4, <4>1, <4>2, <5>2, <5>3
      <4>3. CASE d # from
        <5>1. commands'[d] = commands[d]
          BY <2>4, <4>3
        <5>2. /\ SetUpFor(d[1], Dev)
              /\ d[2] \in 1..Len(decisions[d[1]])
              /\ commands[d][n] = TreatCommand(decisions[d[1]][d[2]])
          BY <3>1, <5>1 DEF SysInv, CommandKeepsWord
        <5> QED
          BY <1>4, <4>1, <5>1, <5>2
      <4> QED
        BY <4>2, <4>3
    <3> QED
      BY <1>4, <3>1 DEF CommandKeepsWord
  <2> QED
    BY <1>2, <1>3, <2>5, <2>6, <2>7 DEF SysInv
<1> QED
  BY <1>5, <1>6

LEMMA RestartInv ==
  ASSUME SysInv, Restart
  PROVE  SysInv'
<1>1. UNCHANGED <<vars, commands>> /\ feeder' = "post" /\ from' = NoDecision
  BY DEF Restart
<1>2. ServerInv'
  BY <1>1, ServerStep DEF SysInv
<1>3. timesUsed' = timesUsed
  BY <1>1 DEF vars
<1>4. FeederTypeOK' /\ AnswerKeepsWord' /\ CommandsCovered'
  BY <1>1, <1>3 DEF SysInv, FeederTypeOK, AnswerKeepsWord, CommandsCovered
<1>5. CommandKeepsWord'
  BY <1>1, DecisionKept
<1> QED
  BY <1>2, <1>4, <1>5 DEF SysInv

LEMMA PhonesInv ==
  ASSUME SysInv, Phones
  PROVE  SysInv'
<1>1. UNCHANGED feederVars /\ Next
  BY ServerSteps, FeederAssumption DEF Phones
<1>2. UNCHANGED timesUsed
  BY DEF Phones, App, Websocket, OnWebsocketConnect, AppAnswers, ClientLost, HandleWsMessage,
         OnCloseFrame
<1>3. ServerInv'
  BY <1>1, ServerStep DEF SysInv
<1>4. AnswerKeepsWord' /\ CommandKeepsWord'
  BY <1>1, DecisionKept DEF feederVars
<1>5. FeederTypeOK' /\ CommandsCovered'
  BY <1>1, <1>2 DEF SysInv, FeederTypeOK, CommandsCovered, feederVars
<1> QED
  BY <1>3, <1>4, <1>5 DEF SysInv

LEMMA SysStep == SysInv /\ [SysNext]_sysVars => SysInv'
<1> SUFFICES ASSUME SysInv, [SysNext]_sysVars
             PROVE  SysInv'
  OBVIOUS
<1>1. CASE UNCHANGED sysVars
  <2>1. UNCHANGED vars /\ UNCHANGED feederVars
    BY <1>1 DEF sysVars
  <2>2. ServerInv'
    BY <2>1, ServerStep DEF SysInv
  <2>3. AnswerKeepsWord' /\ CommandKeepsWord'
    BY <2>1, DecisionKept DEF feederVars
  <2>4. FeederTypeOK' /\ CommandsCovered'
    BY <2>1 DEF SysInv, FeederTypeOK, CommandsCovered, feederVars, vars
  <2> QED
    BY <2>2, <2>3, <2>4 DEF SysInv
<1> QED
  BY <1>1, PostInv, FetchInv, HandleInv, RestartInv, PhonesInv DEF SysNext, Feeder

-----------------------------------------------------------------------------
\* The invariant of the feeder, the server and the phones together.
THEOREM SystemInvariance == SysSpec => []SysInv
<1> QED
  BY SysInitInv, SysStep, PTL DEF SysSpec

\* One press of a button causes at most one treat command, over repeated polls
\* (WebComm's loop), calls that fail on the way and restarts of the controller.
THEOREM OnePressOneTreat == SysSpec => []OneCommandPerDecision
<1>1. SysInv => OneCommandPerDecision
  <2> SUFFICES ASSUME SysInv, NEW d \in Decision
               PROVE  Len(commands[d]) <= 1
    BY DEF OneCommandPerDecision
  <2>1. /\ Len(commands[d]) \in Nat /\ timesUsed[d] \in Nat
        /\ Len(commands[d]) <= timesUsed[d] /\ timesUsed[d] <= 1
    BY DEF SysInv, FeederTypeOK, CommandsCovered, ServerInv, TypeOK, DecisionUsedOnce
  <2>2. \A x, y \in Nat : x <= y /\ y <= 1 => x <= 1
    OBVIOUS
  <2> QED
    BY <2>1, <2>2
<1> QED
  BY <1>1, SystemInvariance, PTL

\* A treat command that rests on a decision is the one handleResponse makes of the
\* word the user said, on an app with this feeder's number.
THEOREM TreatsKeepTheWord == SysSpec => []CommandKeepsWord
<1>1. SysInv => CommandKeepsWord
  BY DEF SysInv
<1> QED
  BY <1>1, SystemInvariance, PTL
=============================================================================
