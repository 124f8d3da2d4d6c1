------------------------ MODULE FoodgiverServerProofs ------------------------
(***************************************************************************)
(* Proofs about FoodgiverServer, for any devices, any number of            *)
(* connections, answers and messages in flight.                            *)
(***************************************************************************)
EXTENDS FoodgiverServer, TLAPS, SequenceTheorems, WellFoundedInduction

\* A connection subscribes with its first message, which carries the number its
\* app was set up with, and its entry never has another fg_id than what is read of that number.
SubscriptionInv ==
    \A c \in Conns :
        /\ \A k \in 1..Len(wire[c]) : wire[c][k][1] = "auth" => k = 1 /\ wire[c][k][2] = appOf[c]
        /\ c \in DOMAIN m_registry =>
              m_registry[c].fg_id = NoDevice \/ SetUpFor(c, m_registry[c].fg_id)
        /\ Subscribed(c) /\ appOf[c] # Unparsable => m_registry[c].fg_id = AuthId(appOf[c])

\* The answers of a connection and those on their way stay within the bound; a
\* connection that was never used has none.
BudgetInv ==
    \A c \in Conns :
        /\ Len(decisions[c]) + Len(wire[c]) <= MaxDecisions
        /\ link[c] = "unused" => decisions[c] = <<>> /\ wire[c] = <<>>

\* A stored answer is the last decision of its connection and has not been handed
\* out; nor has any decision that is still to be made.
StoredInv ==
    /\ \A c \in DOMAIN m_registry :
          m_registry[c].reply # REPLY_UNDEF =>
              /\ Len(decisions[c]) > 0
              /\ decisions[c][Len(decisions[c])] = m_registry[c].reply
              /\ timesUsed[<<c, Len(decisions[c])>>] = 0
    /\ \A c \in Conns, k \in 1..MaxDecisions : k > Len(decisions[c]) => timesUsed[<<c, k>>] = 0

ServerInv ==
    /\ TypeOK
    /\ OpenMeansRegistered
    /\ SubscriptionInv
    /\ BudgetInv
    /\ StoredInv
    /\ DecisionUsedOnce
    /\ AnswerWasDecided

-----------------------------------------------------------------------------
\* Of a number of at most 7 digits handleWsMessage reads every digit, so that for
\* such numbers the results below speak of the very device.
LEMMA ShortNumbersReadInFull ==
  ASSUME NEW number \in Numbers, Len(number) <= 7
  PROVE  AuthId(number) = Value(number)
BY DEF AuthId, Chars, Pos

\* An id std::stoi throws on is not the number of a device.
LEMMA UnparsableIsNoDevice == Unparsable \notin Devices
<1>1. \A x \in Nat : x \in Int
  OBVIOUS
<1> QED
  BY <1>1, DevicesAssumption

\* The loop over the registry finds the oldest connection of a device.
LEMMA FirstIsMember ==
  ASSUME NEW S \in SUBSET Conns, S # {}
  PROVE  First(S) \in S
<1> DEFINE R == OpToRel(<, Nat)
<1>1. S \subseteq Nat
  BY BoundsAssumption DEF Conns
<1>2. \E x \in S : \A y \in S : ~ (<<y, x>> \in R)
  <2> HIDE DEF R
  <2>1. IsWellFoundedOn(R, Nat)
    BY NatLessThanWellFounded DEF R
  <2> QED
    BY <1>1, <2>1, WFMin
<1>3. \E x \in S : \A y \in S : x <= y
  <2>1. \A x, y \in Nat : y < x => <<y, x>> \in R
    BY DEF OpToRel
  <2> HIDE DEF R
  <2>2. PICK x \in S : \A y \in S : ~ (<<y, x>> \in R)
    BY <1>2
  <2>3. \A y \in S : ~ (y < x)
    BY <1>1, <2>1, <2>2
  <2> QED
    BY <1>1, <2>3
<1> QED
  BY <1>3 DEF First

-----------------------------------------------------------------------------
LEMMA InitServer == Init => ServerInv
<1> SUFFICES ASSUME Init
             PROVE  ServerInv
  OBVIOUS
<1> USE BoundsAssumption, DevicesAssumption DEF Init
<1>1. TypeOK
  BY DEF TypeOK, Ids, Decision, NoDecision
<1>2. OpenMeansRegistered
  BY DEF OpenMeansRegistered
<1>3. SubscriptionInv
  BY DEF SubscriptionInv, SetUpFor, Subscribed
<1>4. BudgetInv
  BY DEF BudgetInv
<1>5. StoredInv /\ DecisionUsedOnce
  BY DEF StoredInv, DecisionUsedOnce, Decision
<1>6. AnswerWasDecided
  BY DEF AnswerWasDecided, REPLY_ALLOW, REPLY_DENY, SetUpFor
<1> QED
  BY <1>1, <1>2, <1>3, <1>4, <1>5, <1>6 DEF ServerInv

LEMMA AppAnswersInv ==
  ASSUME ServerInv, NEW c \in Conns, NEW kind \in {"treat_ack", "treat_nack"}, NEW id \in Ids,
         AppAnswers(c, kind, id)
  PROVE  ServerInv'
<1> USE BoundsAssumption, DevicesAssumption DEF ServerInv, AppAnswers
<1>1. <<kind, id>> \in Messages
  BY DEF Messages
<1>2. wire[c] \in Seq(Messages) /\ wire'[c] = Append(wire[c], <<kind, id>>)
  BY DEF TypeOK
<1>3. /\ Len(wire'[c]) = Len(wire[c]) + 1
      /\ \A k \in 1..Len(wire[c]) : wire'[c][k] = wire[c][k]
      /\ wire'[c][Len(wire[c]) + 1] = <<kind, id>>
  BY <1>1, <1>2
<1>4. TypeOK'
  BY <1>1 DEF TypeOK
<1>5. OpenMeansRegistered'
  BY DEF OpenMeansRegistered
<1>6. SubscriptionInv'
  <2>1. \A e \in Conns \ {c} : wire'[e] = wire[e]
    BY DEF TypeOK
  <2>2. ASSUME NEW e \in Conns
        PROVE  \A k \in 1..Len(wire'[e]) :
                   wire'[e][k][1] = "auth" => k = 1 /\ wire'[e][k][2] = appOf'[e]
    <3>1. CASE e = c
      <4>1. Len(wire[c]) \in Nat
        BY <1>2
      <4>2. \A k \in 1..Len(wire[c]) :
                wire'[c][k][1] = "auth" => k = 1 /\ wire'[c][k][2] = appOf[c]
        BY <1>3 DEF SubscriptionInv
      <4>3. wire'[c][Len(wire[c]) + 1][1] # "auth"
        BY <1>3
      <4>4. appOf' = appOf
        OBVIOUS
      <4> QED
        BY <1>3, <3>1, <4>1, <4>2, <4>3, <4>4
    <3>2. CASE e # c
      BY <2>1, <3>2 DEF SubscriptionInv
    <3> QED
      BY <3>1, <3>2
  <2>3. ASSUME NEW e \in Conns, Subscribed(e)'
        PROVE  Subscribed(e)
    <3>1. CASE e = c
      <4>1. Len(wire[c]) \in Nat /\ link'[c] = link[c]
        BY <1>2
      <4>2. \A k \in 1..Len(wire[c]) : k \in 1..(Len(wire[c]) + 1)
        BY <4>1
      <4> QED
        BY <1>3, <2>3, <3>1, <4>1, <4>2 DEF Subscribed
    <3>2. CASE e # c
      BY <2>1, <2>3, <3>2 DEF Subscribed
    <3> QED
      BY <3>1, <3>2
  <2> QED
    BY <2>2, <2>3 DEF SubscriptionInv, SetUpFor
<1>7. BudgetInv'
  BY <1>2, <1>3 DEF BudgetInv, TypeOK
<1>8. StoredInv' /\ DecisionUsedOnce' /\ AnswerWasDecided'
  BY DEF StoredInv, DecisionUsedOnce, AnswerWasDecided, SetUpFor
<1> QED
  BY <1>4, <1>5, <1>6, <1>7, <1>8

LEMMA ClientLostInv ==
  ASSUME ServerInv, NEW c \in Conns, ClientLost(c)
  PROVE  ServerInv'
<1> USE BoundsAssumption, DevicesAssumption DEF ServerInv
<1>1. PICK n \in 0..Len(wire[c]) : wire' = [wire EXCEPT ![c] = SubSeq(@, 1, n)]
  BY DEF ClientLost
<1>2. wire[c] \in Seq(Messages) /\ wire'[c] = SubSeq(wire[c], 1, n)
  BY <1>1 DEF TypeOK
<1>3. /\ wire'[c] \in Seq(Messages)
      /\ Len(wire'[c]) = n
      /\ \A k \in 1..n : wire'[c][k] = wire[c][k]
  BY <1>2
<1>4. TypeOK'
  BY <1>1, <1>3 DEF TypeOK, ClientLost
<1>5. OpenMeansRegistered'
  BY DEF OpenMeansRegistered, ClientLost, TypeOK
<1>6. SubscriptionInv'
  <2>1. \A d \in Conns : Len(wire'[d]) <= Len(wire[d])
                        /\ \A k \in 1..Len(wire'[d]) : wire'[d][k] = wire[d][k]
    BY <1>1, <1>2, <1>3 DEF TypeOK
  <2>2. \A d \in Conns : Subscribed(d)' => Subscribed(d)
    BY <1>1, <1>2, <1>3 DEF Subscribed, ClientLost, TypeOK
  <2>3. ASSUME NEW d \in Conns
        PROVE  \A k \in 1..Len(wire'[d]) :
                   wire'[d][k][1] = "auth" => k = 1 /\ wire'[d][k][2] = appOf[d]
    <3>1. Len(wire[d]) \in Nat /\ Len(wire'[d]) \in Nat
      BY <1>4 DEF TypeOK
    <3> QED
      BY <3>1, <2>1 DEF SubscriptionInv, SetUpFor
  <2>4. UNCHANGED <<m_registry, appOf>>
    BY DEF ClientLost
  <2> QED
    BY <2>2, <2>3, <2>4 DEF SubscriptionInv, SetUpFor
<1>7. BudgetInv'
  BY <1>1, <1>2, <1>3 DEF BudgetInv, TypeOK, ClientLost
<1>8. StoredInv' /\ DecisionUsedOnce' /\ AnswerWasDecided'
  BY DEF StoredInv, DecisionUsedOnce, AnswerWasDecided, ClientLost, SetUpFor
<1> QED
  BY <1>4, <1>5, <1>6, <1>7, <1>8

LEMMA ConnectInv ==
  ASSUME ServerInv, NEW c \in Conns, NEW id \in Ids, OnWebsocketConnect(c, id)
  PROVE  ServerInv'
<1> USE BoundsAssumption, DevicesAssumption DEF ServerInv
<1>1. <<"auth", id>> \in Messages
  BY DEF Messages
<1>2. /\ wire'[c] = <<<<"auth", id>>>> /\ appOf'[c] = id
      /\ \A e \in Conns \ {c} : wire'[e] = wire[e] /\ appOf'[e] = appOf[e] /\ link'[e] = link[e]
      /\ link[c] = "unused" /\ link'[c] = "up"
  BY DEF OnWebsocketConnect, TypeOK
<1>3. /\ DOMAIN m_registry' = DOMAIN m_registry \cup {c}
      /\ m_registry'[c] = [fg_id |-> NoDevice, reply |-> REPLY_UNDEF]
      /\ \A e \in DOMAIN m_registry \ {c} : m_registry'[e] = m_registry[e]
  BY DEF OnWebsocketConnect
<1>4. UNCHANGED <<response, decisions, timesUsed>>
  BY DEF OnWebsocketConnect
<1>5. TypeOK'
  <2>1. m_registry'[c] \in Entry
    BY <1>3 DEF Entry, Replies
  <2>2. m_registry' \in [DOMAIN m_registry' -> Entry]
    BY <1>3, <2>1 DEF OnWebsocketConnect, TypeOK
  <2>3. wire' \in [Conns -> Seq(Messages)]
    <3>1. <<<<"auth", id>>>> \in Seq(Messages)
      BY <1>1
    <3> QED
      BY <3>1 DEF TypeOK, OnWebsocketConnect
  <2>4. /\ link' \in [Conns -> {"unused", "up", "lost", "closed"}]
        /\ appOf' \in [Conns -> Ids]
        /\ DOMAIN m_registry' \subseteq Conns
    BY <1>3 DEF TypeOK, OnWebsocketConnect
  <2> QED
    BY <1>4, <2>2, <2>3, <2>4 DEF TypeOK
<1>6. OpenMeansRegistered'
  BY <1>2, <1>3 DEF OpenMeansRegistered
<1>7. SubscriptionInv'
  <2>1. Len(wire'[c]) = 1 /\ wire'[c][1] = <<"auth", id>>
    BY <1>2
  <2>2. ~ Subscribed(c)'
    BY <2>1 DEF Subscribed
  <2>3. ASSUME NEW e \in Conns, e # c
        PROVE  Subscribed(e)' <=> Subscribed(e)
    BY <1>2, <2>3 DEF Subscribed
  <2>4. ASSUME NEW e \in Conns, Subscribed(e)
        PROVE  e \in DOMAIN m_registry
    BY <2>4 DEF Subscribed, OpenMeansRegistered
  <2>5. ASSUME NEW e \in Conns
        PROVE  \A k \in 1..Len(wire'[e]) :
                   wire'[e][k][1] = "auth" => k = 1 /\ wire'[e][k][2] = appOf'[e]
    <3>1. CASE e = c
      BY <1>2, <2>1, <3>1
    <3>2. CASE e # c
      BY <1>2, <3>2 DEF SubscriptionInv, SetUpFor
    <3> QED
      BY <3>1, <3>2
  <2>6. ASSUME NEW e \in Conns, e \in DOMAIN m_registry'
        PROVE  m_registry'[e].fg_id = NoDevice \/ SetUpFor(e, m_registry[e].fg_id)'
    BY <1>2, <1>3, <2>6 DEF SubscriptionInv, SetUpFor
  <2>7. ASSUME NEW e \in Conns, Subscribed(e)', appOf'[e] # Unparsable
        PROVE  m_registry'[e].fg_id = AuthId(appOf'[e])
    BY <1>2, <1>3, <2>2, <2>3, <2>4, <2>7 DEF SubscriptionInv, SetUpFor
  <2> QED
    BY <2>5, <2>6, <2>7 DEF SubscriptionInv, SetUpFor
<1>8. BudgetInv'
  <2>1. decisions[c] = <<>> /\ Len(wire'[c]) = 1
    BY <1>2 DEF BudgetInv
  <2>2. Len(decisions'[c]) = 0 /\ decisions' = decisions
    BY <1>4, <2>1
  <2>3. ASSUME NEW e \in Conns
        PROVE  /\ Len(decisions'[e]) + Len(wire'[e]) <= MaxDecisions
               /\ link'[e] = "unused" => decisions'[e] = <<>> /\ wire'[e] = <<>>
    <3>1. CASE e = c
      <4>1. link'[c] # "unused"
        BY <1>2
      <4>2. Len(decisions'[c]) + Len(wire'[c]) <= MaxDecisions
        BY <2>1, <2>2
      <4> QED
        BY <3>1, <4>1, <4>2
    <3>2. CASE e # c
      BY <1>2, <2>2, <3>2 DEF BudgetInv
    <3> QED
      BY <3>1, <3>2
  <2> QED
    BY <2>3 DEF BudgetInv
<1>9. StoredInv'
  BY <1>3, <1>4 DEF StoredInv
<1>10. DecisionUsedOnce'
  BY <1>4 DEF DecisionUsedOnce
<1>11. AnswerWasDecided'
  <2>1. decisions[c] = <<>>
    BY <1>2 DEF BudgetInv
  <2> QED
    BY <1>2, <1>4, <2>1 DEF AnswerWasDecided, SetUpFor
<1> QED
  BY <1>5, <1>6, <1>7, <1>8, <1>9, <1>10, <1>11

LEMMA CloseFrameInv ==
  ASSUME ServerInv, NEW c \in Conns, OnCloseFrame(c)
  PROVE  ServerInv'
<1> USE BoundsAssumption, DevicesAssumption DEF ServerInv
<1>1. /\ wire'[c] = <<>>
      /\ \A e \in Conns \ {c} : wire'[e] = wire[e] /\ link'[e] = link[e]
      /\ link'[c] = "closed"
  BY DEF OnCloseFrame, TypeOK
<1>2. /\ DOMAIN m_registry' = DOMAIN m_registry \ {c}
      /\ \A e \in DOMAIN m_registry \ {c} : m_registry'[e] = m_registry[e]
  BY DEF OnCloseFrame
<1>3. UNCHANGED <<response, appOf, decisions, timesUsed>>
  BY DEF OnCloseFrame
<1>4. TypeOK'
  <2>1. m_registry' \in [DOMAIN m_registry' -> Entry]
    BY <1>2 DEF OnCloseFrame, TypeOK
  <2> QED
    BY <1>2, <1>3, <2>1 DEF TypeOK, OnCloseFrame
<1>5. OpenMeansRegistered'
  BY <1>1, <1>2 DEF OpenMeansRegistered
<1>6. SubscriptionInv'
  <2>1. ~ Subscribed(c)'
    BY <1>1 DEF Subscribed
  <2>2. ASSUME NEW e \in Conns, e # c
        PROVE  Subscribed(e)' <=> Subscribed(e)
    BY <1>1, <2>2 DEF Subscribed
  <2>3. ASSUME NEW e \in Conns, Subscribed(e)
        PROVE  e \in DOMAIN m_registry
    BY <2>3 DEF Subscribed, OpenMeansRegistered
  <2>4. ASSUME NEW e \in Conns
        PROVE  \A k \in 1..Len(wire'[e]) :
                   wire'[e][k][1] = "auth" => k = 1 /\ wire'[e][k][2] = appOf'[e]
    <3>1. CASE e = c
      BY <1>1, <3>1
    <3>2. CASE e # c
      BY <1>1, <1>3, <3>2 DEF SubscriptionInv, SetUpFor
    <3> QED
      BY <3>1, <3>2
  <2>5. ASSUME NEW e \in Conns, e \in DOMAIN m_registry'
        PROVE  m_registry'[e].fg_id = NoDevice \/ SetUpFor(e, m_registry[e].fg_id)'
    BY <1>2, <1>3, <2>5 DEF SubscriptionInv, SetUpFor
  <2>6. ASSUME NEW e \in Conns, Subscribed(e)', appOf'[e] # Unparsable
        PROVE  m_registry'[e].fg_id = AuthId(appOf'[e])
    BY <1>2, <1>3, <2>1, <2>2, <2>3, <2>6 DEF SubscriptionInv, SetUpFor
  <2> QED
    BY <2>4, <2>5, <2>6 DEF SubscriptionInv, SetUpFor
<1>7. BudgetInv'
  <2>1. Len(wire'[c]) = 0 /\ Len(wire[c]) \in Nat /\ Len(decisions[c]) \in Nat
    BY <1>1 DEF TypeOK
  <2>2. ASSUME NEW e \in Conns
        PROVE  /\ Len(decisions[e]) + Len(wire'[e]) <= MaxDecisions
               /\ link'[e] = "unused" => decisions[e] = <<>> /\ wire'[e] = <<>>
    <3>1. CASE e = c
      <4>1. link'[c] # "unused"
        BY <1>1
      <4>2. Len(decisions[c]) + Len(wire[c]) <= MaxDecisions
        BY DEF BudgetInv
      <4>3. \A a, b, m \in Nat : a + b <= m => a + 0 <= m
        OBVIOUS
      <4>4. Len(decisions[c]) + Len(wire'[c]) <= MaxDecisions
        BY <2>1, <4>2, <4>3
      <4> QED
        BY <3>1, <4>1, <4>4
    <3>2. CASE e # c
      BY <1>1, <3>2 DEF BudgetInv
    <3> QED
      BY <3>1, <3>2
  <2> QED
    BY <1>3, <2>2 DEF BudgetInv
<1>8. StoredInv' /\ DecisionUsedOnce' /\ AnswerWasDecided'
  BY <1>2, <1>3 DEF StoredInv, DecisionUsedOnce, AnswerWasDecided, SetUpFor
<1> QED
  BY <1>4, <1>5, <1>6, <1>7, <1>8

LEMMA MessageInv ==
  ASSUME ServerInv, NEW c \in Conns, HandleWsMessage(c)
  PROVE  ServerInv'
<1> USE BoundsAssumption, DevicesAssumption DEF ServerInv
<1> DEFINE w == wire[c]
           Decided(r) == /\ w[1][1] # "auth"
                         /\ SetReply(c, r)
                         /\ decisions' = [decisions EXCEPT ![c] = Append(@, r)]
<1>1. /\ w \in Seq(Messages) /\ w # <<>> /\ link[c] \in {"up", "lost"}
      /\ wire' = [wire EXCEPT ![c] = Tail(w)]
      /\ UNCHANGED <<link, response, appOf, timesUsed>>
  BY DEF HandleWsMessage, TypeOK
<1>2. /\ Len(w) \in Nat \ {0} /\ Head(w) = w[1] /\ w[1] \in Messages
      /\ Tail(w) \in Seq(Messages) /\ Len(Tail(w)) = Len(w) - 1
      /\ \A k \in 1..(Len(w) - 1) : Tail(w)[k] = w[k + 1]
  BY <1>1
<1>3. /\ wire' \in [Conns -> Seq(Messages)] /\ wire'[c] = Tail(w)
      /\ \A e \in Conns \ {c} : wire'[e] = wire[e]
  BY <1>1, <1>2 DEF TypeOK
<1>4. /\ w[1][2] \in Ids
      /\ \/ ~ Parses(w[1][1], w[1][2]) /\ UNCHANGED <<m_registry, decisions>>
         \/ /\ w[1][2] \in Numbers /\ w[1][1] = "auth"
            /\ SetFgId(c, AuthId(w[1][2])) /\ UNCHANGED decisions
         \/ \E r \in {REPLY_ALLOW, REPLY_DENY} : Decided(r)
  <2>1. w[1][2] \in Ids
    BY <1>2 DEF Messages
  <2>2. Parses(w[1][1], w[1][2]) => w[1][2] \in Numbers
    BY <2>1 DEF Ids, Parses
  <2> QED
    BY <1>2, <2>1, <2>2 DEF HandleWsMessage
<1>5. c \in DOMAIN m_registry
  BY <1>1 DEF OpenMeansRegistered
<1>6. \A k \in 1..Len(wire'[c]) : wire'[c][k][1] # "auth"
  BY <1>2, <1>3 DEF SubscriptionInv, SetUpFor
<1>7. /\ w[1][1] = "auth" => w[1][2] = appOf[c]
      /\ w[1][1] # "auth" /\ Subscribed(c)' => Subscribed(c)
  <2>1. ASSUME w[1][1] # "auth", NEW k \in 1..Len(w)
        PROVE  w[k][1] # "auth"
    BY <1>2, <2>1 DEF SubscriptionInv, SetUpFor
  <2> QED
    BY <1>1, <1>2, <2>1 DEF Subscribed, SubscriptionInv, SetUpFor
<1>8. ASSUME NEW e \in Conns, e # c
      PROVE  Subscribed(e)' <=> Subscribed(e)
  BY <1>1, <1>3, <1>8 DEF Subscribed
<1>9. ASSUME NEW e \in Conns
      PROVE  \A k \in 1..Len(wire'[e]) :
                 wire'[e][k][1] = "auth" => k = 1 /\ wire'[e][k][2] = appOf'[e]
  <2>1. CASE e = c
    BY <1>6, <2>1
  <2>2. CASE e # c
    BY <1>1, <1>3, <2>2 DEF SubscriptionInv, SetUpFor
  <2> QED
    BY <2>1, <2>2
<1>10. ASSUME NEW e \in Conns, Subscribed(e)
       PROVE  e \in DOMAIN m_registry
  BY <1>10 DEF Subscribed, OpenMeansRegistered
<1>11. ASSUME NEW n \in Nat, n <= 1, Len(decisions'[c]) = Len(decisions[c]) + n,
              \A e \in Conns \ {c} : decisions'[e] = decisions[e]
       PROVE  BudgetInv'
  <2>1. \A a, b, m \in Nat : a + b <= m /\ b # 0 => a + n + (b - 1) <= m
    BY <1>11
  <2>2. Len(decisions[c]) \in Nat /\ Len(decisions[c]) + Len(w) <= MaxDecisions
    BY DEF TypeOK, BudgetInv
  <2>3. Len(decisions'[c]) + Len(wire'[c]) <= MaxDecisions
    BY <1>2, <1>3, <1>11, <2>1, <2>2
  <2>4. link'[c] # "unused" /\ link' = link
    BY <1>1
  <2> QED
    BY <1>3, <1>11, <2>3, <2>4 DEF BudgetInv
<1>12. CASE ~ Parses(w[1][1], w[1][2]) /\ UNCHANGED <<m_registry, decisions>>
  <2>1. TypeOK' /\ OpenMeansRegistered'
    BY <1>1, <1>3, <1>12 DEF TypeOK, OpenMeansRegistered
  <2>2. ASSUME NEW e \in Conns, Subscribed(e)', appOf[e] # Unparsable
        PROVE  m_registry[e].fg_id = AuthId(appOf[e])
    <3>1. e = c => w[1][1] # "auth"
      <4>1. appOf[e] \in Numbers
        BY <2>2 DEF TypeOK, Ids
      <4> QED
        BY <1>7, <1>12, <4>1, NumbersAssumption
    <3>2. Subscribed(e)
      BY <1>7, <1>8, <2>2, <3>1
    <3> QED
      BY <2>2, <3>2 DEF SubscriptionInv, SetUpFor
  <2>3. SubscriptionInv'
    BY <1>1, <1>9, <1>12, <2>2 DEF SubscriptionInv, SetUpFor
  <2>4. BudgetInv'
    <3>1. Len(decisions[c]) = Len(decisions[c]) + 0
      BY DEF TypeOK
    <3>2. decisions' = decisions
      BY <1>12
    <3> QED
      BY <1>11, <3>1, <3>2
  <2>5. StoredInv' /\ DecisionUsedOnce' /\ AnswerWasDecided'
    BY <1>1, <1>12 DEF StoredInv, DecisionUsedOnce, AnswerWasDecided, SetUpFor
  <2> QED
    BY <2>1, <2>3, <2>4, <2>5
<1>13. CASE /\ w[1][2] \in Numbers /\ w[1][1] = "auth"
            /\ SetFgId(c, AuthId(w[1][2])) /\ UNCHANGED decisions
  <2>1. /\ m_registry' = [m_registry EXCEPT ![c].fg_id = AuthId(appOf[c])]
        /\ appOf[c] \in Numbers
    BY <1>5, <1>7, <1>13 DEF SetFgId
  <2>2. /\ m_registry' \in [DOMAIN m_registry -> Entry]
        /\ m_registry'[c].fg_id = AuthId(appOf[c]) /\ appOf[c] # Unparsable
        /\ m_registry'[c].reply = m_registry[c].reply
        /\ \A e \in DOMAIN m_registry \ {c} : m_registry'[e] = m_registry[e]
    BY <1>5, <2>1, NumbersAssumption DEF TypeOK, Entry, Parses
  <2> HIDE <2>1
  <2>3. DOMAIN m_registry' = DOMAIN m_registry
    BY <2>2
  <2>4. TypeOK' /\ OpenMeansRegistered'
    BY <1>1, <1>3, <1>13, <2>2, <2>3 DEF TypeOK, OpenMeansRegistered
  <2>5. ASSUME NEW e \in Conns, e \in DOMAIN m_registry
        PROVE  m_registry'[e].fg_id = NoDevice \/ SetUpFor(e, m_registry[e].fg_id)'
    BY <1>1, <2>2, <2>5 DEF SubscriptionInv, SetUpFor
  <2>6. ASSUME NEW e \in Conns, Subscribed(e)', appOf[e] # Unparsable
        PROVE  m_registry'[e].fg_id = AuthId(appOf[e])
    BY <1>8, <1>10, <2>2, <2>6 DEF SubscriptionInv, SetUpFor
  <2>7. SubscriptionInv'
    BY <1>1, <1>9, <2>3, <2>5, <2>6 DEF SubscriptionInv, SetUpFor
  <2>8. BudgetInv'
    <3>1. Len(decisions[c]) = Len(decisions[c]) + 0
      BY DEF TypeOK
    <3> QED
      BY <1>11, <1>13, <3>1
  <2>9. ASSUME NEW e \in DOMAIN m_registry
        PROVE  m_registry'[e].reply = m_registry[e].reply
    BY <2>2
  <2>10. StoredInv'
    BY <1>1, <1>13, <2>3, <2>9 DEF StoredInv
  <2>11. DecisionUsedOnce' /\ AnswerWasDecided'
    BY <1>1, <1>13 DEF DecisionUsedOnce, AnswerWasDecided, SetUpFor
  <2> QED
    BY <2>4, <2>7, <2>8, <2>10, <2>11
<1>14. ASSUME NEW r \in {REPLY_ALLOW, REPLY_DENY}, Decided(r)
       PROVE  ServerInv'
  <2>1. r \in Replies /\ r # REPLY_UNDEF
    BY DEF Replies, REPLY_ALLOW, REPLY_DENY, REPLY_UNDEF
  <2>2. /\ m_registry' \in [DOMAIN m_registry -> Entry]
        /\ m_registry'[c].fg_id = m_registry[c].fg_id /\ m_registry'[c].reply = r
        /\ \A e \in DOMAIN m_registry \ {c} : m_registry'[e] = m_registry[e]
    <3>1. m_registry' = [m_registry EXCEPT ![c].reply = r]
      BY <1>5, <1>14 DEF SetReply
    <3> QED
      BY <1>5, <2>1, <3>1 DEF TypeOK, Entry
  <2>3. /\ decisions[c] \in Seq(Replies)
        /\ decisions'[c] = Append(decisions[c], r)
        /\ decisions' \in [Conns -> Seq(Replies)]
        /\ \A e \in Conns \ {c} : decisions'[e] = decisions[e]
    BY <1>14, <2>1 DEF TypeOK
  <2>4. /\ Len(decisions[c]) \in Nat
        /\ Len(decisions'[c]) = Len(decisions[c]) + 1
        /\ \A k \in 1..Len(decisions[c]) : decisions'[c][k] = decisions[c][k]
        /\ decisions'[c][Len(decisions[c]) + 1] = r
    BY <2>1, <2>3
  <2>5. DOMAIN m_registry' = DOMAIN m_registry /\ w[1][1] # "auth"
    BY <1>14, <2>2
  <2> HIDE <1>14 DEF Decided
  <2>6. TypeOK' /\ OpenMeansRegistered'
    BY <1>1, <1>3, <2>2, <2>3, <2>5 DEF TypeOK, OpenMeansRegistered
  <2>7. ASSUME NEW e \in DOMAIN m_registry
        PROVE  m_registry'[e].fg_id = m_registry[e].fg_id
    BY <2>2
  <2>8. ASSUME NEW e \in Conns, Subscribed(e)', appOf[e] # Unparsable
        PROVE  m_registry'[e].fg_id = AuthId(appOf[e])
    <3>1. Subscribed(e)
      BY <1>7, <1>8, <2>5, <2>8
    <3> QED
      BY <1>10, <2>7, <2>8, <3>1 DEF SubscriptionInv, SetUpFor
  <2>9. SubscriptionInv'
    <3>1. ASSUME NEW e \in Conns, e \in DOMAIN m_registry'
          PROVE  m_registry'[e].fg_id = NoDevice \/ SetUpFor(e, m_registry[e].fg_id)'
      BY <1>1, <2>5, <2>7, <3>1 DEF SubscriptionInv, SetUpFor
    <3> QED
      BY <1>1, <1>9, <2>8, <3>1 DEF SubscriptionInv, SetUpFor
  <2>10. BudgetInv'
    BY <1>11, <2>3, <2>4
  <2>11. Len(decisions[c]) + 1 \in 1..MaxDecisions
    <3>1. Len(decisions[c]) + Len(w) <= MaxDecisions
      BY DEF BudgetInv
    <3>2. \A a, b, m \in Nat : a + b <= m /\ b # 0 => a + 1 \in 1..m
      OBVIOUS
    <3> QED
      BY <1>2, <2>4, <3>1, <3>2
  <2>12. StoredInv'
    <3>1. ASSUME NEW e \in DOMAIN m_registry', m_registry'[e].reply # REPLY_UNDEF
          PROVE  /\ Len(decisions'[e]) > 0
                 /\ decisions'[e][Len(decisions'[e])] = m_registry'[e].reply
                 /\ timesUsed'[<<e, Len(decisions'[e])>>] = 0
      <4>1. CASE e = c
        <5>1. timesUsed[<<c, Len(decisions[c]) + 1>>] = 0
          BY <2>4, <2>11 DEF StoredInv
        <5>2. /\ Len(decisions'[c]) > 0
              /\ decisions'[c][Len(decisions'[c])] = m_registry'[c].reply
          BY <2>2, <2>4
        <5>3. timesUsed'[<<c, Len(decisions'[c])>>] = 0
          BY <1>1, <2>4, <5>1
        <5> QED
          BY <4>1, <5>2, <5>3
      <4>2. CASE e # c
        <5>1. e \in Conns /\ e \in DOMAIN m_registry /\ m_registry'[e] = m_registry[e]
              /\ decisions'[e] = decisions[e]
          BY <2>2, <2>3, <2>5, <4>2 DEF TypeOK
        <5> QED
          BY <1>1, <3>1, <5>1 DEF StoredInv
      <4> QED
        BY <4>1, <4>2
    <3>2. ASSUME NEW e \in Conns, NEW k \in 1..MaxDecisions, k > Len(decisions'[e])
          PROVE  timesUsed'[<<e, k>>] = 0
      <4>1. k > Len(decisions[e])
        BY <2>3, <2>4, <3>2
      <4> QED
        BY <1>1, <4>1 DEF StoredInv
    <3> QED
      BY <3>1, <3>2 DEF StoredInv
  <2>13. DecisionUsedOnce'
    BY <1>1 DEF DecisionUsedOnce
  <2>14. AnswerWasDecided'
    <3>1. ASSUME NEW e \in Conns
          PROVE  /\ 1..Len(decisions[e]) \subseteq 1..Len(decisions'[e])
                 /\ \A k \in 1..Len(decisions[e]) : decisions'[e][k] = decisions[e][k]
      BY <2>3, <2>4
    <3> QED
      BY <1>1, <3>1 DEF AnswerWasDecided, SetUpFor
  <2> QED
    BY <2>6, <2>9, <2>10, <2>12, <2>13, <2>14
<1> QED
  BY <1>4, <1>12, <1>13, <1>14

\* A stored answer can be handed out: it is a decision nobody was handed yet.
LEMMA StoredAnswer ==
  ASSUME ServerInv, NEW c \in DOMAIN m_registry, m_registry[c].reply # REPLY_UNDEF
  PROVE  /\ c \in Conns
         /\ Len(decisions[c]) \in 1..Len(decisions[c])
         /\ <<c, Len(decisions[c])>> \in Decision /\ <<c, Len(decisions[c])>> # NoDecision
         /\ decisions[c][Len(decisions[c])] = m_registry[c].reply
         /\ timesUsed[<<c, Len(decisions[c])>>] = 0
<1> USE BoundsAssumption DEF ServerInv
<1>1. c \in Conns /\ Len(decisions[c]) \in Nat /\ Len(wire[c]) \in Nat
  BY DEF TypeOK
<1>2. Len(decisions[c]) > 0 /\ Len(decisions[c]) + Len(wire[c]) <= MaxDecisions
  BY <1>1 DEF StoredInv, BudgetInv
<1>3. \A a, b, m \in Nat : a > 0 /\ a + b <= m => a \in 1..m /\ a \in 1..a
  OBVIOUS
<1>4. Len(decisions[c]) \in 1..MaxDecisions /\ Len(decisions[c]) \in 1..Len(decisions[c])
  BY <1>1, <1>2, <1>3
<1>5. <<c, Len(decisions[c])>> \in Decision /\ <<c, Len(decisions[c])>> # NoDecision
  BY <1>1, <1>4 DEF Decision, NoDecision, Conns
<1> QED
  BY <1>1, <1>4, <1>5 DEF StoredInv

LEMMA GetAnswerInv ==
  ASSUME ServerInv, NEW d \in Devices, OnGetReqTreat(d)
  PROVE  ServerInv'
<1> USE BoundsAssumption, DevicesAssumption DEF ServerInv
<1>1. UNCHANGED <<link, wire, appOf, decisions>>
  BY DEF OnGetReqTreat
<1>2. CASE Matching(d) = {}
  <2>1. /\ response' = [route |-> "get", dev |-> d, body |-> "Mobile_app_not_found",
                        from |-> NoDecision, targets |-> {}]
        /\ UNCHANGED <<m_registry, timesUsed>>
    BY <1>2 DEF OnGetReqTreat, Respond
  <2>2. TypeOK' /\ OpenMeansRegistered'
    BY <1>1, <2>1 DEF TypeOK, OpenMeansRegistered
  <2>3. SubscriptionInv' /\ BudgetInv' /\ StoredInv' /\ DecisionUsedOnce'
    BY <1>1, <2>1 DEF SubscriptionInv, SetUpFor, Subscribed, BudgetInv, StoredInv, DecisionUsedOnce
  <2>4. AnswerWasDecided'
    BY <2>1 DEF AnswerWasDecided, REPLY_ALLOW, REPLY_DENY, SetUpFor
  <2> QED
    BY <2>2, <2>3, <2>4
<1>3. CASE Matching(d) # {}
  <2> DEFINE c == First(Matching(d))
             reply == m_registry[c].reply
             from == IF reply = REPLY_UNDEF THEN NoDecision ELSE <<c, Len(decisions[c])>>
  <2>1. c \in Matching(d)
    BY <1>3, FirstIsMember DEF Matching, TypeOK
  <2>2. /\ response' = [route |-> "get", dev |-> d, body |-> reply, from |-> from, targets |-> {}]
        /\ m_registry' = [m_registry EXCEPT ![c].reply = REPLY_UNDEF]
        /\ timesUsed' = IF from = NoDecision THEN timesUsed
                        ELSE [timesUsed EXCEPT ![from] = @ + 1]
    BY <1>3 DEF OnGetReqTreat, Respond
  <2> HIDE DEF c
  <2>3. c \in Conns /\ c \in DOMAIN m_registry /\ m_registry[c].fg_id = d
    BY <2>1 DEF Matching, TypeOK
  <2>4. reply \in Replies
    BY <2>3 DEF TypeOK, Entry
  <2>5. /\ m_registry' \in [DOMAIN m_registry -> Entry]
        /\ m_registry'[c].fg_id = m_registry[c].fg_id /\ m_registry'[c].reply = REPLY_UNDEF
        /\ \A e \in DOMAIN m_registry \ {c} : m_registry'[e] = m_registry[e]
    BY <2>2, <2>3 DEF TypeOK, Entry, Replies
  <2>6. DOMAIN m_registry' = DOMAIN m_registry
    BY <2>5
  <2>7. ASSUME reply # REPLY_UNDEF
        PROVE  /\ from \in Decision /\ from # NoDecision
               /\ from = <<c, Len(decisions[c])>> /\ timesUsed[from] = 0
               /\ Len(decisions[c]) \in 1..Len(decisions[c])
               /\ decisions[c][Len(decisions[c])] = reply
    BY <2>3, <2>7, StoredAnswer
  <2>8. reply = REPLY_UNDEF => from = NoDecision
    OBVIOUS
  <2>9. m_registry[c].reply = reply
    OBVIOUS
  <2> HIDE DEF from, reply
  <2>10. timesUsed' \in [Decision -> Nat]
    BY <2>2, <2>7, <2>8 DEF TypeOK
  <2>11. response'.from \in Decision \cup {NoDecision}
    BY <2>2, <2>7, <2>8
  <2>12. TypeOK'
    BY <1>1, <2>5, <2>6, <2>10, <2>11 DEF TypeOK
  <2>13. OpenMeansRegistered'
    BY <1>1, <2>6 DEF OpenMeansRegistered
  <2>14. SubscriptionInv'
    <3>1. ASSUME NEW e \in DOMAIN m_registry
          PROVE  m_registry'[e].fg_id = m_registry[e].fg_id
      BY <2>5
    <3>2. ASSUME NEW e \in Conns
          PROVE  Subscribed(e)' = Subscribed(e) /\ (Subscribed(e) => e \in DOMAIN m_registry)
      BY <1>1 DEF Subscribed, OpenMeansRegistered
    <3> QED
      BY <1>1, <2>6, <3>1, <3>2 DEF SubscriptionInv, SetUpFor
  <2>15. BudgetInv'
    BY <1>1 DEF BudgetInv
  <2>16. ASSUME NEW x \in Decision, timesUsed'[x] # timesUsed[x]
         PROVE  /\ reply # REPLY_UNDEF /\ x = <<c, Len(decisions[c])>>
                /\ timesUsed[x] = 0 /\ timesUsed'[x] = 1
    BY <2>2, <2>7, <2>8, <2>16 DEF TypeOK
  <2>17. DecisionUsedOnce'
    BY <2>16 DEF DecisionUsedOnce
  <2>18. StoredInv'
    <3>1. ASSUME NEW e \in DOMAIN m_registry', m_registry'[e].reply # REPLY_UNDEF
          PROVE  /\ Len(decisions'[e]) > 0
                 /\ decisions'[e][Len(decisions'[e])] = m_registry'[e].reply
                 /\ timesUsed'[<<e, Len(decisions'[e])>>] = 0
      <4>1. e # c /\ e \in Conns /\ e \in DOMAIN m_registry /\ m_registry'[e] = m_registry[e]
        BY <2>5, <2>6, <3>1 DEF TypeOK
      <4>2. /\ Len(decisions[e]) > 0
            /\ decisions[e][Len(decisions[e])] = m_registry[e].reply
            /\ timesUsed[<<e, Len(decisions[e])>>] = 0
        BY <3>1, <4>1 DEF StoredInv
      <4>3. <<e, Len(decisions[e])>> \in Decision
        BY <3>1, <4>1, StoredAnswer
      <4>4. timesUsed'[<<e, Len(decisions[e])>>] = 0
        <5>1. <<e, Len(decisions[e])>> # <<c, Len(decisions[c])>>
          BY <4>1
        <5> QED
          BY <2>16, <4>2, <4>3, <5>1
      <4> QED
        BY <1>1, <4>1, <4>2, <4>4
    <3>2. ASSUME NEW e \in Conns, NEW k \in 1..MaxDecisions, k > Len(decisions'[e])
          PROVE  timesUsed'[<<e, k>>] = 0
      <4>1. k > Len(decisions[e]) /\ timesUsed[<<e, k>>] = 0
        BY <1>1, <3>2 DEF StoredInv
      <4>2. <<e, k>> \in Decision /\ Len(decisions[e]) \in Nat
        BY DEF Decision, TypeOK
      <4>3. <<e, k>> # <<c, Len(decisions[c])>>
        BY <4>1, <4>2
      <4> QED
        BY <2>16, <4>1, <4>2, <4>3
    <3> QED
      BY <3>1, <3>2 DEF StoredInv
  <2>19. AnswerWasDecided'
    <3>1. ASSUME reply # REPLY_UNDEF
          PROVE  /\ response'.from[1] = c /\ response'.from[2] = Len(decisions[c])
                 /\ response'.body = reply /\ response'.dev = d
      BY <2>2, <2>7, <3>1
    <3>2. SetUpFor(c, d)
      BY <2>3 DEF SubscriptionInv, NoDevice, SetUpFor
    <3>3. response'.body \in {REPLY_ALLOW, REPLY_DENY} => reply # REPLY_UNDEF
      BY <2>2 DEF REPLY_ALLOW, REPLY_DENY, REPLY_UNDEF
    <3> QED
      BY <1>1, <2>3, <2>7, <3>1, <3>2, <3>3 DEF AnswerWasDecided, SetUpFor
  <2> QED
    BY <2>12, <2>13, <2>14, <2>15, <2>17, <2>18, <2>19
<1> QED
  BY <1>2, <1>3

\* What a fetch returns: an answer with a word of the user is a decision that was
\* not handed out before and is counted now.
LEMMA GetAnswerUses ==
  ASSUME ServerInv, NEW d \in Devices, OnGetReqTreat(d)
  PROVE  /\ response'.dev = d
         /\ \/ response'.from = NoDecision /\ timesUsed' = timesUsed
            \/ /\ response'.from \in Decision /\ response'.from # NoDecision
               /\ response'.body \in {REPLY_ALLOW, REPLY_DENY}
               /\ timesUsed[response'.from] = 0
               /\ timesUsed' = [timesUsed EXCEPT ![response'.from] = 1]
<1>1. CASE Matching(d) = {}
  BY <1>1 DEF OnGetReqTreat, Respond
<1>2. CASE Matching(d) # {}
  <2> DEFINE c == First(Matching(d))
             reply == m_registry[c].reply
             use == IF reply = REPLY_UNDEF THEN NoDecision ELSE <<c, Len(decisions[c])>>
  <2>1. c \in Matching(d)
    BY <1>2, FirstIsMember DEF Matching, TypeOK, ServerInv
  <2>2. /\ response' = [route |-> "get", dev |-> d, body |-> reply, from |-> use, targets |-> {}]
        /\ timesUsed' = IF use = NoDecision THEN timesUsed ELSE [timesUsed EXCEPT ![use] = @ + 1]
    BY <1>2 DEF OnGetReqTreat, Respond
  <2> HIDE DEF c
  <2>3. c \in DOMAIN m_registry /\ m_registry[c] \in Entry
    BY <2>1 DEF Matching, TypeOK, ServerInv
  <2>4. reply # REPLY_UNDEF => reply \in {REPLY_ALLOW, REPLY_DENY}
    BY <2>3 DEF Entry, Replies
  <2>5. ASSUME reply # REPLY_UNDEF
        PROVE  use \in Decision /\ use # NoDecision /\ timesUsed[use] = 0
    BY <2>3, <2>5, StoredAnswer
  <2>6. reply = REPLY_UNDEF => use = NoDecision
    OBVIOUS
  <2> HIDE DEF use, reply
  <2>7. response'.dev = d /\ response'.from = use /\ response'.body = reply
    BY <2>2
  <2>8. CASE reply = REPLY_UNDEF
    BY <2>2, <2>6, <2>7, <2>8
  <2>9. CASE reply # REPLY_UNDEF
    <3>1. timesUsed' = [timesUsed EXCEPT ![use] = 0 + 1]
      BY <2>2, <2>5, <2>9
    <3> QED
      BY <2>4, <2>5, <2>7, <2>9, <3>1
  <2> QED
    BY <2>8, <2>9
<1> QED
  BY <1>1, <1>2

\* The other HTTP handlers only answer.
LEMMA OtherHttpInv ==
  ASSUME ServerInv, UNCHANGED <<m_registry, link, wire, appOf, decisions, timesUsed>>,
         response'.from = NoDecision,
         response'.body \notin {REPLY_ALLOW, REPLY_DENY}
  PROVE  ServerInv'
<1> USE BoundsAssumption DEF ServerInv
<1>1. TypeOK' /\ OpenMeansRegistered'
  BY DEF TypeOK, OpenMeansRegistered
<1>2. SubscriptionInv' /\ BudgetInv' /\ StoredInv' /\ DecisionUsedOnce'
  BY DEF SubscriptionInv, SetUpFor, Subscribed, BudgetInv, StoredInv, DecisionUsedOnce
<1>3. AnswerWasDecided'
  BY DEF AnswerWasDecided, SetUpFor
<1> QED
  BY <1>1, <1>2, <1>3

LEMMA ServerStep == ServerInv /\ [Next]_vars => ServerInv'
<1> SUFFICES ASSUME ServerInv, [Next]_vars
             PROVE  ServerInv'
  OBVIOUS
<1>1. CASE Http
  <2>1. ASSUME NEW d \in Devices, OnGetCheckId(d)
        PROVE  ServerInv'
    BY <2>1, OtherHttpInv DEF OnGetCheckId, Respond, REPLY_ALLOW, REPLY_DENY
  <2>2. ASSUME NEW d \in Devices, OnPostReqTreat(d)
        PROVE  ServerInv'
    BY <2>2, OtherHttpInv DEF OnPostReqTreat, Respond, REPLY_ALLOW, REPLY_DENY
  <2>3. ASSUME NEW route \in {"check", "get", "post"}, OnBadRequest(route)
        PROVE  ServerInv'
    BY <2>3, OtherHttpInv DEF OnBadRequest, Respond, REPLY_ALLOW, REPLY_DENY
  <2> QED
    BY <1>1, <2>1, <2>2, <2>3, GetAnswerInv DEF Http
<1>2. CASE \E c \in Conns : App(c) \/ Websocket(c)
  BY <1>2, ConnectInv, AppAnswersInv, ClientLostInv, MessageInv, CloseFrameInv
     DEF App, Websocket
<1>3. CASE UNCHANGED vars
  <2>1. TypeOK' /\ OpenMeansRegistered'
    BY <1>3 DEF vars, ServerInv, TypeOK, OpenMeansRegistered
  <2>2. SubscriptionInv' /\ BudgetInv' /\ StoredInv'
    BY <1>3 DEF vars, ServerInv, SubscriptionInv, Subscribed, BudgetInv, StoredInv, SetUpFor
  <2>3. DecisionUsedOnce' /\ AnswerWasDecided'
    BY <1>3 DEF vars, ServerInv, DecisionUsedOnce, AnswerWasDecided, SetUpFor
  <2> QED
    BY <2>1, <2>2, <2>3 DEF ServerInv
<1> QED
  BY <1>1, <1>2, <1>3 DEF Next

\* What was decided stands, and so does the number of the app that decided.
LEMMA DecisionsStand ==
  ASSUME ServerInv, [Next]_vars, NEW c \in Conns, NEW k \in 1..Len(decisions[c])
  PROVE  /\ appOf'[c] = appOf[c]
         /\ k \in 1..Len(decisions'[c])
         /\ decisions'[c][k] = decisions[c][k]
<1> USE DEF ServerInv
<1>1. ASSUME NEW e \in Conns, NEW id \in Ids, OnWebsocketConnect(e, id)
      PROVE  appOf'[c] = appOf[c] /\ decisions' = decisions
  <2>1. decisions[e] = <<>>
    BY <1>1 DEF OnWebsocketConnect, BudgetInv
  <2>2. Len(decisions[c]) # 0
    OBVIOUS
  <2>3. c # e
    BY <2>1, <2>2
  <2> QED
    BY <1>1, <2>3 DEF OnWebsocketConnect, TypeOK
<1>2. ASSUME NEW e \in Conns, HandleWsMessage(e)
      PROVE  /\ appOf' = appOf
             /\ k \in 1..Len(decisions'[c])
             /\ decisions'[c][k] = decisions[c][k]
  <2>1. appOf' = appOf
    BY <1>2 DEF HandleWsMessage
  <2>2. \/ decisions' = decisions
        \/ \E r \in Replies : decisions' = [decisions EXCEPT ![e] = Append(@, r)]
    BY <1>2, Zenon DEF HandleWsMessage, Replies
  <2>3. ASSUME NEW r \in Replies, decisions' = [decisions EXCEPT ![e] = Append(@, r)]
        PROVE  k \in 1..Len(decisions'[c]) /\ decisions'[c][k] = decisions[c][k]
    <3>1. decisions[c] \in Seq(Replies)
      BY DEF TypeOK
    <3>2. decisions'[c] = IF c = e THEN Append(decisions[c], r) ELSE decisions[c]
      BY <2>3 DEF TypeOK
    <3> QED
      BY <3>1, <3>2
  <2> QED
    BY <2>1, <2>2, <2>3
<1>3. ASSUME NEW e \in Conns, App(e) \/ OnCloseFrame(e)
      PROVE  appOf'[c] = appOf[c] /\ decisions' = decisions
  BY <1>1, <1>3 DEF App, OnCloseFrame, AppAnswers, ClientLost
<1>4. ASSUME Http \/ UNCHANGED vars
      PROVE  appOf' = appOf /\ decisions' = decisions
  BY <1>4 DEF Http, vars, OnGetCheckId, OnGetReqTreat, OnPostReqTreat, OnBadRequest
<1> QED
  BY <1>2, <1>3, <1>4 DEF Next, Websocket

-----------------------------------------------------------------------------
\* The invariant the results below are read off.
THEOREM ServerInvariance == Spec => []ServerInv
<1> QED
  BY InitServer, ServerStep, PTL DEF Spec

\* Every handler leaves the registry, the connections and the messages in flight
\* well typed.
THEOREM ServerTypeCorrect == Spec => []TypeOK
<1>1. ServerInv => TypeOK
  BY DEF ServerInv
<1> QED
  BY <1>1, ServerInvariance, PTL

\* handleWsMessage never dereferences a registry entry that is not there: a
\* websocket has an entry from its upgrade to its close frame.
THEOREM RegistryFollowsConnections == Spec => []OpenMeansRegistered
<1>1. ServerInv => OpenMeansRegistered
  BY DEF ServerInv
<1> QED
  BY <1>1, ServerInvariance, PTL

\* onGetReqTreat hands an answer of a user to the feeder at most once.
THEOREM OneFetchPerDecision == Spec => []DecisionUsedOnce
<1>1. ServerInv => DecisionUsedOnce
  BY DEF ServerInv
<1> QED
  BY <1>1, ServerInvariance, PTL

\* What onGetReqTreat returns is a decision of a user whose app was set up with a
\* number that handleWsMessage reads as the device that asked.
THEOREM AnswersAreDecisions == Spec => []AnswerWasDecided
<1>1. ServerInv => AnswerWasDecided
  BY DEF ServerInv
<1> QED
  BY <1>1, ServerInvariance, PTL

\* onPostReqTreat sends the request to every subscribed app whose number is read
\* as the device and to no other app.
THEOREM PostGoesToItsApps == Spec => PostReachesItsApps
<1> DEFINE A == response' # response /\ response'.route = "post" /\ response'.dev \in Devices =>
                  LET mine == {c \in Conns : SetUpFor(c, response'.dev)}
                  IN  /\ {c \in mine : Subscribed(c)} \subseteq response'.targets
                      /\ response'.targets \subseteq {c \in mine : link[c] \in {"up", "lost"}}
<1>1. ServerInv /\ [Next]_vars => [A]_vars
  <2> SUFFICES ASSUME ServerInv, Next, response' # response, response'.route = "post",
                      response'.dev \in Devices
               PROVE  LET mine == {c \in Conns : SetUpFor(c, response'.dev)}
                      IN  /\ {c \in mine : Subscribed(c)} \subseteq response'.targets
                          /\ response'.targets \subseteq {c \in mine : link[c] \in {"up", "lost"}}
    OBVIOUS
  <2>1. ~ \E c \in Conns : App(c) \/ Websocket(c)
    BY DEF App, Websocket, OnWebsocketConnect, AppAnswers, ClientLost, HandleWsMessage,
           OnCloseFrame
  <2>2. \E d \in Devices : OnPostReqTreat(d)
    <3>1. \A route : ~ OnBadRequest(route)
      BY UnparsableIsNoDevice DEF OnBadRequest, Respond
    <3>2. \A d \in Devices : OnGetCheckId(d) => response'.route = "check"
      BY DEF OnGetCheckId, Respond
    <3>3. \A d \in Devices : OnGetReqTreat(d) => response'.route = "get"
      <4> SUFFICES ASSUME NEW d \in Devices, OnGetReqTreat(d)
                   PROVE  response'.route = "get"
        OBVIOUS
      <4>1. PICK body, from : Respond("get", d, body, from, {})
        BY DEF OnGetReqTreat
      <4> QED
        BY <4>1 DEF Respond
    <3> QED
      BY <2>1, <3>1, <3>2, <3>3 DEF Next, Http
  <2>3. PICK d \in Devices : response'.dev = d /\ response'.targets = Matching(d)
    BY <2>2 DEF OnPostReqTreat, Respond
  <2>4. ASSUME NEW c \in Conns, SetUpFor(c, d), Subscribed(c)
        PROVE  c \in Matching(d)
    BY <2>4 DEF Matching, ServerInv, SubscriptionInv, OpenMeansRegistered, Subscribed, SetUpFor
  <2>5. ASSUME NEW c \in Matching(d)
        PROVE  c \in Conns /\ SetUpFor(c, d) /\ link[c] \in {"up", "lost"}
    <3>1. c \in Conns /\ c \in DOMAIN m_registry /\ m_registry[c].fg_id = d
      BY DEF Matching, ServerInv, TypeOK
    <3>2. d # NoDevice
      BY DevicesAssumption DEF NoDevice
    <3> QED
      BY <3>1, <3>2 DEF ServerInv, SubscriptionInv, OpenMeansRegistered, SetUpFor
  <2> QED
    BY <2>3, <2>4, <2>5
<1> QED
  BY <1>1, ServerInvariance, PTL DEF Spec, PostReachesItsApps
=============================================================================
