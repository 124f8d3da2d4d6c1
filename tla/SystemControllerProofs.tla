----------------------- MODULE SystemControllerProofs -----------------------
(***************************************************************************)
(* Proofs about SystemController: meals and treat commands are conserved   *)
(* on their way from the threads through the queue to the UART, for any    *)
(* queue size, any limit of the poll loop and any number of feedings and   *)
(* settings updates.                                                       *)
(***************************************************************************)
EXTENDS SystemController, TLAPS, FiniteSetTheorems, SequenceTheorems

\* TypeOK without the Boolean variables.
Typed ==
    /\ msgQueue_ \in Seq(Msg) /\ Len(msgQueue_) <= QueueSize
    /\ mainPc \in {"start", "post", "spawn", "receive", "handle"}
    /\ msg \in Msg \cup {NoMsg} /\ (msg # NoMsg <=> mainPc = "handle")
    /\ timePc \in {"unstarted", "waiting", "sending"}
    /\ feedings \in 0..MaxFeedings
    /\ listenPc \in {"unstarted", "starting", "reading", "blind", "handling"}
    /\ events \in 0..MaxWrites /\ batch \in 0..MaxWrites /\ writes \in 0..MaxWrites
    /\ batch > 0 <=> listenPc = "handling"
    /\ webPc \in Pcs /\ (webPc = "unstarted" <=> functor = "none")
    /\ answer \in Answers \cup {UNDEF}
    /\ i \in 0..PollLimit
    /\ functor \in {"none", "live", "freed"}
    /\ sent \in [Commands -> Nat]

Flags == uartOpen \in BOOLEAN /\ crashed \in BOOLEAN

\* A thread does not run before the main thread has made it; an event that waits
\* or is being handled was a write; the web thread polls below its limit.
Started ==
    /\ mainPc = "start" => timePc = "unstarted" /\ listenPc = "unstarted"
    /\ mainPc \in {"start", "post", "spawn"} => webPc = "unstarted"
    /\ events + batch <= writes
    /\ webPc = "unstarted" => i = 0
    /\ webPc \notin {"exit", "done"} => i < PollLimit

IsTreat(m) == m.response \in {"TA", "TD"}
IsDelete(m) == m.response = "1"
TreatSent == sent["TA"] + sent["TD"] > 0

\* A request to delete the web thread stands behind a treat command, in the queue
\* or already sent, and is made at the end of a round of the poll loop.
DeletesFollowTreats ==
    /\ webPc \in {"delete", "sendDelete"} =>
          TreatSent \/ IsTreat(msg) \/ \E k \in 1..Len(msgQueue_) : IsTreat(msgQueue_[k])
    /\ \A k \in 1..Len(msgQueue_) :
          IsDelete(msgQueue_[k]) => /\ \/ TreatSent \/ IsTreat(msg)
                                       \/ \E j \in 1..(k - 1) : IsTreat(msgQueue_[j])
                                    /\ i > 0 \/ webPc = "next"
    /\ IsDelete(msg) \/ functor = "freed" => /\ TreatSent
                                             /\ i > 0 \/ webPc = "next"

Core == Typed /\ Started

ControllerInv ==
    /\ Core
    /\ Flags
    /\ FeedingsConserved
    /\ TreatsConserved
    /\ DeletesFollowTreats

-----------------------------------------------------------------------------
(* Counting messages *)

Positions(q, texts) == {k \in 1..Len(q) : q[k].response \in texts}
One(P) == IF P THEN 1 ELSE 0

LEMMA PositionsFinite ==
  ASSUME NEW q \in Seq(Msg), NEW texts
  PROVE  IsFiniteSet(Positions(q, texts)) /\ Cardinality(Positions(q, texts)) \in Nat
<1>1. IsFiniteSet(1..Len(q))
  BY FS_Interval
<1>2. Positions(q, texts) \in SUBSET (1..Len(q))
  BY DEF Positions
<1>3. IsFiniteSet(Positions(q, texts))
  BY <1>1, <1>2, FS_Subset
<1> QED
  BY <1>3, FS_CardinalityType

\* A message that is sent counts if its text does.
LEMMA CountAppend ==
  ASSUME NEW q \in Seq(Msg), NEW m \in Msg, NEW texts
  PROVE  Cardinality(Positions(Append(q, m), texts))
           = Cardinality(Positions(q, texts)) + One(m.response \in texts)
<1> DEFINE r == Append(q, m)
           n == Len(q) + 1
<1>1. /\ Len(r) = n /\ r[n] = m /\ n \in Nat
      /\ \A k \in 1..Len(q) : r[k] = q[k]
  OBVIOUS
<1>2. n \notin Positions(q, texts)
  BY DEF Positions
<1>3. CASE m.response \in texts
  <2>1. Positions(r, texts) = Positions(q, texts) \cup {n}
    <3> HIDE DEF r
    <3> QED
      BY <1>1, <1>3 DEF Positions
  <2>2. Cardinality(Positions(q, texts) \cup {n}) = Cardinality(Positions(q, texts)) + 1
    BY <1>2, PositionsFinite, FS_AddElement
  <2> QED
    BY <1>3, <2>1, <2>2 DEF One
<1>4. CASE m.response \notin texts
  <2>1. Positions(r, texts) = Positions(q, texts)
    <3> HIDE DEF r
    <3> QED
      BY <1>1, <1>4 DEF Positions
  <2> QED
    BY <1>4, <2>1, PositionsFinite DEF One
<1> QED
  BY <1>3, <1>4

\* The message that is received no longer counts, the others move up by one.
LEMMA CountTail ==
  ASSUME NEW q \in Seq(Msg), q # <<>>, NEW texts
  PROVE  Cardinality(Positions(q, texts))
           = Cardinality(Positions(Tail(q), texts)) + One(Head(q).response \in texts)
<1> DEFINE r == Tail(q)
           P == Positions(q, texts)
           R == Positions(r, texts)
           f == [k \in R |-> k + 1]
<1>1. /\ Len(q) \in Nat \ {0} /\ r \in Seq(Msg) /\ Len(r) = Len(q) - 1 /\ Head(q) = q[1]
      /\ \A k \in 1..Len(r) : r[k] = q[k + 1]
  OBVIOUS
<1>2. R \subseteq Nat /\ \A k \in 1..Len(r) : k \in R <=> k + 1 \in P
  <2> HIDE DEF r
  <2> QED
    BY <1>1 DEF Positions
<1>3. \A k \in P : k \in 1..Len(q)
  BY DEF Positions
<1>4. R \subseteq 1..Len(r)
  BY DEF Positions
<1>5. IsFiniteSet(P) /\ IsFiniteSet(R) /\ Cardinality(R) \in Nat /\ Cardinality(P) \in Nat
  BY <1>1, PositionsFinite
<1>6. 1 \in P <=> q[1].response \in texts
  BY <1>1 DEF Positions
<1> HIDE DEF r, P, R
<1>7. Cardinality(P \ {1}) = Cardinality(R)
  <2>1. f \in Bijection(R, P \ {1})
    <3>1. f \in [R -> P \ {1}]
      BY <1>1, <1>2, <1>4
    <3>2. \A a, b \in R : f[a] = f[b] => a = b
      BY <1>2
    <3>3. \A b \in P \ {1} : \E a \in R : f[a] = b
      <4> SUFFICES ASSUME NEW b \in P \ {1}
                   PROVE  \E a \in R : f[a] = b
        OBVIOUS
      <4>1. b - 1 \in 1..Len(r) /\ b - 1 + 1 = b
        BY <1>1, <1>3
      <4>2. b - 1 \in R
        BY <1>2, <4>1
      <4> QED
        BY <4>1, <4>2
    <3> QED
      BY <3>1, <3>2, <3>3 DEF Bijection, Injection, Surjection, IsInjective
  <2>2. ExistsBijection(R, P \ {1})
    BY <2>1 DEF ExistsBijection
  <2> QED
    BY <1>5, <2>2, FS_Bijection
<1>8. Cardinality(P \ {1}) = IF 1 \in P THEN Cardinality(P) - 1 ELSE Cardinality(P)
  BY <1>5, FS_RemoveElement
<1>9. Cardinality(P) = Cardinality(R) + One(q[1].response \in texts)
  BY <1>5, <1>6, <1>7, <1>8 DEF One
<1> QED
  BY <1>1, <1>9 DEF P, R, r

LEMMA PendingIs ==
  ASSUME NEW texts
  PROVE  Pending(texts) = Cardinality(Positions(msgQueue_, texts)) + One(msg.response \in texts)
BY DEF Pending, Positions, One

LEMMA PendingNat ==
  ASSUME Typed, NEW texts
  PROVE  Pending(texts) \in Nat
BY PendingIs, PositionsFinite DEF Typed, One

LEMMA PendingNatNext ==
  ASSUME Typed', NEW texts
  PROVE  Pending(texts)' \in Nat
<1>1. Pending(texts)' = Cardinality(Positions(msgQueue_', texts)) + One(msg'.response \in texts)
  BY DEF Pending, Positions, One
<1>2. msgQueue_' \in Seq(Msg)
  BY DEF Typed
<1> QED
  BY <1>1, <1>2, PositionsFinite DEF One

\* What the steps of the queue do to the count of the messages with given texts.
LEMMA SendCounts ==
  ASSUME Typed, NEW id, NEW response, NEW texts, [id |-> id, response |-> response] \in Msg,
         Send(id, response), UNCHANGED msg
  PROVE  Pending(texts)' = Pending(texts) + One(response \in texts)
<1> DEFINE m == [id |-> id, response |-> response]
<1>1. msgQueue_' = Append(msgQueue_, m) /\ m.response = response
  BY DEF Send
<1>2. Cardinality(Positions(msgQueue_', texts))
        = Cardinality(Positions(msgQueue_, texts)) + One(response \in texts)
  BY <1>1, CountAppend DEF Typed
<1>3. Pending(texts)' = Cardinality(Positions(msgQueue_', texts)) + One(msg.response \in texts)
  BY DEF Pending, Positions, One
<1>4. Cardinality(Positions(msgQueue_, texts)) \in Nat
  BY PositionsFinite DEF Typed
<1> QED
  BY <1>2, <1>3, <1>4, PendingIs DEF One

LEMMA ReceiveCounts ==
  ASSUME Typed, NEW texts, "empty" \notin texts, Receive
  PROVE  Pending(texts)' = Pending(texts)
<1>1. /\ msgQueue_ # <<>> /\ msgQueue_' = Tail(msgQueue_) /\ msg' = Head(msgQueue_)
      /\ msg.response \notin texts
  BY DEF Receive, Typed, NoMsg
<1>2. Cardinality(Positions(msgQueue_, texts))
        = Cardinality(Positions(msgQueue_', texts)) + One(msg'.response \in texts)
  BY <1>1, CountTail DEF Typed
<1>3. Pending(texts)' = Cardinality(Positions(msgQueue_', texts)) + One(msg'.response \in texts)
  BY DEF Pending, Positions, One
<1>4. Cardinality(Positions(msgQueue_, texts)) \in Nat
  BY PositionsFinite DEF Typed
<1> QED
  BY <1>1, <1>2, <1>3, <1>4, PendingIs DEF One

LEMMA HandleCounts ==
  ASSUME Typed, NEW texts, "empty" \notin texts, HandleCommand
  PROVE  Pending(texts) = Pending(texts)' + One(msg.response \in texts)
<1>1. msgQueue_' = msgQueue_ /\ msg'.response \notin texts
  BY DEF HandleCommand, NoMsg
<1>2. Pending(texts)' = Cardinality(Positions(msgQueue_, texts)) + 0
  BY <1>1 DEF Pending, Positions
<1>3. Cardinality(Positions(msgQueue_, texts)) \in Nat
  BY PositionsFinite DEF Typed
<1> QED
  BY <1>2, <1>3, PendingIs DEF One

-----------------------------------------------------------------------------
(* Types, and what the threads may do when *)

LEMMA CoreInit == Init => Core
<1> SUFFICES ASSUME Init
             PROVE  Core
  OBVIOUS
<1> USE SizesAssumption, BoundsAssumption DEF Init
<1>1. Typed
  BY DEF Typed, Pcs, NoMsg, Msg, Commands
<1>2. Started
  BY DEF Started
<1> QED
  BY <1>1, <1>2 DEF Core

\* Sending keeps the queue typed and within its size.
LEMMA SendTyped ==
  ASSUME Typed, NEW id, NEW response, [id |-> id, response |-> response] \in Msg,
         Send(id, response)
  PROVE  msgQueue_' \in Seq(Msg) /\ Len(msgQueue_') <= QueueSize
<1> DEFINE m == [id |-> id, response |-> response]
<1>1. msgQueue_' = Append(msgQueue_, m) /\ Len(msgQueue_) < QueueSize /\ msgQueue_ \in Seq(Msg)
  BY DEF Send, Typed
<1> HIDE DEF m
<1>2. Len(msgQueue_') = Len(msgQueue_) + 1 /\ Len(msgQueue_) \in Nat
  BY <1>1
<1>3. msgQueue_' \in Seq(Msg)
  BY <1>1 DEF m
<1> QED
  BY <1>1, <1>2, <1>3, SizesAssumption

\* The texts the threads send are messages.
LEMMA TextsAreMessages ==
  /\ [id |-> 1, response |-> "F100"] \in Msg
  /\ [id |-> 2, response |-> "TEST"] \in Msg
  /\ [id |-> 9, response |-> "1"] \in Msg
  /\ \A a : [id |-> 3, response |-> TreatCommand(a)] \in Msg /\ TreatCommand(a) \in {"TA", "TD"}
BY DEF Msg, TreatCommand

LEMMA TimeThreadCore ==
  ASSUME Core, FeedingTime \/ PassToCommandController
  PROVE  Core'
<1> USE SizesAssumption, BoundsAssumption DEF Core
<1>1. CASE FeedingTime
  BY <1>1 DEF FeedingTime, Typed, Started, mainVars, listenVars, webVars, uart
<1>2. CASE PassToCommandController
  <2>1. msgQueue_' \in Seq(Msg) /\ Len(msgQueue_') <= QueueSize
    BY <1>2, SendTyped, TextsAreMessages DEF PassToCommandController
  <2> QED
    BY <1>2, <2>1 DEF PassToCommandController, Typed, Started, mainVars, listenVars, webVars, uart
<1> QED
  BY <1>1, <1>2

LEMMA ListenerCore ==
  ASSUME Core, InitInot \/ WriteSettings \/ ReadEvents \/ HandleEvent
  PROVE  Core'
<1> USE SizesAssumption, BoundsAssumption DEF Core
<1>1. CASE InitInot
  BY <1>1 DEF InitInot, Typed, Started, mainVars, timeVars, webVars, uart
<1>2. CASE WriteSettings
  BY <1>2 DEF WriteSettings, Typed, Started, mainVars, timeVars, webVars, uart
<1>3. CASE ReadEvents
  BY <1>3 DEF ReadEvents, Typed, Started, mainVars, timeVars, webVars, uart
<1>4. CASE HandleEvent
  <2>1. msgQueue_' \in Seq(Msg) /\ Len(msgQueue_') <= QueueSize
    BY <1>4, SendTyped, TextsAreMessages DEF HandleEvent
  <2> QED
    BY <1>4, <2>1 DEF HandleEvent, Typed, Started, mainVars, timeVars, webVars, uart
<1> QED
  BY <1>1, <1>2, <1>3, <1>4

\* The steps of the web thread, as far as the proofs tell them apart.
LEMMA WebSteps ==
  ASSUME GetRequestAnswer \/ HandleResponse \/ SendTreat \/ AskForDelete \/ SendDelete
           \/ NextPoll \/ ThreadDone
  PROVE  /\ UNCHANGED <<mainVars, timeVars, listenVars, functor, uart>>
         /\ \/ webPc = "sendTreat" /\ webPc' = "delete" /\ Send(3, TreatCommand(answer))
               /\ UNCHANGED <<answer, i>>
            \/ webPc = "sendDelete" /\ webPc' = "next" /\ Send(9, "1") /\ UNCHANGED <<answer, i>>
            \/ /\ UNCHANGED msgQueue_
               /\ \/ webPc = "poll" /\ webPc' = "handle" /\ UNCHANGED i
                     /\ answer' \in Answers \cup {UNDEF}
                  \/ webPc = "handle" /\ webPc' = "sendTreat" /\ UNCHANGED <<answer, i>>
                  \/ webPc = "delete" /\ webPc' = "sendDelete" /\ UNCHANGED <<answer, i>>
                  \/ webPc = "exit" /\ webPc' = "done" /\ UNCHANGED <<answer, i>>
                  \/ /\ webPc = "next" /\ i' = i + 1 /\ UNCHANGED answer
                     /\ webPc' = IF i + 1 = PollLimit \/ answer # UNDEF THEN "exit" ELSE "poll"
                  \/ UNCHANGED <<webPc, answer, i>>
<1>1. CASE Crash
  BY <1>1 DEF Crash, webVars
<1>2. CASE ~ Crash
  BY <1>2 DEF GetRequestAnswer, HandleResponse, SendTreat, AskForDelete, SendDelete, NextPoll,
              ThreadDone, TouchFunctor
<1> QED
  BY <1>1, <1>2

LEMMA WebThreadCore ==
  ASSUME Core, GetRequestAnswer \/ HandleResponse \/ SendTreat \/ AskForDelete \/ SendDelete
                 \/ NextPoll \/ ThreadDone
  PROVE  Core'
<1> USE SizesAssumption, BoundsAssumption DEF Core
<1>1. msgQueue_' \in Seq(Msg) /\ Len(msgQueue_') <= QueueSize
  BY WebSteps, SendTyped, TextsAreMessages DEF Typed
<1>2. /\ webPc' \in Pcs /\ (webPc' = "unstarted" <=> functor = "none")
      /\ answer' \in Answers \cup {UNDEF}
      /\ i' \in 0..PollLimit
      /\ webPc' = "unstarted" => webPc = "unstarted" /\ i' = 0
      /\ webPc = "unstarted" => webPc' = "unstarted"
      /\ webPc' \notin {"exit", "done"} => i' < PollLimit
  BY WebSteps DEF Typed, Started, Pcs
<1>3. UNCHANGED <<mainPc, msg, timePc, feedings, listenPc, events, batch, writes, functor, sent>>
  BY WebSteps DEF mainVars, timeVars, listenVars, uart
<1>4. Typed'
  BY <1>1, <1>2, <1>3 DEF Typed
<1>5. Started'
  BY <1>2, <1>3 DEF Started
<1> QED
  BY <1>4, <1>5

LEMMA MainThreadCore ==
  ASSUME Core, StartThreads \/ PostTreatRequest \/ CreateWebCommListenerThread \/ Receive
                 \/ HandleCommand
  PROVE  Core'
<1> USE SizesAssumption, BoundsAssumption DEF Core
<1>1. CASE StartThreads
  BY <1>1 DEF StartThreads, Typed, Started, webVars, uart
<1>2. CASE PostTreatRequest
  BY <1>2 DEF PostTreatRequest, Typed, Started, timeVars, listenVars, webVars, uart
<1>3. CASE CreateWebCommListenerThread
  BY <1>3 DEF CreateWebCommListenerThread, Typed, Started, timeVars, listenVars, uart, Pcs
<1>4. CASE Receive
  <2>1. /\ msgQueue_' \in Seq(Msg) /\ Len(msgQueue_') <= QueueSize
        /\ msg' \in Msg /\ msg' # NoMsg
    <3>1. msgQueue_ \in Seq(Msg) /\ msgQueue_ # <<>> /\ msgQueue_' = Tail(msgQueue_)
          /\ msg' = Head(msgQueue_)
      BY <1>4 DEF Receive, Typed
    <3>2. Len(msgQueue_) \in Nat /\ Len(msgQueue_') = Len(msgQueue_) - 1 /\ msg' \in Msg
          /\ msgQueue_' \in Seq(Msg)
      BY <3>1
    <3>3. msg' # NoMsg
      BY <3>2 DEF Msg, NoMsg
    <3> QED
      BY <3>2, <3>3 DEF Typed
  <2> QED
    BY <1>4, <2>1 DEF Receive, Typed, Started, timeVars, listenVars, webVars, uart
<1>5. CASE HandleCommand
  <2>1. /\ mainPc = "handle" /\ mainPc' = "receive" /\ msg' = NoMsg
        /\ UNCHANGED <<msgQueue_, timeVars, listenVars, webVars>>
    BY <1>5 DEF HandleCommand
  <2>2. functor' = functor \/ (functor = "live" /\ functor' = "freed")
    BY <1>5 DEF HandleCommand, DeleteThread
  <2>3. sent' \in [Commands -> Nat]
    <3>1. msg.id \in {1, 2, 3} => msg.response \in Commands
      BY DEF Typed, Msg, NoMsg, Commands
    <3>2. \/ sent' = sent
          \/ msg.id \in {1, 2, 3} /\ sent' = [sent EXCEPT ![msg.response] = @ + 1]
      BY <1>5 DEF HandleCommand, SendCommand, uart
    <3> QED
      BY <3>1, <3>2 DEF Typed
  <2> QED
    BY <2>1, <2>2, <2>3 DEF Typed, Started, timeVars, listenVars, webVars
<1> QED
  BY <1>1, <1>2, <1>3, <1>4, <1>5

LEMMA CoreStep ==
  ASSUME Core, [Next]_vars
  PROVE  Core'
<1>1. CASE UNCHANGED vars
  BY <1>1 DEF vars, Core, Typed, Started, mainVars, timeVars, listenVars, webVars, uart
<1> QED
  BY <1>1, TimeThreadCore, ListenerCore, WebThreadCore, MainThreadCore
     DEF Next, TimeThread, ListenerThread, WebThread, MainThread, Idle

LEMMA FlagsStep ==
  ASSUME Flags, [Next]_vars
  PROVE  Flags'
<1>1. uartOpen' = uartOpen
  BY DEF Next, TimeThread, ListenerThread, WebThread, MainThread, Idle, vars, uart, FeedingTime,
         PassToCommandController, InitInot, WriteSettings, ReadEvents, HandleEvent,
         GetRequestAnswer, HandleResponse, SendTreat, AskForDelete, SendDelete, NextPoll,
         ThreadDone, TouchFunctor, Crash, StartThreads, PostTreatRequest,
         CreateWebCommListenerThread, Receive, HandleCommand, SendCommand
<1>2. crashed' = crashed \/ crashed' \in BOOLEAN
  BY DEF Next, TimeThread, ListenerThread, WebThread, MainThread, Idle, vars, FeedingTime,
         PassToCommandController, InitInot, WriteSettings, ReadEvents, HandleEvent,
         GetRequestAnswer, HandleResponse, SendTreat, AskForDelete, SendDelete, NextPoll,
         ThreadDone, TouchFunctor, Crash, StartThreads, PostTreatRequest,
         CreateWebCommListenerThread, Receive, HandleCommand, DeleteThread
<1> QED
  BY <1>1, <1>2, Zenon DEF Flags

-----------------------------------------------------------------------------
(* What the steps do to the queue, the message in hand and the UART *)

\* Every step sends one message, receives one, handles one, or leaves the queue,
\* the message in hand and the UART's counts alone.
LEMMA StepKinds ==
  ASSUME [Next]_vars
  PROVE  \/ PassToCommandController \/ HandleEvent \/ SendTreat \/ SendDelete
         \/ Receive \/ HandleCommand
         \/ UNCHANGED <<msgQueue_, msg, sent>>
<1> USE DEF mainVars, uart
<1>1. CASE TimeThread
  BY <1>1 DEF TimeThread, FeedingTime
<1>2. CASE ListenerThread \/ WriteSettings
  BY <1>2 DEF ListenerThread, InitInot, ReadEvents, WriteSettings
<1>3. CASE WebThread
  BY <1>3 DEF WebThread, GetRequestAnswer, HandleResponse, AskForDelete, NextPoll, ThreadDone,
              TouchFunctor, Crash
<1>4. CASE MainThread
  BY <1>4 DEF MainThread, StartThreads, PostTreatRequest, CreateWebCommListenerThread
<1>5. CASE UNCHANGED vars
  BY <1>5 DEF vars
<1> QED
  BY <1>1, <1>2, <1>3, <1>4, <1>5 DEF Next, Idle

\* handleCommand gives the UART exactly the command in hand.
LEMMA HandleSends ==
  ASSUME Core, HandleCommand, NEW command \in Commands
  PROVE  sent'[command] = sent[command] + One(msg.response \in {command})
<1> USE DEF Core
<1>1. /\ msg.id \in {1, 2, 3} => msg.response \in Commands
      /\ msg.id = 9 => msg.response \notin Commands
  BY DEF Typed, Msg, NoMsg, Commands
<1>2. \/ msg.id = 9 /\ sent' = sent
      \/ msg.id \in {1, 2, 3} /\ sent' = [sent EXCEPT ![msg.response] = @ + 1]
  BY DEF HandleCommand, SendCommand, uart
<1> QED
  BY <1>1, <1>2 DEF Typed, One

\* The clock counts a feeding when it starts to send; nothing else does.
LEMMA ClockSteps ==
  ASSUME Core, [Next]_vars
  PROVE  \/ FeedingTime
         \/ PassToCommandController
         \/ /\ feedings' = feedings
            /\ timePc' = "sending" <=> timePc = "sending"
<1> USE DEF timeVars
<1>1. CASE TimeThread
  BY <1>1 DEF TimeThread
<1>2. CASE ListenerThread \/ WriteSettings
  BY <1>2 DEF ListenerThread, InitInot, ReadEvents, WriteSettings, HandleEvent
<1>3. CASE WebThread
  BY <1>3, WebSteps DEF WebThread
<1>4. CASE MainThread
  BY <1>4 DEF MainThread, StartThreads, PostTreatRequest, CreateWebCommListenerThread, Receive,
              HandleCommand, Core, Started
<1>5. CASE UNCHANGED vars
  BY <1>5 DEF vars
<1> QED
  BY <1>1, <1>2, <1>3, <1>4, <1>5 DEF Next, Idle

LEMMA FeedingsStep ==
  ASSUME Core, FeedingsConserved, [Next]_vars
  PROVE  FeedingsConserved'
<1> DEFINE T == {"F100"}
           p == Pending(T)
           s == sent["F100"]
<1>1. /\ feedings = s + p + One(timePc = "sending")
      /\ FeedingsConserved' <=> feedings' = s' + p' + One(timePc' = "sending")
  BY DEF FeedingsConserved, One
<1>2. s \in Nat /\ p \in Nat /\ feedings \in Nat /\ "F100" \in Commands /\ "empty" \notin T
  BY PendingNat DEF Core, Typed, Commands
<1>3. CASE FeedingTime
  <2>1. /\ timePc # "sending" /\ timePc' = "sending" /\ feedings' = feedings + 1
        /\ UNCHANGED <<msgQueue_, msg, sent>>
    BY <1>3 DEF FeedingTime, mainVars, uart
  <2>2. s' = s /\ p' = p
    BY <2>1 DEF Pending
  <2> QED
    BY <1>1, <1>2, <2>1, <2>2 DEF One
<1>4. CASE PassToCommandController
  <2>1. /\ timePc = "sending" /\ timePc' # "sending" /\ feedings' = feedings
        /\ s' = s /\ msg' = msg /\ Send(1, "F100")
    BY <1>4 DEF PassToCommandController, mainVars, uart
  <2>2. p' = p + One("F100" \in T)
    BY <2>1, SendCounts, TextsAreMessages DEF Core
  <2> QED
    BY <1>1, <1>2, <2>1, <2>2 DEF One
<1>5. ASSUME s' + p' = s + p, s' \in Nat, p' \in Nat, ~ FeedingTime, ~ PassToCommandController
      PROVE  FeedingsConserved'
  <2>1. feedings' = feedings /\ One(timePc' = "sending") = One(timePc = "sending")
    BY <1>5, ClockSteps DEF One
  <2> QED
    BY <1>1, <1>2, <1>5, <2>1 DEF One
<1>6. ASSUME ~ FeedingTime, ~ PassToCommandController
      PROVE  s' + p' = s + p /\ s' \in Nat /\ p' \in Nat
  <2>1. CASE UNCHANGED <<msgQueue_, msg, sent>>
    BY <1>2, <2>1 DEF Pending
  <2>2. ASSUME NEW id, NEW response, [id |-> id, response |-> response] \in Msg,
               Send(id, response), UNCHANGED <<msg, sent>>, response # "F100"
        PROVE  s' = s /\ p' = p
    <3>1. p' = p + One(response \in T)
      BY <2>2, SendCounts DEF Core
    <3> QED
      BY <1>2, <2>2, <3>1 DEF One
  <2>3. CASE HandleEvent
    BY <1>2, <2>2, <2>3, TextsAreMessages DEF HandleEvent, mainVars, uart
  <2>4. CASE SendTreat
    <3>1. TreatCommand(answer) # "F100"
      BY DEF TreatCommand
    <3> QED
      BY <1>2, <2>2, <2>4, <3>1, TextsAreMessages DEF SendTreat, mainVars, uart
  <2>5. CASE SendDelete
    BY <1>2, <2>2, <2>5, TextsAreMessages DEF SendDelete, mainVars, uart
  <2>6. CASE Receive
    <3>1. p' = p
      BY <1>2, <2>6, ReceiveCounts DEF Core
    <3> QED
      BY <1>2, <2>6, <3>1 DEF Receive, uart
  <2>7. CASE HandleCommand
    <3>1. p = p' + One(msg.response \in T) /\ s' = s + One(msg.response \in T)
      BY <1>2, <2>7, HandleCounts, HandleSends DEF Core
    <3>2. p' \in Nat
      BY CoreStep, PendingNatNext DEF Core
    <3> HIDE DEF p, s
    <3> QED
      BY <1>2, <3>1, <3>2 DEF One
  <2> QED
    BY <1>6, <2>1, <2>3, <2>4, <2>5, <2>6, <2>7, StepKinds
<1> QED
  BY <1>3, <1>4, <1>5, <1>6

\* Where the web thread is in its round, and how many rounds it has done.
LEMMA RoundSteps ==
  ASSUME Core, [Next]_vars
  PROVE  \/ SendTreat
         \/ i' + One(webPc' \in {"delete", "sendDelete", "next"})
              = i + One(webPc \in {"delete", "sendDelete", "next"})
<1> USE DEF webVars, One, Core, Typed
<1>1. CASE WebThread
  <2>1. CASE SendTreat
    BY <2>1
  <2>2. CASE ~ SendTreat
    <3>1. CASE webPc = "sendTreat"
      <4>1. UNCHANGED <<webPc, i>>
        BY <1>1, <2>2, <3>1 DEF WebThread, GetRequestAnswer, HandleResponse, AskForDelete,
                 SendDelete, NextPoll, ThreadDone, TouchFunctor, Crash
      <4> QED
        BY <4>1
    <3>2. CASE webPc # "sendTreat"
      BY <1>1, <3>2, WebSteps DEF WebThread
    <3> QED
      BY <3>1, <3>2
  <2> QED
    BY <2>1, <2>2
<1>2. CASE UNCHANGED webVars
  BY <1>2
<1>3. CASE CreateWebCommListenerThread
  BY <1>3 DEF CreateWebCommListenerThread, Started
<1> QED
  BY <1>1, <1>2, <1>3
     DEF Next, TimeThread, ListenerThread, MainThread, Idle, vars, FeedingTime,
         PassToCommandController, InitInot, WriteSettings, ReadEvents, HandleEvent, StartThreads,
         PostTreatRequest, Receive, HandleCommand

LEMMA TreatsStep ==
  ASSUME Core, TreatsConserved, [Next]_vars
  PROVE  TreatsConserved'
<1> DEFINE T == {"TA", "TD"}
           p == Pending(T)
           a == sent["TA"]
           d == sent["TD"]
           round == One(webPc \in {"delete", "sendDelete", "next"})
<1>1. /\ a + d + p = i + round
      /\ a' + d' + p' = i' + round' /\ a' + d' + p' <= PollLimit => TreatsConserved'
  BY DEF TreatsConserved, One
<1>2. /\ a \in Nat /\ d \in Nat /\ p \in Nat /\ i \in Nat
      /\ "TA" \in Commands /\ "TD" \in Commands /\ "empty" \notin T
  BY PendingNat DEF Core, Typed, Commands
<1>3. Core'
  BY CoreStep
<1>4. i' + round' <= PollLimit /\ i' \in Nat
  <2>1. i' \in 0..PollLimit /\ (webPc' \notin {"exit", "done"} => i' < PollLimit)
    BY <1>3 DEF Core, Typed, Started
  <2>2. round' \in {0, 1} /\ (round' = 1 => webPc' \notin {"exit", "done"})
    BY DEF One
  <2>3. \A n \in 0..PollLimit : /\ n + 0 <= PollLimit /\ n \in Nat
                                /\ n < PollLimit => n + 1 <= PollLimit
    BY SizesAssumption
  <2> HIDE DEF round
  <2> QED
    BY <2>1, <2>2, <2>3
<1>5. CASE SendTreat
  <2>1. /\ webPc = "sendTreat" /\ webPc' = "delete" /\ i' = i /\ a' = a /\ d' = d /\ msg' = msg
        /\ Send(3, TreatCommand(answer))
    BY <1>5 DEF SendTreat, mainVars, uart
  <2>2. p' = p + One(TreatCommand(answer) \in T)
    <3>1. [id |-> 3, response |-> TreatCommand(answer)] \in Msg
      BY TextsAreMessages
    <3> QED
      BY <2>1, <3>1, SendCounts DEF Core
  <2>3. p' = p + 1 /\ round = 0 /\ round' = 1
    BY <2>1, <2>2, TextsAreMessages DEF One
  <2> HIDE DEF p, a, d, round
  <2>4. a' + d' + p' = i' + round'
    BY <1>1, <1>2, <2>1, <2>3
  <2> QED
    BY <1>1, <1>4, <2>4
<1>6. CASE ~ SendTreat
  <2>1. a' + d' + p' = a + d + p
    <3>1. CASE UNCHANGED <<msgQueue_, msg, sent>>
      BY <1>2, <3>1 DEF Pending
    <3>2. ASSUME NEW id, NEW response, [id |-> id, response |-> response] \in Msg,
                 Send(id, response), UNCHANGED <<msg, sent>>, response \notin T
          PROVE  a' = a /\ d' = d /\ p' = p
      <4>1. p' = p + One(response \in T)
        BY <3>2, SendCounts DEF Core
      <4> QED
        BY <1>2, <3>2, <4>1 DEF One
    <3>3. CASE HandleEvent
      BY <1>2, <3>2, <3>3, TextsAreMessages DEF HandleEvent, mainVars, uart
    <3>4. CASE PassToCommandController
      BY <1>2, <3>2, <3>4, TextsAreMessages DEF PassToCommandController, mainVars, uart
    <3>5. CASE SendDelete
      BY <1>2, <3>2, <3>5, TextsAreMessages DEF SendDelete, mainVars, uart
    <3>6. CASE Receive
      <4>1. p' = p
        BY <1>2, <3>6, ReceiveCounts DEF Core
      <4> QED
        BY <1>2, <3>6, <4>1 DEF Receive, uart
    <3>7. CASE HandleCommand
      <4>1. /\ p = p' + One(msg.response \in T)
            /\ a' = a + One(msg.response \in {"TA"})
            /\ d' = d + One(msg.response \in {"TD"})
        BY <1>2, <3>7, HandleCounts, HandleSends DEF Core
      <4>2. p' \in Nat
        BY <1>3, PendingNatNext DEF Core
      <4>3. One(msg.response \in T)
              = One(msg.response \in {"TA"}) + One(msg.response \in {"TD"})
        BY DEF One
      <4>4. One(msg.response \in {"TA"}) \in Nat /\ One(msg.response \in {"TD"}) \in Nat
        BY DEF One
      <4> HIDE DEF p, a, d, T
      <4> QED
        BY <1>2, <4>1, <4>2, <4>3, <4>4
    <3> QED
      BY <1>6, <3>1, <3>3, <3>4, <3>5, <3>6, <3>7, StepKinds
  <2>2. i' + round' = i + round
    BY <1>6, RoundSteps
  <2> QED
    BY <1>1, <1>4, <2>1, <2>2
<1> QED
  BY <1>5, <1>6

-----------------------------------------------------------------------------
(* The deletion of the web thread *)

Progress == i > 0 \/ webPc = "next"

\* The functor is freed by handleCommand only; the web thread asks for its
\* deletion after it has sent a treat command; a round that ended stays ended.
LEMMA WebOrder ==
  ASSUME Core, [Next]_vars
  PROVE  /\ functor' = "freed" => functor = "freed" \/ HandleCommand
         /\ webPc' \in {"delete", "sendDelete"} => webPc \in {"delete", "sendDelete"} \/ SendTreat
         /\ Progress => Progress'
<1> USE DEF webVars, Core, Typed, Progress
<1>1. CASE WebThread
  <2>1. functor' = functor
    BY <1>1, WebSteps DEF WebThread
  <2>2. Progress => Progress'
    BY <1>1, WebSteps DEF WebThread
  <2>3. CASE webPc # "sendTreat"
    BY <1>1, <2>1, <2>2, <2>3, WebSteps DEF WebThread
  <2>4. CASE webPc = "sendTreat" /\ ~ SendTreat
    <3>1. webPc' = webPc
      BY <1>1, <2>4 DEF WebThread, GetRequestAnswer, HandleResponse, AskForDelete, SendDelete,
                        NextPoll, ThreadDone, TouchFunctor, Crash
    <3> QED
      BY <2>1, <2>2, <2>4, <3>1
  <2> QED
    BY <2>1, <2>2, <2>3, <2>4
<1>2. CASE UNCHANGED <<webVars, functor>>
  BY <1>2
<1>3. CASE CreateWebCommListenerThread
  BY <1>3 DEF CreateWebCommListenerThread, Started
<1>4. CASE HandleCommand
  BY <1>4 DEF HandleCommand
<1> QED
  BY <1>1, <1>2, <1>3, <1>4
     DEF Next, TimeThread, ListenerThread, MainThread, Idle, vars, FeedingTime,
         PassToCommandController, InitInot, WriteSettings, ReadEvents, HandleEvent, StartThreads,
         PostTreatRequest, Receive

\* Commands on the UART are never taken back.
LEMMA TreatSentStays ==
  ASSUME Core, [Next]_vars, TreatSent
  PROVE  TreatSent'
<1> USE DEF TreatSent
<1>1. sent["TA"] \in Nat /\ sent["TD"] \in Nat /\ "TA" \in Commands /\ "TD" \in Commands
  BY DEF Core, Typed, Commands
<1>2. CASE HandleCommand
  <2>1. /\ sent'["TA"] = sent["TA"] + One(msg.response \in {"TA"})
        /\ sent'["TD"] = sent["TD"] + One(msg.response \in {"TD"})
    BY <1>1, <1>2, HandleSends
  <2>2. One(msg.response \in {"TA"}) \in Nat /\ One(msg.response \in {"TD"}) \in Nat
    BY DEF One
  <2> QED
    BY <1>1, <2>1, <2>2
<1>3. CASE ~ HandleCommand
  <2>1. sent' = sent
    BY <1>3, StepKinds DEF PassToCommandController, HandleEvent, SendTreat, SendDelete, Receive,
                           uart
  <2> QED
    BY <2>1
<1> QED
  BY <1>2, <1>3

LEMMA DeletesStep ==
  ASSUME Core, DeletesFollowTreats, [Next]_vars
  PROVE  DeletesFollowTreats'
<1> DEFINE q == msgQueue_
           Ahead(k) == TreatSent \/ IsTreat(msg) \/ \E j \in 1..k : IsTreat(q[j])
           Asking == webPc \in {"delete", "sendDelete"}
<1>1. /\ Asking => Ahead(Len(q))
      /\ \A k \in 1..Len(q) : IsDelete(q[k]) => Ahead(k - 1) /\ Progress
      /\ IsDelete(msg) \/ functor = "freed" => TreatSent /\ Progress
  BY DEF DeletesFollowTreats, Progress
<1>2. /\ q \in Seq(Msg) /\ Len(q) \in Nat
      /\ msg # NoMsg <=> mainPc = "handle"
      /\ ~ IsTreat(NoMsg) /\ ~ IsDelete(NoMsg)
  BY DEF Core, Typed, NoMsg, IsTreat, IsDelete
<1>3. TreatSent => TreatSent'
  BY TreatSentStays
<1>4. /\ functor' = "freed" => functor = "freed" \/ HandleCommand
      /\ Asking' => Asking \/ SendTreat
      /\ Progress => Progress'
  BY WebOrder
<1>5. SUFFICES /\ Asking' => Ahead(Len(q))'
               /\ \A k \in 1..Len(q') : IsDelete(q'[k]) => Ahead(k - 1)' /\ Progress'
               /\ IsDelete(msg') \/ functor' = "freed" => TreatSent' /\ Progress'
  BY DEF DeletesFollowTreats, Progress
<1>6. CASE UNCHANGED <<msgQueue_, msg, sent>>
  <2>1. ~ HandleCommand /\ ~ SendTreat
    <3>1. CASE HandleCommand
      BY <1>2, <1>6, <3>1 DEF HandleCommand
    <3>2. CASE SendTreat
      <4> DEFINE m == [id |-> 3, response |-> TreatCommand(answer)]
      <4>1. Append(q, m) = q
        BY <1>6, <3>2 DEF SendTreat, Send
      <4> HIDE DEF m
      <4>2. Len(Append(q, m)) = Len(q) + 1
        BY <1>2
      <4> QED
        BY <1>2, <4>1, <4>2
    <3> QED
      BY <3>1, <3>2
  <2>2. TreatSent' = TreatSent
    BY <1>6 DEF TreatSent
  <2> QED
    BY <1>1, <1>4, <1>6, <2>1, <2>2
<1>7. ASSUME NEW m \in Msg, msgQueue_' = Append(msgQueue_, m), UNCHANGED <<msg, sent>>,
             IsDelete(m) => webPc = "sendDelete" /\ webPc' = "next",
             SendTreat => IsTreat(m), ~ HandleCommand
      PROVE  /\ Asking' => Ahead(Len(q))'
             /\ \A k \in 1..Len(q') : IsDelete(q'[k]) => Ahead(k - 1)' /\ Progress'
             /\ IsDelete(msg') \/ functor' = "freed" => TreatSent' /\ Progress'
  <2>1. /\ Len(q') = Len(q) + 1 /\ q'[Len(q) + 1] = m
        /\ \A k \in 1..Len(q) : q'[k] = q[k]
    BY <1>2, <1>7
  <2>2. TreatSent' = TreatSent /\ msg' = msg
    BY <1>7 DEF TreatSent
  <2>3. ASSUME NEW k \in 0..Len(q), Ahead(k)
        PROVE  Ahead(k)' /\ (k = Len(q) => Ahead(k + 1)')
    BY <1>2, <2>1, <2>2, <2>3
  <2>4. Asking' => Ahead(Len(q))'
    <3>1. CASE SendTreat
      BY <1>2, <1>7, <2>1, <3>1
    <3>2. CASE Asking
      BY <1>1, <1>2, <2>1, <2>3, <3>2
    <3> QED
      BY <1>4, <3>1, <3>2
  <2>5. ASSUME NEW k \in 1..Len(q'), IsDelete(q'[k])
        PROVE  Ahead(k - 1)' /\ Progress'
    <3>1. CASE k = Len(q) + 1
      <4>1. webPc = "sendDelete" /\ webPc' = "next"
        BY <1>7, <2>1, <2>5, <3>1
      <4>2. Ahead(Len(q)) /\ Progress' /\ k - 1 = Len(q)
        BY <1>1, <1>2, <3>1, <4>1 DEF Progress
      <4> QED
        BY <1>2, <2>3, <4>2
    <3>2. CASE k \in 1..Len(q)
      <4>1. IsDelete(q[k]) /\ k - 1 \in 0..Len(q)
        BY <1>2, <2>1, <2>5, <3>2
      <4> QED
        BY <1>1, <1>4, <2>3, <3>2, <4>1
    <3> QED
      BY <1>2, <2>1, <3>1, <3>2
  <2>6. IsDelete(msg') \/ functor' = "freed" => TreatSent' /\ Progress'
    BY <1>1, <1>4, <1>7, <2>2
  <2> QED
    BY <2>4, <2>5, <2>6
<1>8. ASSUME NEW id, NEW response, [id |-> id, response |-> response] \in Msg,
             Send(id, response), UNCHANGED <<mainVars, uart>>,
             response = "1" => webPc = "sendDelete" /\ webPc' = "next",
             SendTreat => response \in {"TA", "TD"}
      PROVE  /\ Asking' => Ahead(Len(q))'
             /\ \A k \in 1..Len(q') : IsDelete(q'[k]) => Ahead(k - 1)' /\ Progress'
             /\ IsDelete(msg') \/ functor' = "freed" => TreatSent' /\ Progress'
  <2> DEFINE m == [id |-> id, response |-> response]
  <2>1. m \in Msg /\ msgQueue_' = Append(msgQueue_, m) /\ UNCHANGED <<msg, sent>>
    BY <1>8 DEF Send, mainVars, uart
  <2>2. IsDelete(m) => webPc = "sendDelete" /\ webPc' = "next"
    BY <1>8 DEF IsDelete
  <2>3. SendTreat => IsTreat(m)
    BY <1>8 DEF IsTreat
  <2>4. ~ HandleCommand
    BY <1>8 DEF HandleCommand, mainVars
  <2> HIDE DEF m
  <2> QED
    BY <1>7, <2>1, <2>2, <2>3, <2>4
<1>9. CASE PassToCommandController
  <2>1. Send(1, "F100") /\ UNCHANGED <<mainVars, uart>> /\ ~ SendTreat
    BY <1>9 DEF PassToCommandController, SendTreat, timeVars
  <2> QED
    BY <1>8, <2>1, TextsAreMessages
<1>10. CASE HandleEvent
  <2>1. Send(2, "TEST") /\ UNCHANGED <<mainVars, uart>> /\ ~ SendTreat
    BY <1>10 DEF HandleEvent, SendTreat, listenVars, Core, Typed
  <2> QED
    BY <1>8, <2>1, TextsAreMessages
<1>11. CASE SendTreat
  <2>1. /\ Send(3, TreatCommand(answer)) /\ UNCHANGED <<mainVars, uart>>
        /\ [id |-> 3, response |-> TreatCommand(answer)] \in Msg
        /\ TreatCommand(answer) \in {"TA", "TD"}
    BY <1>11, TextsAreMessages DEF SendTreat
  <2>2. TreatCommand(answer) # "1"
    BY <2>1
  <2> QED
    BY <1>8, <2>1, <2>2
<1>12. CASE SendDelete
  <2>1. /\ Send(9, "1") /\ UNCHANGED <<mainVars, uart>> /\ ~ SendTreat
        /\ webPc = "sendDelete" /\ webPc' = "next"
    BY <1>12 DEF SendDelete, SendTreat
  <2> QED
    BY <1>8, <2>1, TextsAreMessages
<1>13. CASE Receive
  <2>1. /\ q # <<>> /\ q' = Tail(q) /\ msg' = Head(q) /\ msg = NoMsg /\ UNCHANGED <<webPc, functor>>
        /\ TreatSent' = TreatSent
    BY <1>2, <1>13 DEF Receive, webVars, uart, TreatSent
  <2>2. /\ Len(q) # 0 /\ Len(q') = Len(q) - 1 /\ msg' = q[1]
        /\ \A k \in 1..(Len(q) - 1) : q'[k] = q[k + 1]
    BY <1>2, <2>1
  <2>3. ASSUME NEW k \in 1..Len(q), Ahead(k)
        PROVE  Ahead(k - 1)'
    <3>1. CASE TreatSent
      BY <1>3, <3>1
    <3>2. ASSUME NEW j \in 1..k, IsTreat(q[j])
          PROVE  Ahead(k - 1)'
      <4>1. CASE j = 1
        BY <2>2, <3>2, <4>1
      <4>2. CASE j # 1
        <5>1. j - 1 \in 1..(k - 1) /\ j - 1 \in 1..(Len(q) - 1) /\ (j - 1) + 1 = j
          BY <1>2, <4>2
        <5>2. IsTreat(q'[j - 1])
          BY <2>2, <3>2, <5>1
        <5> QED
          BY <5>1, <5>2
      <4> QED
        BY <4>1, <4>2
    <3> QED
      BY <1>2, <2>1, <2>3, <3>1, <3>2
  <2>4. Asking' => Ahead(Len(q))'
    BY <1>1, <1>2, <2>1, <2>2, <2>3
  <2>5. ASSUME NEW k \in 1..Len(q'), IsDelete(q'[k])
        PROVE  Ahead(k - 1)' /\ Progress'
    <3>1. IsDelete(q[k + 1]) /\ k + 1 \in 1..Len(q) /\ k \in 1..Len(q) /\ (k + 1) - 1 = k
      BY <1>2, <2>2, <2>5
    <3>2. Ahead(k) /\ Progress
      BY <1>1, <3>1
    <3> QED
      BY <1>4, <2>3, <3>1, <3>2
  <2>6. IsDelete(msg') \/ functor' = "freed" => TreatSent' /\ Progress'
    <3>1. CASE functor = "freed"
      BY <1>1, <1>3, <1>4, <3>1
    <3>2. CASE IsDelete(q[1])
      <4>1. 1 \in 1..Len(q) /\ 1 - 1 = 0
        BY <1>2, <2>2
      <4>2. Ahead(0) /\ Progress
        BY <1>1, <3>2, <4>1
      <4> QED
        BY <1>2, <1>3, <1>4, <2>1, <4>2
    <3> QED
      BY <2>1, <2>2, <3>1, <3>2
  <2> QED
    BY <2>4, <2>5, <2>6
<1>14. CASE HandleCommand
  <2>1. /\ q' = q /\ msg' = NoMsg /\ UNCHANGED <<webPc, i>>
    BY <1>14 DEF HandleCommand, webVars
  <2>2. IsTreat(msg) => TreatSent'
    <3>1. sent["TA"] \in Nat /\ sent["TD"] \in Nat /\ "TA" \in Commands /\ "TD" \in Commands
      BY DEF Core, Typed, Commands
    <3>2. /\ sent'["TA"] = sent["TA"] + One(msg.response \in {"TA"})
          /\ sent'["TD"] = sent["TD"] + One(msg.response \in {"TD"})
      BY <1>14, <3>1, HandleSends
    <3> QED
      BY <3>1, <3>2 DEF One, IsTreat, TreatSent
  <2>3. functor' = "freed" => functor = "freed" \/ IsDelete(msg)
    <3>1. msg.id = 9 => IsDelete(msg)
      BY DEF Core, Typed, Msg, NoMsg, IsDelete
    <3> QED
      BY <1>14, <3>1 DEF HandleCommand
  <2>4. \A k : Ahead(k) => Ahead(k)'
    BY <1>3, <2>1, <2>2
  <2> QED
    BY <1>1, <1>2, <1>3, <1>4, <2>1, <2>3, <2>4
<1> QED
  BY <1>6, <1>9, <1>10, <1>11, <1>12, <1>13, <1>14, StepKinds

-----------------------------------------------------------------------------
\* The invariant the results below are read off: types, the order in which the
\* threads start, the two balances, and deletion requests behind treat commands.
THEOREM ControllerInvariance == Spec => []ControllerInv
<1>1. Init => ControllerInv
  <2> SUFFICES ASSUME Init
               PROVE  ControllerInv
    OBVIOUS
  <2>1. Core
    BY CoreInit
  <2>2. Flags
    BY Zenon DEF Init, InitializeUART, Flags
  <2>3. \A texts : "empty" \notin texts => Pending(texts) = 0
    <3> SUFFICES ASSUME NEW texts, "empty" \notin texts
                 PROVE  Pending(texts) = 0
      OBVIOUS
    <3>1. Positions(msgQueue_, texts) = {} /\ msg.response \notin texts
      BY DEF Init, Positions, NoMsg
    <3> QED
      BY <3>1, PendingIs, FS_EmptySet DEF One
  <2>4. FeedingsConserved
    BY <2>3 DEF Init, FeedingsConserved, Commands
  <2>5. TreatsConserved
    BY <2>3, SizesAssumption DEF Init, TreatsConserved, Commands
  <2>6. DeletesFollowTreats
    BY DEF Init, DeletesFollowTreats, IsDelete, NoMsg
  <2> QED
    BY <2>1, <2>2, <2>4, <2>5, <2>6 DEF ControllerInv
<1>2. ControllerInv /\ [Next]_vars => ControllerInv'
  BY CoreStep, FlagsStep, FeedingsStep, TreatsStep, DeletesStep DEF ControllerInv
<1> QED
  BY <1>1, <1>2, PTL DEF Spec

\* Types; the queue stays within its size, and a thread exists only once the main
\* thread has made it.
THEOREM ControllerTypeCorrect == Spec => []TypeOK
<1>1. ControllerInv => TypeOK
  <2> SUFFICES ASSUME ControllerInv
               PROVE  TypeOK
    OBVIOUS
  <2>1. Typed /\ Flags
    BY DEF ControllerInv, Core
  <2> QED
    BY <2>1, Zenon DEF Typed, Flags, TypeOK
<1> QED
  BY <1>1, ControllerInvariance, PTL

\* Every feeding time is one "F100": on its way to the queue, in it, in the main
\* thread's hand or at the UART; none is lost and none doubled.
THEOREM MealsConserved == Spec => []FeedingsConserved
<1>1. ControllerInv => FeedingsConserved
  BY DEF ControllerInv
<1> QED
  BY <1>1, ControllerInvariance, PTL

\* Every round of the web thread's loop yields one treat command, at most
\* PollLimit of them.
THEOREM TreatCommandsConserved == Spec => []TreatsConserved
<1>1. ControllerInv => TreatsConserved
  BY DEF ControllerInv
<1> QED
  BY <1>1, ControllerInvariance, PTL

\* deleteThread runs only when the web thread has asked for it, and a treat
\* command has reached the UART by then: the queue keeps their order.
THEOREM ThreadDeletedAfterTreat == Spec => []DeletedAfterTreat
<1>1. ControllerInv => DeletedAfterTreat
  BY DEF ControllerInv, DeletesFollowTreats, TreatSent, DeletedAfterTreat
<1> QED
  BY <1>1, ControllerInvariance, PTL
=============================================================================
