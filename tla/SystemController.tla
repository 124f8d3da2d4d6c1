--------------------------- MODULE SystemController ---------------------------
(***************************************************************************)
(* The feeder's controller program (RPI/SystemController): the main thread *)
(* (SystemManager, CommandController) and the threads that feed its queue: *)
(*   TimeThread             posts (1, "F100") at feeding time,             *)
(*   ListenerThread         posts (2, "TEST") when the settings file was   *)
(*                          written,                                       *)
(*   WebCommListenerThread  polls the web server for the answer to the     *)
(*                          treat request and posts (3, "TA" or "TD"),     *)
(*                          then (9, its own number) to be deleted.        *)
(* The main thread takes the messages out and hands commands to the PSoC   *)
(* over the UART (PsocComm, RPIUart).                                      *)
(*                                                                         *)
(* The queue is the bounded FIFO that MsgQueueProofs shows it to be.       *)
(* Threads run and block as they like; sleeps take any time.  The functor  *)
(* of the web thread is freed by the main thread: touching it afterwards   *)
(* is undefined, and modelled as either a crash or no effect.              *)
(***************************************************************************)
EXTENDS Naturals, Sequences, FiniteSets

CONSTANTS
    QueueSize,     \* msgQueue_(10)
    PollLimit,     \* the loop of the web thread breaks at i == 7
    MaxFeedings,   \* bound: feeding times
    MaxWrites      \* bound: writes of the settings file

ASSUME SizesAssumption == QueueSize \in Nat \ {0} /\ PollLimit \in Nat \ {0}
ASSUME BoundsAssumption == MaxFeedings \in Nat /\ MaxWrites \in Nat

VARIABLES
    msgQueue_,   \* the command queue
    mainPc,      \* the main thread: where it is in MainThread::run
    msg,         \* the main thread: the message it is handling
    timePc,      \* the TimeThread
    listenPc,    \* the ListenerThread
    events,      \* inotify events not read yet
    batch,       \* events read and not handled yet
    webPc,       \* the WebCommListenerThread
    answer,      \* its answer
    i,           \* its poll counter
    functor,     \* "none", "live" or "freed": the thread's functor object
    uartOpen,    \* open("/dev/ttyS0") worked
    transmit,    \* the last transmission: how it ended and what was reported
    sent,        \* history: how often each command was given to the UART
    feedings,    \* history: feeding times so far
    writes,      \* history: writes of the settings file so far
    crashed      \* the process is gone

mainVars == <<mainPc, msg>>
timeVars == <<timePc, feedings>>
listenVars == <<listenPc, events, batch, writes>>
webVars == <<webPc, answer, i>>
uart == <<uartOpen, transmit, sent>>
vars == <<msgQueue_, mainVars, timeVars, listenVars, webVars, functor, uart, crashed>>

\* Bodies of the server's answers to GET /req_treat, with _ for a blank; "UNDEF"
\* stands for a request that threw.
Answers == {"allow", "deny", "no_reply_yet", "Mobile_app_not_found"}
UNDEF == "UNDEF"

Msg == {[id |-> 1, response |-> "F100"], [id |-> 2, response |-> "TEST"],
        [id |-> 3, response |-> "TA"], [id |-> 3, response |-> "TD"],
        [id |-> 9, response |-> "1"]}
Commands == {"F100", "TEST", "TA", "TD"}
NoMsg == [id |-> 0, response |-> "empty"]

\* RPIUart::initializeUART: a port that does not open is only printed.  It runs
\* with the first command; nothing looks at the port before.
InitializeUART == uartOpen \in BOOLEAN

Init ==
    /\ msgQueue_ = <<>>
    /\ mainPc = "start" /\ msg = NoMsg
    /\ timePc = "unstarted" /\ feedings = 0
    /\ listenPc = "unstarted" /\ events = 0 /\ batch = 0 /\ writes = 0
    /\ webPc = "unstarted" /\ answer = UNDEF /\ i = 0
    /\ functor = "none"
    /\ InitializeUART
    /\ transmit = [outcome |-> "none", report |-> "empty"]
    /\ sent = [command \in Commands |-> 0]
    /\ crashed = FALSE

\* Mutant: one item too many.
SendOverfull(id, response) ==
    /\ Len(msgQueue_) <= QueueSize
    /\ msgQueue_' = Append(msgQueue_, [id |-> id, response |-> response])

\* MsgQueue::send, as an indivisible step that waits for room.
Send(id, response) ==
    /\ Len(msgQueue_) < QueueSize
    /\ msgQueue_' = Append(msgQueue_, [id |-> id, response |-> response])

-----------------------------------------------------------------------------
(* TimeThread *)

\* The poll every 30 s meets the feeding hour and minute.
FeedingTime ==
    /\ timePc = "waiting"
    /\ feedings < MaxFeedings
    /\ feedings' = feedings + 1
    /\ timePc' = "sending"
    /\ UNCHANGED <<msgQueue_, mainVars, listenVars, webVars, functor, uart, crashed>>

\* Mutant: the message is dropped when the queue is full.
PassToCommandControllerDrops ==
    /\ timePc = "sending"
    /\ IF Len(msgQueue_) < QueueSize THEN Send(1, "F100") ELSE UNCHANGED msgQueue_
    /\ timePc' = "waiting"
    /\ UNCHANGED <<mainVars, feedings, listenVars, webVars, functor, uart, crashed>>

\* passToCommandController("F100"), then a minute's sleep and the next round.
PassToCommandController ==
    /\ timePc = "sending"
    /\ Send(1, "F100")
    /\ timePc' = "waiting"
    /\ UNCHANGED <<mainVars, feedings, listenVars, webVars, functor, uart, crashed>>

-----------------------------------------------------------------------------
(* ListenerThread *)

\* init_inot: its failures are only printed; the loop then never sees an event.
InitInot ==
    /\ listenPc = "starting"
    /\ listenPc' \in {"reading", "blind"}
    /\ UNCHANGED <<msgQueue_, mainVars, timeVars, events, batch, writes, webVars, functor,
                   uart, crashed>>

\* Somebody writes and closes the settings file.
WriteSettings ==
    /\ writes < MaxWrites
    /\ writes' = writes + 1
    /\ events' = IF listenPc \in {"reading", "handling"} THEN events + 1 ELSE events
    /\ UNCHANGED <<msgQueue_, mainVars, timeVars, listenPc, batch, webVars, functor,
                   uart, crashed>>

\* read(): all events there are, in one buffer.
ReadEvents ==
    /\ listenPc = "reading"
    /\ events > 0
    /\ batch' = events
    /\ events' = 0
    /\ listenPc' = "handling"
    /\ UNCHANGED <<msgQueue_, mainVars, timeVars, writes, webVars, functor, uart, crashed>>

\* One event of the buffer: its text is split and dropped, "TEST" is posted.
HandleEvent ==
    /\ listenPc = "handling"
    /\ Send(2, "TEST")
    /\ batch' = batch - 1
    /\ listenPc' = IF batch = 1 THEN "reading" ELSE "handling"
    /\ UNCHANGED <<mainVars, timeVars, events, writes, webVars, functor, uart, crashed>>

-----------------------------------------------------------------------------
(* WebCommListenerThread *)

\* A step that reads the functor object: if it was freed, anything may happen.
Crash ==
    /\ crashed' = TRUE
    /\ UNCHANGED <<msgQueue_, mainVars, timeVars, listenVars, webVars, functor, uart>>

TouchFunctor(step) ==
    \/ step /\ UNCHANGED crashed
    \/ functor = "freed" /\ Crash

\* getRequestAnswer: the body of the response, whatever it says, or "UNDEF" if
\* the request threw.  The test that follows it in run() is always true.
GetRequestAnswer ==
    /\ webPc = "poll"
    /\ answer' \in Answers \cup {UNDEF}
    /\ webPc' = "handle"
    /\ UNCHANGED <<msgQueue_, mainVars, timeVars, listenVars, i, functor, uart, crashed>>

\* handleResponse: find() gives the position of the match, so the test
\* "response.find("allow")" fails exactly for a response that begins with it.
TreatCommand(a) == IF a = "allow" THEN "TD" ELSE "TA"

HandleResponse ==
    /\ webPc = "handle"
    /\ TouchFunctor(/\ webPc' = "sendTreat"
                    /\ UNCHANGED <<msgQueue_, mainVars, timeVars, listenVars, answer, i,
                                   functor, uart>>)

SendTreat ==
    /\ webPc = "sendTreat"
    /\ Send(3, TreatCommand(answer))
    /\ webPc' = "delete"
    /\ UNCHANGED <<mainVars, timeVars, listenVars, answer, i, functor, uart, crashed>>

\* A second later: to_string(id) and msgQueue_ are read from the functor.
AskForDelete ==
    /\ webPc = "delete"
    /\ TouchFunctor(/\ webPc' = "sendDelete"
                    /\ UNCHANGED <<msgQueue_, mainVars, timeVars, listenVars, answer, i,
                                   functor, uart>>)

SendDelete ==
    /\ webPc = "sendDelete"
    /\ Send(9, "1")
    /\ webPc' = "next"
    /\ UNCHANGED <<mainVars, timeVars, listenVars, answer, i, functor, uart, crashed>>

\* Mutant: the limit is tested before i is incremented.
NextPollOffByOne ==
    /\ webPc = "next"
    /\ i' = i + 1
    /\ webPc' = IF i = PollLimit \/ answer # UNDEF THEN "exit" ELSE "poll"
    /\ UNCHANGED <<msgQueue_, mainVars, timeVars, listenVars, answer, functor, uart, crashed>>

\* Mutant: "continue" on "UNDEF", the loop spins without polling or counting.
NextPollSpins ==
    /\ webPc = "next"
    /\ i' = IF answer = UNDEF THEN i ELSE i + 1
    /\ webPc' = IF answer = UNDEF THEN "next" ELSE "exit"
    /\ UNCHANGED <<msgQueue_, mainVars, timeVars, listenVars, answer, functor, uart, crashed>>

\* i++, break at the limit, sleep 10 s, and again while the answer is "UNDEF".
NextPoll ==
    /\ webPc = "next"
    /\ i' = i + 1
    /\ webPc' = IF i + 1 = PollLimit \/ answer # UNDEF THEN "exit" ELSE "poll"
    /\ UNCHANGED <<msgQueue_, mainVars, timeVars, listenVars, answer, functor, uart, crashed>>

\* threadMapper: run() has returned, tf->threadDone_.signal().
ThreadDone ==
    /\ webPc = "exit"
    /\ TouchFunctor(/\ webPc' = "done"
                    /\ UNCHANGED <<msgQueue_, mainVars, timeVars, listenVars, answer, i,
                                   functor, uart>>)

-----------------------------------------------------------------------------
(* Main thread *)

\* MainThread::run: listenSettingsUpdate, waitFeedingTime.
StartThreads ==
    /\ mainPc = "start"
    /\ listenPc' = "starting"
    /\ timePc' = "waiting"
    /\ mainPc' = "post"
    /\ UNCHANGED <<msgQueue_, msg, feedings, events, batch, writes, webVars, functor,
                   uart, crashed>>

\* requestTreat: the POST returns or throws; either way it is over.
PostTreatRequest ==
    /\ mainPc = "post"
    /\ mainPc' = "spawn"
    /\ UNCHANGED <<msgQueue_, msg, timeVars, listenVars, webVars, functor, uart, crashed>>

\* Two seconds later, getTreatRequestAnswer: createWebCommListenerThread.
CreateWebCommListenerThread ==
    /\ mainPc = "spawn"
    /\ functor' = "live"
    /\ webPc' = "poll"
    /\ mainPc' = "receive"
    /\ UNCHANGED <<msgQueue_, msg, timeVars, listenVars, answer, i, uart, crashed>>

\* Mutant: the newest message first.
ReceiveNewest ==
    /\ mainPc = "receive"
    /\ msgQueue_ # <<>>
    /\ msg' = msgQueue_[Len(msgQueue_)]
    /\ msgQueue_' = SubSeq(msgQueue_, 1, Len(msgQueue_) - 1)
    /\ mainPc' = "handle"
    /\ UNCHANGED <<timeVars, listenVars, webVars, functor, uart, crashed>>

\* dispatchCommand: msgQueue_.receive(id).
Receive ==
    /\ mainPc = "receive"
    /\ msgQueue_ # <<>>
    /\ msg' = Head(msgQueue_)
    /\ msgQueue_' = Tail(msgQueue_)
    /\ mainPc' = "handle"
    /\ UNCHANGED <<timeVars, listenVars, webVars, functor, uart, crashed>>

\* RPIUart::transmitBytes: how it ends.  The write to the non-blocking port may
\* fail or be cut short; without a port nothing is written.
TransmitBytes == IF uartOpen THEN {"written", "cut_short", "write_failed"} ELSE {"no_uart"}

\* PsocComm::sendCommand: transmitBytes returns -1 for a failed write only.
\* latestCommand is remembered and never used.
SendCommand(command) ==
    \E outcome \in TransmitBytes :
        /\ transmit' = [outcome |-> outcome,
                        report |-> IF outcome = "write_failed"
                                   THEN "Error_transmitting_bytes" ELSE "Bytes_transmitted"]
        /\ sent' = [sent EXCEPT ![command] = @ + 1]
        /\ UNCHANGED uartOpen

\* deleteThread: ~Thread detaches, then the functor is freed.  The pool keeps
\* the entry, so a second call deletes both objects again.
DeleteThread ==
    \/ /\ functor = "live"
       /\ functor' = "freed"
       /\ UNCHANGED crashed
    \/ /\ functor = "freed"
       /\ UNCHANGED functor
       /\ crashed' \in BOOLEAN

\* Mutant: no branch for id 1.
HandleCommandNoFeeding ==
    /\ mainPc = "handle"
    /\ mainPc' = "receive"
    /\ msg' = NoMsg
    /\ \/ msg.id = 1 /\ UNCHANGED <<functor, uart, crashed>>
       \/ msg.id \in {2, 3} /\ SendCommand(msg.response) /\ UNCHANGED <<functor, crashed>>
       \/ msg.id = 9 /\ DeleteThread /\ UNCHANGED uart
    /\ UNCHANGED <<msgQueue_, timeVars, listenVars, webVars>>

\* handleCommand, and the deletion of the message.  The texts of the PSoC
\* ("SACKE", "STLOWE", ...) have no sender here: the PSoC listener thread is
\* not started.  The tests for "STAE" and "STDE" after a treat command never hold.
HandleCommand ==
    /\ mainPc = "handle"
    /\ mainPc' = "receive"
    /\ msg' = NoMsg
    /\ \/ /\ msg.id \in {1, 2, 3}
          /\ SendCommand(msg.response)
          /\ UNCHANGED <<functor, crashed>>
       \/ /\ msg.id = 9
          /\ DeleteThread
          /\ UNCHANGED uart
    /\ UNCHANGED <<msgQueue_, timeVars, listenVars, webVars>>

-----------------------------------------------------------------------------
TimeThread == ~crashed /\ (FeedingTime \/ PassToCommandController)

ListenerThread == ~crashed /\ (InitInot \/ ReadEvents \/ HandleEvent)

WebThread ==
    ~crashed /\ (\/ GetRequestAnswer \/ HandleResponse \/ SendTreat \/ AskForDelete
                 \/ SendDelete \/ NextPoll \/ ThreadDone)

MainThread ==
    ~crashed /\ (\/ StartThreads \/ PostTreatRequest \/ CreateWebCommListenerThread
                 \/ Receive \/ HandleCommand)

\* The bounded inputs are used up and everybody waits for more, or the
\* process is gone.
Quiescent ==
    \/ crashed
    \/ /\ feedings = MaxFeedings /\ timePc = "waiting"
       /\ writes = MaxWrites /\ events = 0 /\ listenPc \in {"reading", "blind"}
       /\ webPc = "done"
       /\ mainPc = "receive" /\ msgQueue_ = <<>>

Idle == Quiescent /\ UNCHANGED vars

Next ==
    \/ TimeThread
    \/ ListenerThread
    \/ WebThread
    \/ MainThread
    \/ ~crashed /\ WriteSettings
    \/ Idle

Spec == Init /\ [][Next]_vars

\* Every thread that can run runs.  HTTP requests end: the server limits the
\* time of a request.  Nobody has to write the settings file.
FairSpec ==
    /\ Spec
    /\ WF_vars(TimeThread)
    /\ WF_vars(ListenerThread)
    /\ WF_vars(WebThread)
    /\ WF_vars(MainThread)

-----------------------------------------------------------------------------
(* Properties *)

Pcs == {"unstarted", "poll", "handle", "sendTreat", "delete", "sendDelete", "next", "exit", "done"}

\* Every variable has its type; a thread exists only once the main thread has
\* made it, and the queue stays within its size.
TypeOK ==
    /\ msgQueue_ \in Seq(Msg) /\ Len(msgQueue_) <= QueueSize
    /\ mainPc \in {"start", "post", "spawn", "receive", "handle"}
    /\ msg \in Msg \cup {NoMsg} /\ (msg # NoMsg <=> mainPc = "handle")
    /\ timePc \in {"unstarted", "waiting", "sending"}
    /\ feedings \in 0..MaxFeedings
    /\ listenPc \in {"unstarted", "starting", "reading", "blind", "handling"}
    /\ events \in 0..MaxWrites /\ batch \in 0..MaxWrites /\ writes \in 0..MaxWrites
    /\ batch > 0 <=> listenPc = "handling"
    /\ webPc \in Pcs /\ (webPc = "unstarted" <=> functor = "none")
    /\ answer \in Answers \cup {UNDEF}
    /\ i \in 0..PollLimit
    /\ functor \in {"none", "live", "freed"}
    /\ sent \in [Commands -> Nat]
    /\ uartOpen \in BOOLEAN /\ crashed \in BOOLEAN

\* Messages with one of the given texts that wait or are being handled.
Pending(texts) ==
    Cardinality({k \in 1..Len(msgQueue_) : msgQueue_[k].response \in texts})
      + (IF msg.response \in texts THEN 1 ELSE 0)

\* No meal is lost, skipped or doubled between the clock and the UART, also
\* when the queue is full and the TimeThread has to wait.
FeedingsConserved ==
    feedings = sent["F100"] + Pending({"F100"}) + (IF timePc = "sending" THEN 1 ELSE 0)

\* Every poll of the web thread yields one treat command, and the loop's limit
\* bounds them, although the functor is freed while the thread still polls.
TreatsConserved ==
    LET treats == sent["TA"] + sent["TD"] + Pending({"TA", "TD"})
    IN  /\ treats = i + (IF webPc \in {"delete", "sendDelete", "next"} THEN 1 ELSE 0)
        /\ treats <= PollLimit

\* The web thread is deleted only after it asked for it, and its first treat
\* command has gone out by then: (3, ...) is queued before (9, ...).
DeletedAfterTreat ==
    functor = "freed" => /\ sent["TA"] + sent["TD"] > 0
                         /\ i > 0 \/ webPc = "next"

\* Every feeding time ends in a command on the UART, unless the process dies.
FeedingReachesUart ==
    \A n \in 1..MaxFeedings : feedings >= n ~> (crashed \/ sent["F100"] >= n)

\* The web thread stops polling, whatever the server answers.
WebThreadEnds == webPc = "poll" ~> (crashed \/ webPc = "done")

\* handleCommand's comments: TA dispenses the treat, TD denies it.  So TA goes
\* to the PSoC only if the answer fetched from the server is "allow".
TreatOnlyIfAllowed == sent["TA"] > 0 => answer = "allow"
=============================================================================
