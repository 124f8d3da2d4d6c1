--------------------------- MODULE FoodgiverSystem ---------------------------
(***************************************************************************)
(* The feeder's web thread, the server and the phones together: a treat    *)
(* request from the POST to the command for the PSoC.                      *)
(*                                                                         *)
(* The server and the phones are FoodgiverServer.  The feeder is the part  *)
(* of the controller that talks to them: requestTreat() posts the request, *)
(* and the web thread fetches the answer (WebComm.cpp).  HTTP calls may    *)
(* fail before the server saw them or after; the controller may crash and  *)
(* start again, which is when it posts its next request.                   *)
(***************************************************************************)
EXTENDS FoodgiverServer

CONSTANTS
    Dev,          \* the feeder's device number, 420
    PollLimit,    \* the loop of the web thread breaks at i == 7
    MaxRuns,      \* bound: starts of the controller
    MaxFaults     \* bound: HTTP calls that fail

ASSUME FeederAssumption == Dev \in Devices /\ PollLimit \in Nat \ {0}
ASSUME FeederBoundsAssumption == MaxRuns \in Nat /\ MaxFaults \in Nat

VARIABLES
    feeder,      \* the controller: "post", "poll", "handle" or "done"
    answer,      \* the web thread: the answer, UNDEF when the call threw
    i,           \* the web thread: polls so far
    from,        \* history: the decision the answer rests on
    commands,    \* history: the treat commands that rest on each decision, in order
    notified,    \* history: apps that were sent this run's request
    runs, faults

feederVars == <<feeder, answer, i, from, commands, notified, runs, faults>>
sysVars == <<vars, feederVars>>

UNDEF == "UNDEF"

SysInit ==
    /\ Init
    /\ feeder = "post" /\ answer = UNDEF /\ i = 0 /\ from = NoDecision
    /\ commands = [d \in Decision |-> <<>>]
    /\ notified = {}
    /\ runs = 1 /\ faults = 0

-----------------------------------------------------------------------------
(* The feeder *)

Fails == faults < MaxFaults /\ faults' = faults + 1

\* postTreatRequest: the response is only printed.  The answer is asked for two
\* seconds later, whether the request got through or not.
PostTreatRequest ==
    /\ feeder = "post" /\ feeder' = "poll"
    /\ \/ OnPostReqTreat(Dev) /\ notified' = Matching(Dev) /\ UNCHANGED faults
       \/ Fails /\ UNCHANGED <<vars, notified>>
    /\ UNCHANGED <<answer, i, from, commands, runs>>

\* getRequestAnswer: every body is returned as it came (find() is only 0 for one
\* of the two words); a call that fails, here or on the way back, is UNDEF.
GetRequestAnswer ==
    /\ feeder = "poll" /\ feeder' = "handle"
    /\ \/ /\ OnGetReqTreat(Dev)
          /\ answer' = response'.body /\ from' = response'.from
          /\ UNCHANGED faults
       \/ /\ OnGetReqTreat(Dev) \/ UNCHANGED vars
          /\ answer' = UNDEF /\ from' = NoDecision
          /\ Fails
    /\ UNCHANGED <<i, commands, notified, runs>>

\* while(answer == "UNDEF"), and the break at i == 7
LoopsAgain == answer = UNDEF /\ i + 1 < PollLimit

\* handleResponse takes find() for a truth value: it is 0, false, only for an
\* answer that begins with the word.  So "allow" makes "TD" and every other
\* answer "TA".
TreatCommand(word) == IF word = REPLY_ALLOW THEN "TD" ELSE "TA"

\* Mutant: the command is made of the initial answer, not of the one fetched.
HandleResponseLate ==
    /\ feeder = "handle"
    /\ commands' = IF from = NoDecision THEN commands
                   ELSE [commands EXCEPT ![from] = Append(@, TreatCommand(UNDEF))]
    /\ i' = i + 1
    /\ feeder' = IF LoopsAgain THEN "poll" ELSE "done"
    /\ UNCHANGED <<vars, answer, from, notified, runs, faults>>

\* handleResponse: one treat command for each poll.
HandleResponse ==
    /\ feeder = "handle"
    /\ commands' = IF from = NoDecision THEN commands
                   ELSE [commands EXCEPT ![from] = Append(@, TreatCommand(answer))]
    /\ i' = i + 1
    /\ feeder' = IF LoopsAgain THEN "poll" ELSE "done"
    /\ UNCHANGED <<vars, answer, from, notified, runs, faults>>

\* The controller crashes or is stopped, and starts again.
Restart ==
    /\ runs < MaxRuns /\ runs' = runs + 1
    /\ feeder' = "post" /\ answer' = UNDEF /\ i' = 0 /\ from' = NoDecision
    /\ notified' = {}
    /\ UNCHANGED <<vars, commands, faults>>

-----------------------------------------------------------------------------
Feeder == PostTreatRequest \/ GetRequestAnswer \/ HandleResponse

Phones == UNCHANGED feederVars /\ \E c \in Conns : App(c) \/ Websocket(c)

PhonesHeard == UNCHANGED feederVars /\ \E c \in Conns : HandleWsMessage(c)

SysNext == Feeder \/ Phones \/ Restart

SysSpec == SysInit /\ [][SysNext]_sysVars

\* The controller runs, and what a phone sent arrives if the phone stays up.
SysFairSpec == SysSpec /\ WF_sysVars(Feeder) /\ WF_sysVars(PhonesHeard)

-----------------------------------------------------------------------------
(* Properties *)

\* One press of a button causes at most one command, over failed calls, polls
\* that are repeated and restarts of the controller: the server forgets an answer
\* when it is fetched, and an answer ends the feeder's loop.
OneCommandPerDecision == \A d \in Decision : Len(commands[d]) <= 1

\* A command that rests on a decision stays true to it from the press to the PSoC:
\* the user of an app with this feeder's number (as far as it is read) said the
\* very word the command was made of, also when the phone said another thing
\* since, reconnected or went away.  What handleResponse makes of a word is
\* TreatCommand: that "allow" becomes "TD" is the finding of the controller's
\* TreatOnlyIfAllowed, and no matter of this property.
CommandKeepsWord ==
    \A d \in Decision : \A n \in 1..Len(commands[d]) :
        /\ SetUpFor(d[1], Dev)
        /\ d[2] \in 1..Len(decisions[d[1]])
        /\ commands[d][n] = TreatCommand(decisions[d[1]][d[2]])

\* The server tells the app "Treat request acknowledged, relaying msg to device":
\* the answer to the feeder's request reaches the feeder, if the app stays
\* connected and does not change the answer.
AnswerReachesFeeder ==
    \A c \in Conns, k \in 1..MaxDecisions :
        (c \in notified /\ link[c] = "up" /\ Len(decisions[c]) = k)
            ~> (timesUsed[<<c, k>>] > 0 \/ link[c] # "up" \/ Len(decisions[c]) # k)
=============================================================================
