------------------------------ MODULE MobileApp ------------------------------
(***************************************************************************)
(* The Android app: WebSocketManager with its websocket clients, the       *)
(* screens (fragments of one navigation graph) and the two files that keep *)
(* the device number.                                                      *)
(*                                                                         *)
(* Concurrency: the UI thread runs the button handlers and the life-cycle  *)
(* callbacks, and blocks in connectBlocking(); each websocket client has a *)
(* thread of its own that runs onOpen, onMessage and onClose.  They share  *)
(* the fields of WebSocketManager without a lock: a handler is split where *)
(* a step of another thread in between makes a difference.  A client that  *)
(* is replaced stays alive.                                                *)
(*                                                                         *)
(* Android may kill the process at any point.  The fields are then gone,   *)
(* the files stay, and the screens are restored or begin anew.             *)
(*                                                                         *)
(* The back stack is abstracted to the set of screens in it.               *)
(***************************************************************************)
EXTENDS Naturals, FiniteSets

CONSTANTS
    Ids,           \* device numbers
    NULL,          \* no value
    MaxClients,    \* bound: websocket clients of one process
    MaxRequests,   \* bound: treat requests
    MaxKills,      \* bound: deaths of the process
    MaxSaves       \* bound: device numbers entered

\* What a file holds apart from a number.
Empty == "empty"
True == "true"

ASSUME BoundsAssumption ==
    MaxClients \in Nat /\ MaxRequests \in Nat /\ MaxKills \in Nat /\ MaxSaves \in Nat
ASSUME NullAssumption == NULL \notin Ids \cup {Empty, True}

VARIABLES
    config, auth,     \* config.txt and auth.txt: NULL when absent, Empty when truncated
    running,          \* the process
    foreground,       \* the activity is resumed
    screen, below,    \* the current screen; the screens below it in the back stack
    ui,               \* the UI thread: what is left of the handler it is in
    connected, mClient, treatRequestReceived, fg_id, reply,
    notified,         \* the notification is on display
    client,           \* state of each websocket client
    subscribed,       \* the number each client subscribed with
    navigating,       \* clients in handleMessage, before navigate()
    request,          \* history: the last request, until a button is pressed; see HandleMessage
    answerSent,       \* history: the last pressed button sent its answer
    requests, timeouts, kills, saves,
    resaved           \* history: config.txt was truncated while auth.txt said "true"

files == <<config, auth, resaved>>
view == <<screen, below>>
sockets == <<client, subscribed, navigating>>
pending == <<treatRequestReceived, notified, request>>
history == <<requests, timeouts, kills, saves>>
vars == <<files, running, foreground, view, ui, connected, mClient, pending, fg_id,
          reply, sockets, answerSent, history>>

Clients == 1..MaxClients

Init ==
    /\ config = NULL /\ auth = NULL /\ resaved = FALSE
    /\ running = FALSE /\ foreground = FALSE
    /\ screen = "Connect" /\ below = {}
    /\ ui = <<"idle">>
    /\ connected = FALSE /\ mClient = 0
    /\ treatRequestReceived = FALSE /\ notified = FALSE /\ request = "none"
    /\ fg_id = NULL /\ reply = FALSE
    /\ client = [c \in Clients |-> "none"]
    /\ subscribed = [c \in Clients |-> NULL]
    /\ navigating = {}
    /\ answerSent = TRUE
    /\ requests = 0 /\ timeouts = 0 /\ kills = 0 /\ saves = 0

UiIdle == running /\ foreground /\ ui = <<"idle">>

Alive == {c \in Clients : client[c] \in {"connecting", "open"}}

\* readFromFile: an absent file reads as an empty one.
ReadFromFile(file) == IF file = NULL THEN Empty ELSE file

\* Mutant: the number is not read when the screen is shown.
SetupNever(to) == UNCHANGED fg_id

\* ConnectFragment.onViewCreated: setupWebSocketManager with the saved number.
Setup(to) == fg_id' = IF to = "Connect" THEN ReadFromFile(config) ELSE fg_id

\* navigate(): a screen on top of the others.
NavigateTo(to) ==
    /\ screen' = to
    /\ below' = below \cup {screen}
    /\ Setup(to)

-----------------------------------------------------------------------------
(* The process and the activity *)

\* MainActivity.onCreate: checkAuthentication decides where to go.  A process
\* that died with its screens gets them back.  The notification outlives it, and
\* may be what the user pressed.
Launch ==
    /\ ~running
    /\ running' = TRUE /\ foreground' = TRUE
    /\ IF ReadFromFile(auth) # True
         THEN screen' = "Auth" /\ below' = {"Connect"}
         ELSE \/ screen' = "Connect" /\ below' = {}
              \/ UNCHANGED view
    /\ fg_id' = IF screen' \in {"Connect", "Auth"} THEN ReadFromFile(config) ELSE NULL
    /\ notified' \in {notified, FALSE}
    /\ UNCHANGED <<files, ui, connected, mClient, treatRequestReceived, request, reply, sockets,
                   answerSent, history>>

\* The system kills the process, in the middle of whatever it does.
Kill ==
    /\ running /\ kills < MaxKills /\ kills' = kills + 1
    /\ running' = FALSE /\ foreground' = FALSE /\ ui' = <<"idle">>
    /\ connected' = FALSE /\ mClient' = 0
    /\ treatRequestReceived' = FALSE /\ request' = "none"
    /\ fg_id' = NULL /\ reply' = FALSE
    /\ client' = [c \in Clients |-> "none"]
    /\ subscribed' = [c \in Clients |-> NULL] /\ navigating' = {}
    /\ answerSent' = TRUE /\ timeouts' = 0
    /\ UNCHANGED <<files, view, notified, requests, saves>>

Leave ==
    /\ UiIdle /\ foreground' = FALSE
    /\ UNCHANGED <<files, running, view, ui, connected, mClient, pending, fg_id,
                   reply, sockets, answerSent, history>>

\* onResume: a waiting request is shown; twice, if onRestart has shown it before.
ShowWaitingRequest ==
    IF treatRequestReceived
      THEN /\ screen' = "TreatRequest"
           /\ below' \in {below \cup {screen}, below \cup {screen, "TreatRequest"}}
      ELSE UNCHANGED view

\* The user comes back to the app.
Resume ==
    /\ running /\ ui = <<"idle">> /\ ~foreground
    /\ foreground' = TRUE
    /\ ShowWaitingRequest
    /\ UNCHANGED <<files, running, ui, connected, mClient, pending, fg_id,
                   reply, sockets, answerSent, history>>

\* The user presses the notification, which goes away: a second MainActivity on top,
\* with onCreate and onResume.
PressNotification ==
    /\ running /\ ui = <<"idle">> /\ notified
    /\ notified' = FALSE /\ foreground' = TRUE
    /\ fg_id' = ReadFromFile(config)
    /\ LET start == IF ReadFromFile(auth) = True THEN "Connect" ELSE "Auth"
       IN  IF treatRequestReceived
             THEN screen' = "TreatRequest" /\ below' = below \cup {screen, "Connect", start}
             ELSE screen' = start /\ below' = below \cup {screen, "Connect"}
    /\ UNCHANGED <<files, running, ui, connected, mClient, treatRequestReceived, request,
                   reply, sockets, answerSent, history>>

\* The back button.
Back ==
    /\ UiIdle
    /\ \E to \in below : /\ screen' = to
                         /\ below' \in {below, below \ {to}}
                         /\ Setup(to)
    /\ UNCHANGED <<files, running, foreground, ui, connected, mClient, pending,
                   reply, sockets, answerSent, history>>

-----------------------------------------------------------------------------
(* AuthFragment: the button saves the device number *)

\* writeToFile("config.txt") opens, and so truncates, the file.
SaveBegin ==
    /\ UiIdle /\ screen = "Auth" /\ saves < MaxSaves /\ saves' = saves + 1
    /\ \E id \in Ids : ui' = <<"config", id>>
    /\ config' = Empty
    /\ resaved' = (resaved \/ auth = True)
    /\ UNCHANGED <<auth, running, foreground, view, connected, mClient, pending,
                   fg_id, reply, sockets, answerSent, requests, timeouts, kills>>

\* Mutant: auth.txt is written while config.txt is not.
WriteConfigLate(id) == auth' = True /\ UNCHANGED config

\* It is written, and auth.txt truncated.
WriteConfig(id) == config' = id /\ auth' = Empty

SaveConfig ==
    /\ running /\ ui[1] = "config"
    /\ WriteConfig(ui[2]) /\ ui' = <<"auth", ui[2]>>
    /\ UNCHANGED <<resaved, running, foreground, view, connected, mClient,
                   pending, fg_id, reply, sockets, answerSent, history>>

\* auth.txt is written, and the connect screen shown.
SaveAuth ==
    /\ running /\ ui[1] = "auth"
    /\ auth' = True /\ ui' = <<"idle">>
    /\ NavigateTo("Connect")
    /\ resaved' = FALSE
    /\ UNCHANGED <<config, running, foreground, connected, mClient, pending,
                   reply, sockets, answerSent, history>>

-----------------------------------------------------------------------------
(* ConnectFragment: the button connects *)

\* Mutant: a client is made although one is connected.
NeedsClientAlways == TRUE

NeedsClient == ~connected

\* connectClient(): a new client, unless the flag says there is one.
ConnectClient ==
    /\ UiIdle /\ screen = "Connect" /\ NeedsClient
    /\ \E c \in Clients :
           /\ client[c] = "none" /\ \A d \in 1..(c - 1) : client[d] # "none"
           /\ mClient' = c /\ client' = [client EXCEPT ![c] = "connecting"]
    /\ ui' = <<"connecting">>
    /\ UNCHANGED <<files, running, foreground, view, connected, pending, fg_id, reply,
                   subscribed, navigating, answerSent, history>>

\* With the flag set the button goes straight on.
AlreadyConnected ==
    /\ UiIdle /\ screen = "Connect" /\ connected
    /\ NavigateTo("Connected")
    /\ UNCHANGED <<files, running, foreground, ui, connected, mClient, pending,
                   reply, sockets, answerSent, history>>

\* connectBlocking() returns, connected or refused, or after 3 s; the flag
\* decides about the next screen.
ConnectReturns ==
    /\ running /\ ui = <<"connecting">>
    /\ ui' = <<"idle">>
    /\ timeouts' = IF client[mClient] = "connecting" THEN timeouts + 1 ELSE timeouts
    /\ IF connected THEN NavigateTo("Connected") ELSE UNCHANGED <<view, fg_id>>
    /\ UNCHANGED <<files, running, foreground, connected, mClient, pending, reply,
                   sockets, answerSent, requests, kills, saves>>

-----------------------------------------------------------------------------
(* The threads of the websocket clients *)

\* onOpen: the flag, then subscribe() with the number of now.
OnOpen(c) ==
    /\ client[c] = "connecting"
    /\ client' = [client EXCEPT ![c] = "open"]
    /\ connected' = TRUE
    /\ subscribed' = [subscribed EXCEPT ![c] = fg_id]
    /\ UNCHANGED <<files, running, foreground, view, ui, mClient, pending, fg_id,
                   reply, navigating, answerSent, history>>

\* onClose: of an open client, or of one that could not connect.
OnClose(c) ==
    /\ c \in Alive /\ c \notin navigating
    /\ client' = [client EXCEPT ![c] = "closed"]
    /\ connected' = FALSE
    /\ UNCHANGED <<files, running, foreground, view, ui, mClient, pending, fg_id,
                   reply, subscribed, navigating, answerSent, history>>

\* onMessage, handleMessage: "treat request", which the server sends to clients that
\* subscribed with a number.  The notification is shown, or the
\* PendingIntent throws (always from Android 12 on, never before): there is no
\* notification then, no navigate(), and onError logs it.  The request waits for an
\* answer, or has crossed a denial that was sent and has yet to clear the flag.
HandleMessage(c) ==
    /\ client[c] = "open" /\ subscribed[c] \in Ids /\ c \notin navigating
    /\ requests < MaxRequests /\ requests' = requests + 1
    /\ treatRequestReceived' = TRUE
    /\ \/ notified' = TRUE /\ navigating' = navigating \cup {c}
       \/ UNCHANGED <<notified, navigating>>
    /\ request' = IF ui = <<"denied">> THEN "crossed" ELSE "waiting"
    /\ UNCHANGED <<files, running, foreground, view, ui, connected, mClient, fg_id, reply,
                   client, subscribed, answerSent, timeouts, kills, saves>>

\* navigate(action_to_fragment_treat_request): the action belongs to two of the
\* screens.  On the others, and where the library refuses a call from this
\* thread, it throws; the client's thread reports that to onError, which logs it.
NavigateToRequest(c) ==
    /\ c \in navigating
    /\ navigating' = navigating \ {c}
    /\ \/ screen \in {"Connected", "RequestReply"} /\ NavigateTo("TreatRequest")
       \/ UNCHANGED <<view, fg_id>>
    /\ UNCHANGED <<files, running, foreground, ui, connected, mClient, pending,
                   reply, client, subscribed, answerSent, history>>

-----------------------------------------------------------------------------
(* ShowTreatRequest: the buttons *)

\* Mutant: the flag is asked instead of the client.
SendAnswerIfConnected(allow) ==
    /\ \/ mClient = 0 \/ ~connected
       \/ mClient # 0 /\ client[mClient] = "open"
    /\ reply' = allow
    /\ answerSent' = (mClient # 0 /\ connected)

\* mClient?.sendAck(): nothing without a client; a client that is not open
\* throws, which ends the process.
SendAnswer(allow) ==
    /\ \/ mClient = 0
       \/ mClient # 0 /\ client[mClient] = "open"
    /\ reply' = allow
    /\ answerSent' = (mClient # 0)

\* Deny: sendNack(), then the flag.
Deny ==
    /\ UiIdle /\ screen = "TreatRequest"
    /\ SendAnswer(FALSE)
    /\ ui' = <<"denied">>
    /\ request' = "none"
    /\ UNCHANGED <<files, running, foreground, view, connected, mClient, treatRequestReceived,
                   notified, fg_id, sockets, history>>

DenyClears ==
    /\ running /\ ui = <<"denied">>
    /\ treatRequestReceived' = FALSE
    /\ ui' = <<"answered">>
    /\ UNCHANGED <<files, running, foreground, view, connected, mClient, notified, request, fg_id,
                   reply, sockets, answerSent, history>>

\* Allow: the flag, then sendAck().
Allow ==
    /\ UiIdle /\ screen = "TreatRequest"
    /\ treatRequestReceived' = FALSE /\ request' = "none"
    /\ ui' = <<"allowing">>
    /\ UNCHANGED <<files, running, foreground, view, connected, mClient, notified, fg_id, reply,
                   sockets, answerSent, history>>

\* Mutant: Allow in the order of Deny, the flag after the answer.
AllowSendsThenClears ==
    /\ running /\ ui = <<"allowing">>
    /\ SendAnswer(TRUE)
    /\ treatRequestReceived' = FALSE
    /\ ui' = <<"answered">>
    /\ UNCHANGED <<files, running, foreground, view, connected, mClient, notified, request,
                   fg_id, sockets, history>>

AllowSends ==
    /\ running /\ ui = <<"allowing">>
    /\ SendAnswer(TRUE)
    /\ ui' = <<"answered">>
    /\ UNCHANGED <<files, running, foreground, view, connected, mClient, pending,
                   fg_id, sockets, history>>

\* navigate(global_action_to_request_reply), and ShowUserChoice shows reply.
ShowReply ==
    /\ running /\ ui = <<"answered">>
    /\ ui' = <<"idle">>
    /\ NavigateTo("RequestReply")
    /\ UNCHANGED <<files, running, foreground, connected, mClient, pending, reply,
                   sockets, answerSent, history>>

\* send() on a client that is not open: the exception is not caught.
SendThrows ==
    /\ \/ UiIdle /\ screen = "TreatRequest"
       \/ running /\ ui = <<"allowing">>
    /\ mClient # 0 /\ client[mClient] # "open"
    /\ Kill

-----------------------------------------------------------------------------
UiThread ==
    \/ SaveConfig \/ SaveAuth \/ ConnectReturns \/ DenyClears \/ AllowSends \/ ShowReply

User ==
    \/ Launch \/ Leave \/ Resume \/ PressNotification \/ Back \/ SaveBegin \/ ConnectClient
    \/ AlreadyConnected \/ Deny \/ Allow

Network ==
    \E c \in Clients : OnOpen(c) \/ OnClose(c) \/ HandleMessage(c)

ClientThreads == \E c \in Clients : NavigateToRequest(c)

Next == UiThread \/ User \/ Network \/ ClientThreads \/ SendThrows \/ Kill

Spec == Init /\ [][Next]_vars

-----------------------------------------------------------------------------
(* Properties *)

\* A death of the process between the writes of a first setup does not leave the
\* app set up without a number: auth.txt is written last.  (A later change of the
\* number can: config.txt is truncated while auth.txt still says "true".)
SetUpMeansNumber == auth = True /\ ~resaved => config \in Ids

\* No client subscribes with "null", although the fields are lost with the
\* process, screens are restored without it, and a connection may open long after
\* the button was pressed.  (An empty number is possible: the back button leads
\* from the setup screen to the connect screen.)
NeverSubscribesNull == \A c \in Clients : client[c] = "open" => subscribed[c] # NULL

\* Clients that nobody refers to any more come from connection attempts that
\* timed out: there is never more than one extra client for each.
ExtraClientsNeedTimeouts == Cardinality(Alive) <= 1 + timeouts

\* A request that no button was pressed for stays flagged, so that the app shows it
\* when the user next comes back to it, which is all that is left of it where the
\* notification cannot be shown: Allow clears the flag before it sends, so that a
\* request that comes in meanwhile survives.  (One that crosses a denial does not.)
RequestStaysFlagged == request = "waiting" => treatRequestReceived

\* The comment at the flag: it says whether the user has answered yet.  Violated when a
\* request comes in after a denial was sent and before Deny clears the flag.
FlagTellsUnanswered == request # "none" => treatRequestReceived

\* The screen that shows the choice follows an answer that went out, although
\* the close of an older client clears the flag of the one in use and requests
\* come in on any client.  (Not after a death of the process: the restored screen
\* has no client, mClient?.sendAck() does nothing, and the choice is shown.)
ChoiceSentUnlessRestored == screen = "RequestReply" => answerSent \/ kills > 0
=============================================================================
