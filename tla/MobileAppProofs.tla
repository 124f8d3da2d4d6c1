--------------------------- MODULE MobileAppProofs ---------------------------
(***************************************************************************)
(* Proofs about MobileApp: what holds of the files, the device number, the *)
(* websocket clients and the shown answer, for any numbers and any number  *)
(* of clients, requests, deaths of the process and changes of the number.  *)
(***************************************************************************)
EXTENDS MobileApp, TLAPS, FiniteSetTheorems

\* While the setup button's handler is between its writes, the thread holds the
\* number, and after the first write the file does.
FilesInv ==
    /\ auth \in {NULL, Empty, True}
    /\ config \in Ids \cup {NULL, Empty}
    /\ ui[1] \in {"config", "auth"} => ui[2] \in Ids
    /\ ui[1] = "auth" => config = ui[2]
    /\ SetUpMeansNumber

ClientsTyped ==
    /\ client \in [Clients -> {"none", "connecting", "open", "closed"}]
    /\ DOMAIN subscribed = Clients
    /\ mClient \in 0..MaxClients
    /\ timeouts \in Nat /\ kills \in Nat

\* The manager has a number wherever a connection can be made or is being made.
NumberInv ==
    /\ screen = "Connect" /\ running => fg_id # NULL
    /\ \A c \in Clients : client[c] \in {"connecting", "open"} => running /\ fg_id # NULL
    /\ NeverSubscribesNull

\* A new client is due only if there are no more clients than time-outs; while one
\* is awaited it is the client in use.
ExtrasInv ==
    /\ ExtraClientsNeedTimeouts
    /\ \/ Cardinality(Alive) <= timeouts
       \/ connected
       \/ ui = <<"connecting">> /\ mClient # 0 /\ client[mClient] = "connecting"

\* Until the process dies for the first time, a request to answer comes from a
\* client, and the client in use is never given up for none.
AnswerInv ==
    kills = 0 =>
        /\ answerSent
        /\ \/ mClient # 0
           \/ /\ ~ treatRequestReceived /\ screen # "TreatRequest" /\ "TreatRequest" \notin below
              /\ ui # <<"allowing">> /\ navigating = {}
              /\ \A c \in Clients : client[c] = "none"

\* While a denial that was sent has yet to clear the flag, no request waits.
RequestInv ==
    /\ RequestStaysFlagged
    /\ ui = <<"denied">> => request # "waiting"

AppInv ==
    /\ FilesInv
    /\ ClientsTyped
    /\ NumberInv
    /\ ExtrasInv
    /\ AnswerInv
    /\ RequestInv

-----------------------------------------------------------------------------
(* The files *)

\* Every step but those of the setup button leaves the files alone, and the UI
\* thread in none of that button's places it was not in before.
LEMMA FileSteps ==
  ASSUME [Next]_vars
  PROVE  \/ SaveBegin \/ SaveConfig \/ SaveAuth
         \/ /\ UNCHANGED <<config, auth, resaved>>
            /\ \/ ui' = ui
               \/ \E place \in {"idle", "connecting", "denied", "allowing", "answered"} :
                      ui' = <<place>>
<1> USE DEF files
<1>1. CASE UiThread
  BY <1>1 DEF UiThread, ConnectReturns, DenyClears, AllowSends, ShowReply
<1>2. CASE User
  BY <1>2 DEF User, Launch, Leave, Resume, PressNotification, Back, ConnectClient, AlreadyConnected, Deny, Allow
<1>3. CASE Network \/ ClientThreads
  BY <1>3 DEF Network, ClientThreads, OnOpen, OnClose, HandleMessage, NavigateToRequest
<1>4. CASE SendThrows \/ Kill
  BY <1>4 DEF SendThrows, Kill
<1>5. CASE UNCHANGED vars
  BY <1>5 DEF vars
<1> QED
  BY <1>1, <1>2, <1>3, <1>4, <1>5 DEF Next

LEMMA FilesStep ==
  ASSUME FilesInv, [Next]_vars
  PROVE  FilesInv'
<1> USE NullAssumption DEF FilesInv
<1>1. CASE SaveBegin
  <2>1. PICK id \in Ids : ui' = <<"config", id>>
    BY <1>1 DEF SaveBegin
  <2>2. ui'[1] = "config" /\ ui'[2] \in Ids /\ config' = Empty /\ auth' = auth
    BY <1>1, <2>1 DEF SaveBegin
  <2>3. resaved' = (resaved \/ auth = True)
    BY <1>1 DEF SaveBegin
  <2>4. auth = True => resaved'
    BY <2>3
  <2> QED
    BY <2>2, <2>4 DEF SetUpMeansNumber
<1>2. CASE SaveConfig
  <2>1. ui[1] = "config" /\ config' = ui[2] /\ auth' = Empty /\ ui' = <<"auth", ui[2]>>
    BY <1>2 DEF SaveConfig, WriteConfig
  <2>2. ui'[1] = "auth" /\ ui'[2] = ui[2] /\ ui[2] \in Ids
    BY <2>1
  <2> QED
    BY <2>1, <2>2 DEF SetUpMeansNumber, Empty, True
<1>3. CASE SaveAuth
  <2>1. ui[1] = "auth" /\ config' = config /\ auth' = True /\ ui' = <<"idle">>
    BY <1>3 DEF SaveAuth
  <2>2. ui'[1] = "idle" /\ config \in Ids
    BY <2>1
  <2> QED
    BY <2>1, <2>2 DEF SetUpMeansNumber
<1>4. CASE /\ UNCHANGED <<config, auth, resaved>>
           /\ \/ ui' = ui
              \/ \E place \in {"idle", "connecting", "denied", "allowing", "answered"} :
                     ui' = <<place>>
  <2>1. ui' = ui \/ ui'[1] \notin {"config", "auth"}
    BY <1>4
  <2>2. config' = config /\ auth' = auth /\ (SetUpMeansNumber => SetUpMeansNumber')
    BY <1>4 DEF SetUpMeansNumber
  <2> QED
    BY <2>1, <2>2
<1> QED
  BY <1>1, <1>2, <1>3, <1>4, FileSteps

-----------------------------------------------------------------------------
(* The clients *)

\* What the steps do to the clients.
LEMMA ClientSteps ==
  ASSUME [Next]_vars
  PROVE  \/ ConnectClient
         \/ ConnectReturns
         \/ Kill
         \/ \E c \in Clients : OnOpen(c) \/ OnClose(c)
         \/ UNCHANGED <<client, subscribed, mClient, timeouts, kills>>
<1> USE DEF sockets, history
<1>1. CASE UiThread
  BY <1>1 DEF UiThread, SaveConfig, SaveAuth, DenyClears, AllowSends, ShowReply
<1>2. CASE User
  BY <1>2 DEF User, Launch, Leave, Resume, PressNotification, Back, SaveBegin, AlreadyConnected, Deny, Allow
<1>3. CASE Network \/ ClientThreads
  BY <1>3 DEF Network, ClientThreads, HandleMessage, NavigateToRequest
<1>4. CASE SendThrows \/ Kill
  BY <1>4 DEF SendThrows
<1>5. CASE UNCHANGED vars
  BY <1>5 DEF vars
<1> QED
  BY <1>1, <1>2, <1>3, <1>4, <1>5 DEF Next

LEMMA ClientsTypedStep ==
  ASSUME ClientsTyped, [Next]_vars
  PROVE  ClientsTyped'
<1> USE BoundsAssumption DEF ClientsTyped, Clients
<1>1. CASE ConnectClient
  BY <1>1 DEF ConnectClient, history
<1>2. CASE ConnectReturns
  BY <1>2 DEF ConnectReturns, sockets
<1>3. CASE Kill
  BY <1>3 DEF Kill
<1>4. ASSUME NEW c \in Clients, OnOpen(c)
      PROVE  ClientsTyped'
  BY <1>4 DEF OnOpen, history
<1>5. ASSUME NEW c \in Clients, OnClose(c)
      PROVE  ClientsTyped'
  BY <1>5 DEF OnClose, history
<1>6. CASE UNCHANGED <<client, subscribed, mClient, timeouts, kills>>
  BY <1>6
<1> QED
  BY <1>1, <1>2, <1>3, <1>4, <1>5, <1>6, ClientSteps

\* What the steps do to the number the manager works with and to the screen.
LEMMA NumberSteps ==
  ASSUME FilesInv, [Next]_vars
  PROVE  \/ Kill
         \/ Launch
         \/ /\ running' = running
            /\ \/ fg_id' # NULL
               \/ fg_id' = fg_id /\ (screen' # "Connect" \/ screen' = screen)
<1> USE NullAssumption DEF FilesInv, history
<1>1. ReadFromFile(config) # NULL
  BY DEF ReadFromFile, Empty
<1>2. ASSUME NEW to, NavigateTo(to)
      PROVE  fg_id' # NULL \/ (fg_id' = fg_id /\ screen' # "Connect")
  BY <1>1, <1>2 DEF NavigateTo, Setup
<1>3. CASE UiThread
  BY <1>2, <1>3 DEF UiThread, SaveConfig, SaveAuth, ConnectReturns, DenyClears, AllowSends,
                    ShowReply, view
<1>4. CASE User
  <2>1. CASE Back
    BY <1>1, <2>1 DEF Back, Setup
  <2>2. CASE Resume
    BY <2>2 DEF Resume, ShowWaitingRequest, view
  <2>3. CASE PressNotification
    BY <1>1, <2>3 DEF PressNotification
  <2> QED
    BY <1>2, <1>4, <2>1, <2>2, <2>3 DEF User, Leave, SaveBegin, ConnectClient, AlreadyConnected,
                                        Deny, Allow, view
<1>5. CASE Network \/ ClientThreads
  BY <1>2, <1>5 DEF Network, ClientThreads, OnOpen, OnClose, HandleMessage, NavigateToRequest, view
<1>6. CASE SendThrows \/ Kill
  BY <1>6 DEF SendThrows
<1>7. CASE UNCHANGED vars
  BY <1>7 DEF vars, view
<1> QED
  BY <1>3, <1>4, <1>5, <1>6, <1>7 DEF Next

\* A client is new, or opens, or is what it was.
LEMMA ClientChanges ==
  ASSUME ClientsTyped, [Next]_vars, NEW c \in Clients
  PROVE  /\ client'[c] \in {"connecting", "open"} =>
               client[c] \in {"connecting", "open"} \/ ConnectClient
         /\ client'[c] = "open" =>
               \/ client[c] = "open" /\ subscribed'[c] = subscribed[c]
               \/ client[c] = "connecting" /\ subscribed'[c] = fg_id
<1> USE DEF ClientsTyped
<1>1. CASE ConnectClient
  BY <1>1 DEF ConnectClient
<1>2. CASE ConnectReturns
  BY <1>2 DEF ConnectReturns, sockets
<1>3. CASE Kill
  BY <1>3 DEF Kill
<1>4. ASSUME NEW d \in Clients, OnOpen(d)
      PROVE  /\ client'[c] \in {"connecting", "open"} => client[c] \in {"connecting", "open"}
             /\ client'[c] = "open" =>
                   \/ client[c] = "open" /\ subscribed'[c] = subscribed[c]
                   \/ client[c] = "connecting" /\ subscribed'[c] = fg_id
  BY <1>4 DEF OnOpen
<1>5. ASSUME NEW d \in Clients, OnClose(d)
      PROVE  client'[c] \in {"connecting", "open"} => client'[c] = client[c] /\ UNCHANGED subscribed
  BY <1>5 DEF OnClose
<1>6. CASE UNCHANGED <<client, subscribed, mClient, timeouts, kills>>
  BY <1>6
<1> QED
  BY <1>1, <1>2, <1>3, <1>4, <1>5, <1>6, ClientSteps

LEMMA NumberStep ==
  ASSUME FilesInv, ClientsTyped, NumberInv, [Next]_vars
  PROVE  NumberInv'
<1> USE NullAssumption DEF NumberInv
<1>1. CASE Kill
  BY <1>1 DEF Kill, NeverSubscribesNull
<1>2. CASE Launch
  <2>1. ~ running /\ UNCHANGED <<client, subscribed>>
    BY <1>2 DEF Launch, sockets
  <2>2. \A c \in Clients : client[c] \notin {"connecting", "open"}
    BY <2>1
  <2>3. ReadFromFile(config) # NULL
    BY DEF FilesInv, ReadFromFile, Empty
  <2>4. screen' = "Connect" => fg_id' # NULL
    BY <1>2, <2>3 DEF Launch
  <2> QED
    BY <2>1, <2>2, <2>4 DEF NeverSubscribesNull
<1>3. CASE /\ running' = running
           /\ \/ fg_id' # NULL
              \/ fg_id' = fg_id /\ (screen' # "Connect" \/ screen' = screen)
  <2>1. screen' = "Connect" /\ running' => fg_id' # NULL
    BY <1>3
  <2>2. ASSUME NEW c \in Clients, client'[c] \in {"connecting", "open"}
        PROVE  running' /\ fg_id' # NULL
    <3>1. CASE client[c] \in {"connecting", "open"}
      BY <1>3, <3>1
    <3>2. CASE ConnectClient
      BY <1>3, <3>2 DEF ConnectClient, UiIdle
    <3> QED
      BY <2>2, <3>1, <3>2, ClientChanges
  <2>3. NeverSubscribesNull'
    BY ClientChanges DEF NeverSubscribesNull
  <2> QED
    BY <2>1, <2>2, <2>3
<1> QED
  BY <1>1, <1>2, <1>3, NumberSteps

-----------------------------------------------------------------------------
(* How many clients there are *)

AliveIn(cl) == {c \in Clients : cl[c] \in {"connecting", "open"}}

LEMMA AliveFinite ==
  ASSUME NEW cl
  PROVE  IsFiniteSet(AliveIn(cl)) /\ Cardinality(AliveIn(cl)) \in Nat
<1>1. IsFiniteSet(Clients)
  BY BoundsAssumption, FS_Interval DEF Clients
<1>2. AliveIn(cl) \in SUBSET Clients
  BY DEF AliveIn
<1>3. IsFiniteSet(AliveIn(cl))
  BY <1>1, <1>2, FS_Subset
<1> QED
  BY <1>3, FS_CardinalityType

\* What the steps do to the number of clients.
LEMMA AliveCounts ==
  ASSUME ClientsTyped
  PROVE  /\ Alive = AliveIn(client) /\ Alive' = AliveIn(client')
         /\ ConnectClient => Cardinality(Alive') = Cardinality(Alive) + 1
         /\ \A c \in Clients : OnOpen(c) => Alive' = Alive
         /\ \A c \in Clients : OnClose(c) => Cardinality(Alive') = Cardinality(Alive) - 1
         /\ Kill => Cardinality(Alive') = 0
<1> USE DEF ClientsTyped
<1>1. Alive = AliveIn(client) /\ Alive' = AliveIn(client')
  BY DEF Alive, AliveIn
<1>2. IsFiniteSet(Alive)
  BY <1>1, AliveFinite
<1>3. ASSUME ConnectClient
      PROVE  Cardinality(Alive') = Cardinality(Alive) + 1
  <2>1. PICK c \in Clients : client[c] = "none" /\ client' = [client EXCEPT ![c] = "connecting"]
    BY <1>3 DEF ConnectClient
  <2>2. Alive' = Alive \cup {c} /\ c \notin Alive
    BY <2>1 DEF Alive
  <2> QED
    BY <1>2, <2>2, FS_AddElement
<1>4. ASSUME NEW c \in Clients, OnOpen(c)
      PROVE  Alive' = Alive
  BY <1>4 DEF OnOpen, Alive
<1>5. ASSUME NEW c \in Clients, OnClose(c)
      PROVE  Cardinality(Alive') = Cardinality(Alive) - 1
  <2>1. Alive' = Alive \ {c} /\ c \in Alive
    BY <1>5 DEF OnClose, Alive
  <2> QED
    BY <1>2, <2>1, FS_RemoveElement
<1>6. ASSUME Kill
      PROVE  Cardinality(Alive') = 0
  <2>1. Alive' = {}
    BY <1>6 DEF Kill, Alive
  <2> QED
    BY <2>1, FS_EmptySet
<1> QED
  BY <1>1, <1>3, <1>4, <1>5, <1>6

\* Only the listed steps touch what ExtrasInv speaks about.
LEMMA ExtrasSteps ==
  ASSUME [Next]_vars
  PROVE  \/ ConnectClient
         \/ ConnectReturns
         \/ Kill
         \/ \E c \in Clients : OnOpen(c) \/ OnClose(c)
         \/ /\ UNCHANGED <<client, connected, timeouts, mClient>>
            /\ ui' = ui \/ ui # <<"connecting">>
<1> USE DEF sockets, history
<1>1. /\ ui = <<"idle">> \/ ui[1] \in {"config", "auth"} \/ ui = <<"denied">>
           \/ ui = <<"allowing">> \/ ui = <<"answered">>
         => ui # <<"connecting">>
  <2>1. <<"connecting">>[1] = "connecting"
    OBVIOUS
  <2>2. <<"idle">>[1] = "idle" /\ <<"denied">>[1] = "denied" /\ <<"allowing">>[1] = "allowing"
        /\ <<"answered">>[1] = "answered"
    OBVIOUS
  <2> QED
    BY <2>1, <2>2
<1>2. CASE UiThread
  BY <1>1, <1>2 DEF UiThread, SaveConfig, SaveAuth, DenyClears, AllowSends, ShowReply
<1>3. CASE User
  BY <1>1, <1>3 DEF User, UiIdle, Launch, Leave, Resume, PressNotification, Back, SaveBegin, AlreadyConnected, Deny,
                    Allow
<1>4. CASE Network \/ ClientThreads
  BY <1>4 DEF Network, ClientThreads, HandleMessage, NavigateToRequest
<1>5. CASE SendThrows \/ Kill
  BY <1>5 DEF SendThrows
<1>6. CASE UNCHANGED vars
  BY <1>6 DEF vars
<1> QED
  BY <1>2, <1>3, <1>4, <1>5, <1>6 DEF Next

LEMMA ExtrasStep ==
  ASSUME ClientsTyped, ExtrasInv, [Next]_vars
  PROVE  ExtrasInv'
<1> DEFINE n == Cardinality(Alive)
<1> USE DEF ExtrasInv, ExtraClientsNeedTimeouts
<1>1. n \in Nat /\ n' \in Nat /\ timeouts \in Nat
  BY AliveFinite, AliveCounts DEF ClientsTyped
<1>2. /\ n <= 1 + timeouts
      /\ \/ n <= timeouts
         \/ connected
         \/ ui = <<"connecting">> /\ mClient # 0 /\ client[mClient] = "connecting"
  OBVIOUS
<1>3. CASE ConnectClient
  <2>1. /\ ~ connected /\ ui = <<"idle">> /\ timeouts' = timeouts /\ ui' = <<"connecting">>
        /\ n' = n + 1
    BY <1>3, AliveCounts DEF ConnectClient, UiIdle, NeedsClient, history
  <2>2. ui # <<"connecting">>
    <3>1. <<"connecting">>[1] = "connecting" /\ <<"idle">>[1] = "idle"
      OBVIOUS
    <3> QED
      BY <2>1, <3>1
  <2>3. n <= timeouts
    BY <1>2, <2>1, <2>2
  <2>4. mClient' # 0 /\ client'[mClient'] = "connecting"
    BY <1>3, BoundsAssumption DEF ConnectClient, ClientsTyped, Clients
  <2>5. n' <= 1 + timeouts'
    BY <1>1, <2>1, <2>3
  <2> QED
    BY <2>1, <2>4, <2>5
<1>4. CASE ConnectReturns
  <2>1. /\ Alive' = Alive /\ connected' = connected
        /\ timeouts' = IF client[mClient] = "connecting" THEN timeouts + 1 ELSE timeouts
    BY <1>4 DEF ConnectReturns, sockets, Alive
  <2>2. CASE client[mClient] = "connecting"
    BY <1>1, <1>2, <2>1, <2>2
  <2>3. CASE client[mClient] # "connecting"
    BY <1>1, <1>2, <2>1, <2>3
  <2> QED
    BY <2>2, <2>3
<1>5. CASE Kill
  <2>1. n' = 0 /\ timeouts' = 0
    BY <1>5, AliveCounts DEF Kill
  <2> QED
    BY <2>1
<1>6. ASSUME NEW c \in Clients, OnOpen(c)
      PROVE  ExtrasInv'
  <2>1. Alive' = Alive /\ connected' /\ timeouts' = timeouts
    BY <1>6, AliveCounts DEF OnOpen, history
  <2> QED
    BY <1>2, <2>1
<1>7. ASSUME NEW c \in Clients, OnClose(c)
      PROVE  ExtrasInv'
  <2>1. n' = n - 1 /\ timeouts' = timeouts
    BY <1>7, AliveCounts DEF OnClose, history
  <2>2. n' <= timeouts'
    BY <1>1, <1>2, <2>1
  <2>3. n' <= 1 + timeouts'
    BY <1>1, <2>1, <2>2
  <2> QED
    BY <2>2, <2>3
<1>8. CASE /\ UNCHANGED <<client, connected, timeouts, mClient>>
           /\ ui' = ui \/ ui # <<"connecting">>
  BY <1>2, <1>8 DEF Alive
<1> QED
  BY <1>3, <1>4, <1>5, <1>6, <1>7, <1>8, ExtrasSteps

-----------------------------------------------------------------------------
(* The answer that is shown *)

\* No request has come in, and none is shown, being answered or on its way.
NoRequest ==
    /\ ~ treatRequestReceived /\ screen # "TreatRequest" /\ "TreatRequest" \notin below
    /\ ui # <<"allowing">> /\ navigating = {}
    /\ \A c \in Clients : client[c] = "none"

\* Without a request and without a client there is none after the step either,
\* unless a client is made.
LEMMA NoRequestStays ==
  ASSUME ClientsTyped, NoRequest, mClient = 0, [Next]_vars
  PROVE  \/ mClient' # 0 /\ answerSent' = answerSent
         \/ kills' # 0
         \/ NoRequest' /\ answerSent' = answerSent
<1> USE DEF NoRequest, pending
<1>1. ASSUME NEW to, to # "TreatRequest", NavigateTo(to)
      PROVE  screen' # "TreatRequest" /\ "TreatRequest" \notin below'
  BY <1>1 DEF NavigateTo
<1>2. ASSUME NEW place, place \in {"idle", "connecting", "denied", "answered"}, ui' = <<place>>
      PROVE  ui' # <<"allowing">>
  <2>1. <<place>>[1] = place /\ <<"allowing">>[1] = "allowing"
    OBVIOUS
  <2> QED
    BY <1>2, <2>1
<1>3. CASE UiThread
  <2>1. CASE SaveConfig
    <3>1. ui'[1] = "auth" /\ <<"allowing">>[1] = "allowing"
      BY <2>1 DEF SaveConfig
    <3> QED
      BY <2>1, <3>1 DEF SaveConfig, view, sockets
  <2>2. CASE SaveAuth
    BY <1>1, <1>2, <2>2 DEF SaveAuth, sockets
  <2>3. CASE ConnectReturns
    BY <1>1, <1>2, <2>3 DEF ConnectReturns, view, sockets
  <2>4. CASE DenyClears
    BY <1>2, <2>4 DEF DenyClears, view, sockets
  <2>5. CASE ShowReply
    BY <1>1, <1>2, <2>5 DEF ShowReply, sockets
  <2>6. ~ AllowSends
    BY DEF AllowSends
  <2> QED
    BY <1>3, <2>1, <2>2, <2>3, <2>4, <2>5, <2>6 DEF UiThread
<1>4. CASE User
  <2>1. CASE Launch
    BY <2>1 DEF Launch, view, sockets
  <2>2. CASE Leave
    BY <2>2 DEF Leave, view, sockets
  <2>3. CASE Resume
    BY <2>3 DEF Resume, ShowWaitingRequest, view, sockets
  <2>9. CASE PressNotification
    BY <2>9 DEF PressNotification, sockets
  <2>4. CASE Back
    BY <2>4 DEF Back, sockets
  <2>5. CASE SaveBegin
    <3>1. ui'[1] = "config" /\ <<"allowing">>[1] = "allowing"
      BY <2>5 DEF SaveBegin
    <3> QED
      BY <2>5, <3>1 DEF SaveBegin, view, sockets
  <2>6. CASE ConnectClient
    BY <2>6, BoundsAssumption DEF ConnectClient, Clients
  <2>7. CASE AlreadyConnected
    BY <1>1, <2>7 DEF AlreadyConnected, sockets
  <2>8. ~ Deny /\ ~ Allow
    BY DEF Deny, Allow
  <2> QED
    BY <1>4, <2>1, <2>2, <2>3, <2>4, <2>5, <2>6, <2>7, <2>8, <2>9 DEF User
<1>5. ~ Network /\ ~ ClientThreads /\ ~ SendThrows
  BY DEF Network, ClientThreads, SendThrows, OnOpen, OnClose, HandleMessage, NavigateToRequest,
         Alive
<1>6. CASE Kill
  <2>1. kills' = kills + 1 /\ kills \in Nat
    BY <1>6 DEF Kill, ClientsTyped
  <2> QED
    BY <2>1
<1>7. CASE UNCHANGED vars
  BY <1>7 DEF vars, view, sockets
<1> QED
  BY <1>3, <1>4, <1>5, <1>6, <1>7 DEF Next

\* The client in use is given up only with the process, which counts.
LEMMA ClientKept ==
  ASSUME ClientsTyped, mClient # 0, answerSent, [Next]_vars
  PROVE  kills' # 0 \/ (mClient' # 0 /\ answerSent')
<1>1. CASE Kill
  BY <1>1 DEF Kill, ClientsTyped
<1>2. CASE ConnectClient
  BY <1>2, BoundsAssumption DEF ConnectClient, Clients
<1>3. CASE Deny
  <2>1. mClient' = mClient /\ answerSent' = (mClient # 0)
    BY <1>3 DEF Deny, SendAnswer
  <2> QED
    BY <2>1
<1>4. CASE AllowSends
  <2>1. mClient' = mClient /\ answerSent' = (mClient # 0)
    BY <1>4 DEF AllowSends, SendAnswer
  <2> QED
    BY <2>1
<1>5. CASE UNCHANGED <<mClient, answerSent>>
  BY <1>5
<1> QED
  BY <1>1, <1>2, <1>3, <1>4, <1>5
     DEF Next, UiThread, User, Network, ClientThreads, SendThrows, SaveConfig, SaveAuth,
         ConnectReturns, DenyClears, ShowReply, Launch, Leave, Resume, PressNotification, Back, SaveBegin,
         AlreadyConnected, Allow, OnOpen, OnClose, HandleMessage, NavigateToRequest, vars

\* A death of the process is never forgotten.
LEMMA KillsStay ==
  ASSUME ClientsTyped, [Next]_vars, kills # 0
  PROVE  kills' # 0
<1>1. CASE Kill
  BY <1>1 DEF Kill, ClientsTyped
<1>2. CASE ConnectReturns
  BY <1>2 DEF ConnectReturns
<1>3. CASE ConnectClient \/ \E c \in Clients : OnOpen(c) \/ OnClose(c)
  BY <1>3 DEF ConnectClient, OnOpen, OnClose, history
<1> QED
  BY <1>1, <1>2, <1>3, ClientSteps

LEMMA AnswerStep ==
  ASSUME ClientsTyped, AnswerInv, [Next]_vars
  PROVE  AnswerInv'
<1> SUFFICES ASSUME kills' = 0
             PROVE  answerSent' /\ (mClient' # 0 \/ NoRequest')
  BY DEF AnswerInv, NoRequest
<1>1. kills = 0
  BY KillsStay
<1>2. answerSent /\ (mClient # 0 \/ NoRequest)
  BY <1>1 DEF AnswerInv, NoRequest
<1>3. CASE mClient # 0
  BY <1>2, <1>3, ClientKept
<1>4. CASE mClient = 0
  BY <1>2, <1>4, NoRequestStays
<1> QED
  BY <1>3, <1>4

-----------------------------------------------------------------------------
(* The request that waits *)

\* Only these steps touch the flag, the request or the place between a denial and its
\* clearing of the flag.
LEMMA RequestSteps ==
  ASSUME [Next]_vars
  PROVE  \/ Deny \/ DenyClears \/ Allow \/ Kill
         \/ \E c \in Clients : HandleMessage(c)
         \/ /\ UNCHANGED <<treatRequestReceived, request>>
            /\ ui' = ui \/ ui'[1] # "denied"
<1> USE DEF pending
<1>0. \A place \in {"idle", "connecting", "allowing", "answered"} : <<place>>[1] # "denied"
  OBVIOUS
<1>1. CASE UiThread
  <2>1. CASE SaveConfig
    BY <2>1 DEF SaveConfig
  <2>2. CASE SaveAuth \/ ConnectReturns
    BY <1>0, <2>2 DEF SaveAuth, ConnectReturns
  <2>3. CASE AllowSends \/ ShowReply
    BY <1>0, <2>3 DEF AllowSends, ShowReply
  <2> QED
    BY <1>1, <2>1, <2>2, <2>3 DEF UiThread
<1>2. CASE User
  <2>1. CASE Launch \/ Leave \/ Resume \/ PressNotification \/ Back
    BY <2>1 DEF Launch, Leave, Resume, PressNotification, Back
  <2>2. CASE SaveBegin
    <3>1. PICK id \in Ids : ui' = <<"config", id>>
      BY <2>2 DEF SaveBegin
    <3>2. ui'[1] = "config"
      BY <3>1
    <3> QED
      BY <2>2, <3>2 DEF SaveBegin
  <2>3. CASE ConnectClient \/ AlreadyConnected
    BY <1>0, <2>3 DEF ConnectClient, AlreadyConnected
  <2> QED
    BY <1>2, <2>1, <2>2, <2>3 DEF User
<1>3. CASE Network \/ ClientThreads
  BY <1>3 DEF Network, ClientThreads, OnOpen, OnClose, NavigateToRequest
<1>4. CASE SendThrows \/ Kill
  BY <1>4 DEF SendThrows
<1>5. CASE UNCHANGED vars
  BY <1>5 DEF vars
<1> QED
  BY <1>1, <1>2, <1>3, <1>4, <1>5 DEF Next

LEMMA RequestStep ==
  ASSUME RequestInv, [Next]_vars
  PROVE  RequestInv'
<1> USE DEF RequestInv, RequestStaysFlagged
<1>0. <<"denied">>[1] = "denied"
  OBVIOUS
<1>1. CASE Deny
  BY <1>1 DEF Deny
<1>2. CASE DenyClears
  <2>1. request' = request /\ request # "waiting"
    BY <1>2 DEF DenyClears
  <2> QED
    BY <2>1
<1>3. CASE Allow
  BY <1>3 DEF Allow
<1>4. CASE Kill
  BY <1>4 DEF Kill
<1>5. ASSUME NEW c \in Clients, HandleMessage(c)
      PROVE  RequestInv'
  BY <1>5 DEF HandleMessage
<1>6. CASE /\ UNCHANGED <<treatRequestReceived, request>>
           /\ ui' = ui \/ ui'[1] # "denied"
  BY <1>0, <1>6
<1> QED
  BY <1>1, <1>2, <1>3, <1>4, <1>5, <1>6, RequestSteps

-----------------------------------------------------------------------------
\* The invariant of the app: files, clients, numbers, answers and requests.
THEOREM AppInvariance == Spec => []AppInv
<1>1. Init => AppInv
  <2> SUFFICES ASSUME Init
               PROVE  AppInv
    OBVIOUS
  <2>1. FilesInv
    <3>1. ui[1] = "idle"
      BY DEF Init
    <3> QED
      BY <3>1, NullAssumption DEF Init, FilesInv, SetUpMeansNumber
  <2>2. ClientsTyped
    BY BoundsAssumption DEF Init, ClientsTyped
  <2>3. NumberInv
    BY DEF Init, NumberInv, NeverSubscribesNull
  <2>4. ExtrasInv
    <3>1. Alive = {} /\ timeouts = 0
      BY DEF Init, Alive
    <3>2. Cardinality(Alive) = 0
      BY <3>1, FS_EmptySet
    <3> QED
      BY <3>1, <3>2 DEF ExtrasInv, ExtraClientsNeedTimeouts
  <2>5. AnswerInv
    <3>1. ui # <<"allowing">>
      <4>1. ui[1] = "idle" /\ <<"allowing">>[1] = "allowing"
        BY DEF Init
      <4> QED
        BY <4>1
    <3> QED
      BY <3>1 DEF Init, AnswerInv
  <2>6. RequestInv
    BY DEF Init, RequestInv, RequestStaysFlagged
  <2> QED
    BY <2>1, <2>2, <2>3, <2>4, <2>5, <2>6 DEF AppInv
<1>2. AppInv /\ [Next]_vars => AppInv'
  BY FilesStep, ClientsTypedStep, NumberStep, ExtrasStep, AnswerStep, RequestStep DEF AppInv
<1> QED
  BY <1>1, <1>2, PTL DEF Spec

\* After a first setup, an app that takes itself for set up has a number: a death
\* of the process between the two files' writes does not harm.
THEOREM SetUpHasNumber == Spec => []SetUpMeansNumber
<1>1. AppInv => SetUpMeansNumber
  BY DEF AppInv, FilesInv
<1> QED
  BY <1>1, AppInvariance, PTL

\* No client subscribes with the null that fg_id is after a restore.
THEOREM SubscribesWithANumber == Spec => []NeverSubscribesNull
<1>1. AppInv => NeverSubscribesNull
  BY DEF AppInv, NumberInv
<1> QED
  BY <1>1, AppInvariance, PTL

\* connectClient() leaves at most one more client behind than connectBlocking()
\* has timed out.
THEOREM ClientsBounded == Spec => []ExtraClientsNeedTimeouts
<1>1. AppInv => ExtraClientsNeedTimeouts
  BY DEF AppInv, ExtrasInv
<1> QED
  BY <1>1, AppInvariance, PTL

\* A request that nobody has answered stays flagged, whatever the threads of the
\* clients and the buttons do, unless it crossed a denial.
THEOREM WaitingRequestIsFlagged == Spec => []RequestStaysFlagged
<1>1. AppInv => RequestStaysFlagged
  BY DEF AppInv, RequestInv
<1> QED
  BY <1>1, AppInvariance, PTL

\* The shown choice was sent, as long as the process has not died.
THEOREM ShownChoiceWasSent == Spec => []ChoiceSentUnlessRestored
<1>1. AppInv => ChoiceSentUnlessRestored
  <2> SUFFICES ASSUME AppInv, kills = 0 \/ ~ (kills > 0)
               PROVE  answerSent
    BY DEF ChoiceSentUnlessRestored
  <2>1. kills \in Nat
    BY DEF AppInv, ClientsTyped
  <2>2. kills = 0
    BY <2>1
  <2> QED
    BY <2>2 DEF AppInv, AnswerInv
<1> QED
  BY <1>1, AppInvariance, PTL
=============================================================================
