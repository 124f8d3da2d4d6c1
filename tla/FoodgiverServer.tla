--------------------------- MODULE FoodgiverServer ---------------------------
(***************************************************************************)
(* The web server between the feeder and the phones                        *)
(* (WEBSERVER/serverWorkspace/ServerSrc/FoodgiverServer.cpp).  It keeps    *)
(* one registry entry per websocket: which device the app on the other end *)
(* subscribed to (fg_id, -1 before its "auth" message) and its last answer *)
(* to a treat request.  The feeder posts treat requests and fetches        *)
(* answers over HTTP; a fetch clears the answer it returns.                *)
(*                                                                         *)
(* restinio runs every handler on one thread, so a handler is one action.  *)
(* Around it: connections that come and go, messages in flight, and        *)
(* clients that vanish without a close frame.                              *)
(***************************************************************************)
EXTENDS Integers, Sequences, FiniteSets

CONSTANTS
    Devices,        \* the device numbers in use over HTTP, read in full
    Numbers,        \* the numbers apps are set up with, as they are written: digits
    Unparsable,     \* a text without a number, std::stoi throws on it
    IntMax,         \* std::stoi throws on a number above it
    MaxConns,       \* bound: websocket connections ever made
    MaxDecisions,   \* bound: answers of one app per connection
    MaxWire         \* bound: messages of one app in flight

\* connection_id(): restinio numbers connections upwards.
Conns == 1..MaxConns

-----------------------------------------------------------------------------
(* The number of a websocket message *)

\* What std::stoi reads in a text of digits.
Value(digits) ==
    LET value[k \in 0..Len(digits)] == IF k = 0 THEN 0 ELSE 10 * value[k - 1] + digits[k]
    IN  value[Len(digits)]

\* pos: the place after '_' in "auth_", "treat ack_" and "treat nack_".
Pos(kind) == CASE kind = "auth" -> 5 [] kind = "treat_ack" -> 10 [] kind = "treat_nack" -> 11

\* payload.substr(pos, pos + 2): at most pos + 2 characters of the number are read.
Chars(kind, number) ==
    IF Len(number) <= Pos(kind) + 2 THEN number ELSE SubSeq(number, 1, Pos(kind) + 2)

\* std::stoi finds a number, and an int holds it.
Parses(kind, id) == id # Unparsable /\ Value(Chars(kind, id)) <= IntMax

\* The fg_id an app is registered with: of its number the first 7 digits.
AuthId(number) == Value(Chars("auth", number))

ASSUME DevicesAssumption == Devices \subseteq Nat /\ Unparsable \notin Int
\* The app's field takes digits only, and 7 of them fit an int.
ASSUME NumbersAssumption ==
    /\ Numbers \subseteq Seq(0..9) /\ <<>> \notin Numbers
    /\ \A number \in Numbers : Parses("auth", number)
ASSUME BoundsAssumption == MaxConns \in Nat /\ MaxDecisions \in Nat \ {0} /\ MaxWire \in Nat

VARIABLES
    m_registry,   \* open connections: connection id -> [fg_id, reply]
    link,         \* link[c]: "unused", "up", "lost" (the client is gone, the server
                  \*   does not know) or "closed" (the close frame was handled)
    wire,         \* wire[c]: messages of the app, not yet handled
    response,     \* the last HTTP response, and what it rests on
    appOf,        \* history: the number the app of connection c was set up with
    decisions,    \* history: the answers handled on c, in order
    timesUsed     \* history: how often a decision was handed to the feeder

vars == <<m_registry, link, wire, response, appOf, decisions, timesUsed>>

NoDevice == -1

\* Texts, with _ for a blank and "empty" for the empty one.
REPLY_UNDEF == "no_reply_yet"
REPLY_DENY == "deny"
REPLY_ALLOW == "allow"
Replies == {REPLY_UNDEF, REPLY_DENY, REPLY_ALLOW}

Ids == Numbers \cup {Unparsable}
Messages == {"auth", "treat_ack", "treat_nack"} \X Ids

NoDecision == <<0, 0>>
Decision == Conns \X (1..MaxDecisions)

Entry == [fg_id : {AuthId(number) : number \in Numbers} \cup {NoDevice}, reply : Replies]

Init ==
    /\ m_registry = [c \in {} |-> [fg_id |-> NoDevice, reply |-> REPLY_UNDEF]]
    /\ link = [c \in Conns |-> "unused"]
    /\ wire = [c \in Conns |-> <<>>]
    /\ response = [route |-> "none", dev |-> NoDevice, body |-> "empty", from |-> NoDecision,
                   targets |-> {}]
    /\ appOf = [c \in Conns |-> Unparsable]
    /\ decisions = [c \in Conns |-> <<>>]
    /\ timesUsed = [d \in Decision |-> 0]

-----------------------------------------------------------------------------
(* The apps and the network *)

\* WebSocketManager.sendAck / sendNack: the number is the app's current fg_id,
\* which may have been changed since this connection subscribed.
AppAnswers(c, kind, id) ==
    /\ link[c] = "up"
    /\ Len(wire[c]) < MaxWire
    /\ Len(decisions[c]) + Len(wire[c]) < MaxDecisions
    /\ wire' = [wire EXCEPT ![c] = Append(@, <<kind, id>>)]
    /\ UNCHANGED <<m_registry, link, response, appOf, decisions, timesUsed>>

\* The phone loses its network or its battery: the server is not told, and of
\* the messages in flight only a prefix arrives.
ClientLost(c) ==
    /\ link[c] = "up"
    /\ link' = [link EXCEPT ![c] = "lost"]
    /\ \E n \in 0..Len(wire[c]) : wire' = [wire EXCEPT ![c] = SubSeq(@, 1, n)]
    /\ UNCHANGED <<m_registry, response, appOf, decisions, timesUsed>>

-----------------------------------------------------------------------------
(* Websocket handlers *)

\* Mutant: the new entry's reply is left empty.
OnWebsocketConnectNoReply(c, id) ==
    /\ link[c] = "unused"
    /\ \A e \in Conns : e < c => link[e] # "unused"
    /\ link' = [link EXCEPT ![c] = "up"]
    /\ m_registry' = [e \in DOMAIN m_registry \cup {c} |->
                        IF e = c THEN [fg_id |-> NoDevice, reply |-> "empty"] ELSE m_registry[e]]
    /\ wire' = [wire EXCEPT ![c] = <<<<"auth", id>>>>]
    /\ appOf' = [appOf EXCEPT ![c] = id]
    /\ UNCHANGED <<response, decisions, timesUsed>>

\* onWebsocketConnect: the upgrade is immediate and the entry is made in the
\* same handler; the client's onOpen then subscribes with auth_<id>.  Making a
\* second response on the upgraded request throws, after all this is done.
OnWebsocketConnect(c, id) ==
    /\ link[c] = "unused"
    /\ \A e \in Conns : e < c => link[e] # "unused"
    /\ link' = [link EXCEPT ![c] = "up"]
    /\ m_registry' = [e \in DOMAIN m_registry \cup {c} |->
                        IF e = c THEN [fg_id |-> NoDevice, reply |-> REPLY_UNDEF]
                                 ELSE m_registry[e]]
    /\ wire' = [wire EXCEPT ![c] = <<<<"auth", id>>>>]
    /\ appOf' = [appOf EXCEPT ![c] = id]
    /\ UNCHANGED <<response, decisions, timesUsed>>

\* Assignment to a registry entry, if find() finds one.
SetFgId(c, fg_id) ==
    m_registry' = IF c \in DOMAIN m_registry
                  THEN [m_registry EXCEPT ![c].fg_id = fg_id] ELSE m_registry

SetReply(c, reply) ==
    m_registry' = IF c \in DOMAIN m_registry
                  THEN [m_registry EXCEPT ![c].reply = reply] ELSE m_registry

\* handleWsMessage.  std::stoi runs before anything else: a message whose
\* number it rejects changes nothing and gets no answer (restinio logs the
\* exception and reads on).  The number of an ack or a nack is read and not used.
HandleWsMessage(c) ==
    /\ link[c] \in {"up", "lost"}
    /\ wire[c] # <<>>
    /\ wire' = [wire EXCEPT ![c] = Tail(@)]
    /\ UNCHANGED <<link, response, appOf, timesUsed>>
    /\ LET kind == Head(wire[c])[1]
           id == Head(wire[c])[2]
       IN  \/ /\ ~ Parses(kind, id)
              /\ UNCHANGED <<m_registry, decisions>>
           \/ /\ Parses(kind, id) /\ kind = "auth"
              /\ SetFgId(c, AuthId(id))
              /\ UNCHANGED decisions
           \/ /\ Parses(kind, id) /\ kind = "treat_ack"
              /\ SetReply(c, REPLY_ALLOW)
              /\ decisions' = [decisions EXCEPT ![c] = Append(@, REPLY_ALLOW)]
           \/ /\ Parses(kind, id) /\ kind = "treat_nack"
              /\ SetReply(c, REPLY_DENY)
              /\ decisions' = [decisions EXCEPT ![c] = Append(@, REPLY_DENY)]

\* Mutant: the entry outlives its connection.
OnCloseFrameKeepsEntry(c) ==
    /\ link[c] \in {"up", "lost"}
    /\ link' = [link EXCEPT ![c] = "closed"]
    /\ wire' = [wire EXCEPT ![c] = <<>>]
    /\ UNCHANGED <<m_registry, response, appOf, decisions, timesUsed>>

\* The close frame: sent by the client after its messages, or made up by
\* restinio when it notices that the connection is broken.
OnCloseFrame(c) ==
    /\ \/ link[c] = "up" /\ wire[c] = <<>>
       \/ link[c] = "lost"
    /\ link' = [link EXCEPT ![c] = "closed"]
    /\ m_registry' = [e \in DOMAIN m_registry \ {c} |-> m_registry[e]]
    /\ wire' = [wire EXCEPT ![c] = <<>>]
    /\ UNCHANGED <<response, appOf, decisions, timesUsed>>

-----------------------------------------------------------------------------
(* HTTP handlers *)

Respond(route, d, body, from, targets) ==
    response' = [route |-> route, dev |-> d, body |-> body, from |-> from,
                 targets |-> targets]

\* Mutant: apps that have not subscribed yet count as well.
MatchingUnsubscribed(d) == {c \in DOMAIN m_registry : m_registry[c].fg_id \in {d, NoDevice}}

\* The entries a loop over m_registry finds for a device.
Matching(d) == {c \in DOMAIN m_registry : m_registry[c].fg_id = d}

\* std::map iterates in the order of the connection ids.
First(S) == CHOOSE c \in S : \A e \in S : c <= e

OnGetCheckId(d) ==
    /\ Respond("check", d, IF Matching(d) = {} THEN "Mobile_app_not_found"
                                              ELSE "Mobile_app_present", NoDecision, {})
    /\ UNCHANGED <<m_registry, link, wire, appOf, decisions, timesUsed>>

\* Mutant: the answer is cleared in the loop's copy, not in the registry.
OnGetReqTreatClearsCopy(d) ==
    /\ Matching(d) # {}
    /\ LET c == First(Matching(d))
           reply == m_registry[c].reply
           from == IF reply = REPLY_UNDEF THEN NoDecision ELSE <<c, Len(decisions[c])>>
       IN  /\ Respond("get", d, reply, from, {})
           /\ timesUsed' = IF from = NoDecision THEN timesUsed
                           ELSE [timesUsed EXCEPT ![from] = @ + 1]
    /\ UNCHANGED <<m_registry, link, wire, appOf, decisions>>

\* onGetReqTreat: the first matching entry answers and forgets its answer.
OnGetReqTreat(d) ==
    /\ UNCHANGED <<link, wire, appOf, decisions>>
    /\ \/ /\ Matching(d) = {}
          /\ Respond("get", d, "Mobile_app_not_found", NoDecision, {})
          /\ UNCHANGED <<m_registry, timesUsed>>
       \/ /\ Matching(d) # {}
          /\ LET c == First(Matching(d))
                 reply == m_registry[c].reply
                 from == IF reply = REPLY_UNDEF THEN NoDecision
                                               ELSE <<c, Len(decisions[c])>>
             IN  /\ Respond("get", d, reply, from, {})
                 /\ m_registry' = [m_registry EXCEPT ![c].reply = REPLY_UNDEF]
                 /\ timesUsed' = IF from = NoDecision THEN timesUsed
                                 ELSE [timesUsed EXCEPT ![from] = @ + 1]

\* Mutant: the loop returns after the first match.
OnPostReqTreatFirstOnly(d) ==
    /\ Respond("post", d, "empty", NoDecision,
               IF Matching(d) = {} THEN {} ELSE {First(Matching(d))})
    /\ UNCHANGED <<m_registry, link, wire, appOf, decisions, timesUsed>>

\* onPostReqTreat: every matching app is sent "treat request".  The error text
\* is set while the loop has not met a match yet, at every entry it passes.
OnPostReqTreat(d) ==
    /\ Respond("post", d,
               IF \E c \in DOMAIN m_registry :
                       \A e \in Matching(d) : c < e
               THEN "No_mobile_app_with_this_id_found" ELSE "empty",
               NoDecision, Matching(d))
    /\ UNCHANGED <<m_registry, link, wire, appOf, decisions, timesUsed>>

\* std::stoi of :dev_id throws: status 400 and nothing else.
OnBadRequest(route) ==
    /\ Respond(route, Unparsable, "empty", NoDecision, {})
    /\ UNCHANGED <<m_registry, link, wire, appOf, decisions, timesUsed>>

-----------------------------------------------------------------------------
App(c) ==
    \/ \E id \in Ids : OnWebsocketConnect(c, id)
    \/ \E kind \in {"treat_ack", "treat_nack"}, id \in Ids : AppAnswers(c, kind, id)
    \/ ClientLost(c)

Websocket(c) == HandleWsMessage(c) \/ OnCloseFrame(c)

Http ==
    \/ \E d \in Devices : OnGetCheckId(d) \/ OnGetReqTreat(d) \/ OnPostReqTreat(d)
    \/ \E route \in {"check", "get", "post"} : OnBadRequest(route)

Next == Http \/ \E c \in Conns : App(c) \/ Websocket(c)

Spec == Init /\ [][Next]_vars

-----------------------------------------------------------------------------
(* Properties *)

\* Every variable has its type.
TypeOK ==
    /\ DOMAIN m_registry \subseteq Conns
    /\ m_registry \in [DOMAIN m_registry -> Entry]
    /\ link \in [Conns -> {"unused", "up", "lost", "closed"}]
    /\ wire \in [Conns -> Seq(Messages)]
    /\ response.from \in Decision \cup {NoDecision}
    /\ appOf \in [Conns -> Ids]
    /\ decisions \in [Conns -> Seq(Replies)]
    /\ timesUsed \in [Decision -> Nat]

\* A websocket has an entry from its upgrade until its close frame is handled.
\* handleWsMessage relies on it: it dereferences what find() returned even
\* when that is end().
OpenMeansRegistered ==
    \A c \in Conns : link[c] \in {"up", "lost"} <=> c \in DOMAIN m_registry

\* An answer of a user is handed to the feeder once: onGetReqTreat forgets it
\* in the same handler, and one press never feeds twice.
DecisionUsedOnce == \A d \in Decision : timesUsed[d] <= 1

\* The app of connection c was set up with a number that handleWsMessage reads as
\* d: the very number d if it has at most 7 digits (the longer ones are the
\* subject of RegisteredAsSent).
SetUpFor(c, d) == appOf[c] # Unparsable /\ AuthId(appOf[c]) = d

\* What onGetReqTreat returns was really decided so by the user of an app whose
\* number, as far as handleWsMessage reads it, is the device that asks.
AnswerWasDecided ==
    response.body \in {REPLY_ALLOW, REPLY_DENY} =>
        LET c == response.from[1]
            k == response.from[2]
        IN  /\ c \in Conns
            /\ k \in 1..Len(decisions[c])
            /\ decisions[c][k] = response.body
            /\ SetUpFor(c, response.dev)

\* onPostReqTreat reaches every app that is there, whose subscription has arrived
\* and whose number, as far as it is read, is the device; and no app with
\* another number or whose connection was closed.
Subscribed(c) == link[c] = "up" /\ \A i \in 1..Len(wire[c]) : wire[c][i][1] # "auth"
PostReachesItsApps ==
    [][ response' # response /\ response'.route = "post" /\ response'.dev \in Devices =>
          LET mine == {c \in Conns : SetUpFor(c, response'.dev)}
          IN  /\ {c \in mine : Subscribed(c)} \subseteq response'.targets
              /\ response'.targets \subseteq {c \in mine : link[c] \in {"up", "lost"}} ]_vars

\* The comment in handleWsMessage: "auth" changes the connection's fg_id "to the
\* number specified after '_' sign", that is, to the app's number.
RegisteredAsSent ==
    \A c \in DOMAIN m_registry :
        m_registry[c].fg_id # NoDevice => m_registry[c].fg_id = Value(appOf[c])
=============================================================================
