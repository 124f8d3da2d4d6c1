# Foodgiver: TLA+ models, model checking and proofs

Foodgiver is a pet feeder in three programs: a controller on a Raspberry Pi
(`RPI/SystemController`, C++, on the small threading library `inc/OSApiStudent`),
a web server (`WEBSERVER/serverWorkspace/ServerSrc`, C++, restinio) and an Android
app (`MOBILEAPP`, Kotlin); a Linux driver for a push button (`buttonDriver`) stands
beside them. This directory models them in TLA+. Every definition that stands for code is
listed with its source lines in `PROJECT.json` under `map`.

## 1. Inventory

| component | state it keeps | operations | talks to | what makes it correct |
|---|---|---|---|---|
| osapi `BasicMsgQueue` | deque, mutex, two condition variables | `send`, `receive`, `size` | every thread of the controller, timers, log | bounded, FIFO, nothing lost, nobody sleeps beside work |
| osapi `Mutex`, `Conditional`, `ScopedLock` | pthread objects | lock, unlock, wait, waitTimed, signal, broadcast | queue, completion, timer | used correctly under spurious wake-ups |
| osapi `Thread`, `ThreadFunctor`, `Completion` | `attached_`, `tf_`, `done_` | start, join, detach, `threadMapper`, wait, signal | all threads | the functor outlives its thread; join returns |
| osapi `Timer`, `TimerId` | container of armed timers, cancelled flag | arm, reArm, disArm, timer thread | queues | a cancelled timer does not fire; no deadlock with the queue's reader |
| osapi `Time` | seconds, milliseconds | arithmetic | timer, log | normalised, agrees with integer arithmetic |
| osapi `LogSystem` | queue of 100, level, output | log, setLevel, setOutput, terminate | log thread | messages in order, ends cleanly |
| `SystemManager` | settings struct, three threads | start threads, wait for feeding time, watch the settings file | CommandController | every feeding time becomes one command |
| `CommandController` | command queue (10) | requestTreat, getTreatRequestAnswer, dispatchCommand, handleCommand | WebComm, PsocComm | every command goes out once |
| `WebComm` | thread pool | POST, polling thread, deleteThread | web server, command queue | a treat exactly when the user allows it |
| `PsocComm`, `RPIUart` | latest command, file descriptor | sendCommand, transmitBytes, listener thread (never started) | UART | reports what it did |
| web server `FgHandler` | registry: connection -> (device id, websocket, reply) | upgrade, text message, close frame, GET check, GET/POST req_treat | app by websocket, feeder by HTTP | a decision reaches its own device once |
| app `WebSocketManager` | connected, client, treatRequestReceived, fg_id, reply | connect, onOpen/onMessage/onClose, sendAck/sendNack | web server | the user's answer is sent on a live connection |
| app screens and files | `config.txt`, `auth.txt`, current screen | button handlers, onResume | WebSocketManager | set up once, a waiting request is shown |
| button driver | gpio, chrdev, class, cdev | init, exit, probe, remove, read, write | kernel | every failure path releases what was taken |

What is hard to test here: the interleavings of the queue's statements and of the four
controller threads; an object freed by one thread while another still runs in it; clients
that vanish without closing; several connections for one device; a queue at its limit while
its only reader is blocked; timers that expire while they are cancelled; a process that dies
between two writes, or whose fields are lost while its screens are restored. `PROJECT.json` lists these hazards line by line, with the
properties that cover them and the ones that no property covers yet.

## 2. Modules

- `BoundedFifo` - what the message queue promises: an indivisible append while there is room,
  an indivisible removal of the oldest item.
- `MsgQueue` - the implementation. `queue_`, `mut_`, `reader_`, `writer_` are the members of
  `BasicMsgQueue`; one action is one statement of `send()` or `receive()` (`SendLock`,
  `SendWait`, `SendWake`, `SendPush`, `SendUnlock`, `SendSignal`, and the same for receive). `Conditional::wait`
  releases the mutex and joins the wait set in one step and may end without a signal
  (`Spurious`). `delivered` is a history variable; item `<<p, k>>` is the k-th item of producer p.
- `OsTime` - the arithmetic of `osapi::Time` (seconds and milliseconds, C's division, borrow and
  carry) as operators. No state of its own: `Timer` computes with it.
- `Timer` - `TimerId` and the timer thread. The members keep their names (`armedTime_`, `m_`,
  `canceled_`, `containerPos_`, `container_`). `arm`, `reArm` and `disArm` are split at their
  critical sections, and the thread at every point where it gives up or takes the mutex:
  `WaitForTimer`, `WaitForDeadline`, `Relock`, `Expire`, `SendTimerMsg` (which waits for room in the
  owner's queue with both mutexes held), `EraseExpired`. The message of `arm` and `reArm` is optional, as in
  `Timer.hpp:13-14`: a timer armed without one posts NULL. The owner is one thread that
  calls the timers and reads the queue (`Receive`, external). Two things are assumed of it, since `arm` tests neither: it arms an
  idle timer only, and, as two NULL messages of a timer cannot be told apart, it arms without a message only when none of that timer's is
  still queued (`MayGive`).
- `ThreadLifecycle` - `Thread`, `ThreadFunctor` and `Completion`: one thread, several joiners, a client
  that starts, detaches, destroys, and frees the functor after a join. One action is one
  statement of `Completion::wait` and `signal`. A second start, and a start after detach, are
  admitted with what they lead to.
- `FoodgiverServer` - registry and handlers. restinio runs on one thread
  (`on_this_thread`), so a handler is one action. The environment: apps connect (and subscribe,
  as `onOpen` does), answer, vanish (`ClientLost`: a prefix of their messages arrives, the
  server is not told) and close. `OnCloseFrame` also covers restinio's own close
  message for a broken connection. An answer may carry any id, because the app's `fg_id` can
  change after the connection subscribed; an id that `std::stoi` rejects throws before anything
  is changed. An app's number is a sequence of digits, as its input field gives it, of any length. `handleWsMessage`
  computes the end of the number from its place in the message: `substr(pos, pos + 2)` reads 7 characters of it in `auth_`, 12
  or 13 in an answer (`Chars`), and `std::stoi` throws above `IntMax` (`Parses`). The HTTP routes read `:dev_id` in full.
- `SystemController` - the four threads around the command queue, with the UART. The queue is
  used as the bounded FIFO that `MsgQueueProofs` shows it to be. The web thread's functor
  has a state (`live`, `freed`): the main thread frees it when it handles the thread's own
  `(9, id)` message, usually before the thread has ended. Touching or deleting the freed object is undefined; both outcomes
  are admitted, a crash of the process and no effect at all.
- `FoodgiverSystem` - the composition: it extends `FoodgiverServer` (server and phones) with the
  feeder's side of a treat request, from the POST to the treat command. `TreatCommand` is the command that
  `WebComm` makes of a fetched word: TD for "allow" and TA for everything else. A call may fail before the
  server saw it or after; the controller may be restarted.
- `FeedingTime` - how the TimeThread meets the feeding minute: the look at the wall clock, the sleeps
  of 30 s and 60 s (which go by elapsed time and end late), the wait for room in the queue,
  midnight, restarts of the program and settings of the clock. Time is in slots of which a minute has 6.
- `MobileApp` - `WebSocketManager`, the screens and the two files. The UI thread and the threads of the
  websocket clients share fields without a lock, so a handler is split where another thread can
  make a difference (the two orders of "send" and "clear the flag" in `Deny` and `Allow`, the blocking connect,
  the navigation from the client thread). Showing the notification may throw (`Utils.kt:50`), and then the flag is all that is
  left of the request; pressing it starts a second `MainActivity` on top. Android may kill the process anywhere; fields
  go, files stay, screens may come back. `request` is a history variable: a request that nobody has answered is "waiting", or
  "crossed" if it arrived between the sending of a denial and the clearing of the flag.
- `MsgQueueProofs`, `TimerProofs`, `ThreadLifecycleProofs`, `FoodgiverServerProofs`, `FoodgiverSystemProofs`,
  `SystemControllerProofs`, `FeedingTimeProofs`, `MobileAppProofs` - the theorems about the module each is named after (section 5).
- `MC...` - the instances for TLC. Definitions under a comment that begins with "Mutant" are
  deliberate bugs that show that a property can fail.

## 3. Runs

| run | result | what it shows |
|---|---|---|
| `msgqueue` | passes | 2 senders, 2 receivers, `maxSize` 2, 2 sends per sender, a spurious wake-up per thread: refines `BoundedFifo`, exactly once and in order, no lost wake-up on either side, no deadlock, every send returns, every item is received |
| `timer` | passes | 2 timers, 2 armings with a message or without, timeouts below and at a second's carry, queue of 1: container and timers agree, one owner per message, exact deadlines, an arming posts once, not early, and not after `disArm` has returned; what it posts is what it was given, or NULL while it is being disarmed, never the deleted pointer; armed timers fire and calls return, unless both threads wait for each other over the full queue |
| `threads` | passes | 3 joiners: join returns, only after `run()`, and the functor is free of the thread then |
| `controller` | passes | queue of 2, 3 polls, 2 feedings, a settings write: feedings and treat commands conserved, deletion only after the treat command, no deadlock; every feeding reaches the UART and the web thread ends, or the process has crashed |
| `controller_treat` | violation | TA ("Dispense treat") goes out for a failed request, "deny" and "no reply yet", and TD for "allow" |
| `feeding_time` | passes | every start time, two midnights, two faults a day: one meal a day, one more at most per restart or step back of the clock; none missed on an undisturbed day |
| `server_safety` | passes | 2 devices, 2 connections, 2 decisions each, numbers of 3 and of 9 digits: registry and connections agree, decisions are used once, requests reach every subscribed app and answers come from one, of the device that the server reads in the app's number |
| `server_auth_number` | violation | an app set up with 123456789 is registered for device 1234567 (`FoodgiverServer.cpp:111`: "the number specified after '_' sign") |
| `system_safety` | passes | feeder, server and 2 phones, a failed call, a restart: one press causes one command at most, and that is the command `WebComm` makes of the word that was pressed on an app of this feeder |
| `server_relay` | violation | an answer confirmed with "relaying msg to device" is never fetched: the feeder stops asking after its first successful poll |
| `app` | passes | 2 clients, 2 requests, 2 setups, a death of the process: set up means a number is saved, no subscription with null, extra clients come from timed-out attempts, a shown choice was sent, a waiting request stays flagged whatever throws in the client thread |
| `app_flag` | violation | a request that arrives while a denial is under way is taken for answered (`WebSocketManager.kt:89` says the flag tells) |

**Bounds.** The constants named `Max...` cap what the environment may do; they are large enough for a
full queue with several waiters on each side, a stolen wake-up, an answer that overwrites another, two connections of
one device and of different devices, a second and third poll after the functor was freed, a re-armed timer behind a full queue, a
client that opens while its successor is connecting, and a request between the two halves of an answer.
`QueueSize` (10 in the code), `PollLimit` (7), `Second` (1000), `IntMax` (2^31 - 1) and the slots of `FeedingTime` are constants so that the queue
really fills, the loop's end is reached, carries happen and a number is too large for `std::stoi`. The instances are small because the
safety properties are proved for every value of the constants; TLC's part is liveness, deadlock, the mutants, and a first look at every invariant.

**Deadlock** is checked in `msgqueue`, `server_safety`, `server_auth_number` and the `controller` runs, where the specification names the states in which
the system rests (all input used up, receivers asleep). It is off where the system may stop: clock and armings at
their bound (`timer`, `feeding_time`), all joins over (`threads`), a user who does nothing (`app`, `app_flag`), a feeder whose request is over (`system_safety`, `server_relay`).
There the liveness properties judge where it rests.

**Fairness.** Weak fairness of each thread: the kernel keeps running a thread that can run. None of
spurious wake-ups, settings writes, crashes or user actions that nothing depends on.

- `MsgQueue`: a blocked sender needs no strong fairness because the competing senders are bounded; with
  endless traffic and unfair mutexes a sender could starve.
- `SystemController`: fairness of the main thread includes that the POST of `requestTreat` ends: the client sets no time limit,
  the server closes a request after one second (`handle_request_timeout`), so a hung network is the case this leaves out.
- `Timer`: the clock runs, and the owner reads its queue again and again between its calls (strong fairness of `Receive`): that is what an event
  loop does.
- `ThreadLifecycle`: strong fairness of taking the mutex, which spurious wake-ups compete for.
- `FoodgiverSystem`: the controller runs, and what a connected phone sent is handled.
- `MobileApp` has none and no liveness property: whether a request is ever seen is up to the user.

## 4. Findings

Four statements of the repository that the code contradicts are violation runs (quoted in
`PROJECT.json`): the number an app is registered with, the relayed answer, the treat command, the flag of an unanswered request.
The freed functor has no sentence in the repository to hold against it; the models show that
it is freed under a running thread in ordinary schedules (every one in which the main thread
handles `(9, id)` within the ten seconds the thread still sleeps), and `DeletedAfterTreat`
says what does hold.

Met while modelling, in the models, and without a run of their own:

- `FoodgiverServer.cpp:91`: the test for "not found" is inside the loop over the registry. The POST response says nothing when the registry is
  empty, and says "No mobile app with this id found" when another device's entry comes before the one that was sent the request; the comment
  at line 76 promises the text exactly when there is no app (`OnPostReqTreat`).
- `RPIUart.cpp:41`: with a port that did not open, `transmitBytes` writes nothing and returns 0, and `PsocComm.cpp:83` prints
  "Bytes transmitted." (`TransmitBytes`).
- `Timer.cpp:220` announces a test that a timeout is "still legit", but `canceled_` is never read: a timer that expires
  between the two critical sections of `disArm` posts NULL, also when it was given a message (`PostsWhatWasGiven` says how far this
  goes). An owner that arms without messages cannot tell that one from an expiry.
- `Timer.cpp:138`: the timer thread posts with both mutexes held. With a full queue it and an owner in
  `arm` or `disArm` wait for each other (`Stuck`).
- `linux/Thread.cpp:50`: `start()` after `detach()` runs a NULL functor; a second start finds `done_` set, and join waits for nothing.
- `Utils.kt:50`: the `PendingIntent` has no mutability flag and `targetSdk` is 32, so on Android 12 and later its creation throws
  in the client thread, before the notification and the navigation. What is left is the flag (`RequestStaysFlagged`), seen at the next resume.
- `WebSocketManager.kt:109`: after a death of the process the restored request screen has no client; the choice is shown and not sent.
- `WebSocketManager.kt:104`: the late open of a timed-out client sets the flag for its successor.
- `AuthFragment.kt:57`: changing the number truncates `config.txt` while `auth.txt` still says "true".
- `FoodgiverServer.cpp:55`: only the oldest connection of a device is asked for the answer.

## 5. Proofs

`MsgQueueProofs` proves, for any finite disjoint sets of senders and receivers, any
`maxSize > 0` and any bounds:

- `TypeCorrect`: `Spec => []TypeOK`. `TypeOK` is not inductive: that a push stays within `maxSize` and
  that a thread's budget is kept depend on what was tested under the mutex. `TypeInv` adds
  `LockInv` (a thread is at a statement of the critical section exactly when it holds the mutex) and
  the budget test made when the call began.
- `Refinement`: `Spec => RefinesFifo`. The push maps to `Put`, the pop to `Take`, everything
  else to a stutter; `TypeInv` gives the room `Put` asks for.
- `NothingLost`: `Spec => []ExactlyOnceInOrder`, over the sequence delivered-then-queued, which a
  pop leaves unchanged (`LogPop`) and a push extends by the producer's next item (`LogPush`).
- `NoLostItemWakeup`, `NoLostRoomWakeup`: the two counting invariants. Signals under way plus threads
  awake are at least the items (the free slots) while somebody sleeps; each is inductive with
  `TypeInv`, one case per action, by the cardinality of a set plus or minus one element.

`TimerProofs`, for any set of timers, any queue size, any positive timeouts and a second of any length:

- The arithmetic of `osapi::Time`, as lemmas: `CurrentTimeExact`, `PlusMsecExact` (carry), `LessExact`,
  `MinusExact` (borrow, also for negative differences), each against the number a `Time` stands for. They rest on
  `DivMod` and `DivUnique`, what a quotient and a remainder are.
- `BeginIsFirst`: a container that is not empty has a first entry and none is due before it
  (from `NatMinimum`, the well-foundedness of `<` on the naturals).
- `TimerInv`, from which all seven safety properties follow (`TimerTypeCorrect`, `NoStrayEntry`,
  `NoMessageDeletedTwice`, `TimeArithmeticExact`, `PostsOnceAndInTime`, `NothingAfterDisArm`, `PostsAreWhatWasGiven`). Its
  core is `EntryInv`: a timer in the container is armed, has not fired, and has the time and the message (or the NULL) of its last
  arming, unless a `disArm` has deleted the message and has yet to erase the entry, or the thread has posted and has yet to erase it. The second
  exception is the delicate one: the owner may receive the message and arm the timer again at that moment;
  only the container's mutex, which the thread still holds, keeps the new entry out until the old one is gone. `MessageInv` and
  `QueueInv` add that a timer never holds a message that was posted and that the queue has nothing an armed timer has yet to post,
  `CallInv` what a call has done between its two critical sections, `PostInv` that what is being posted is due.

`ThreadLifecycleProofs`, for any joiners: `TypeCorrect`, `FreeingIsSafe`, `JoinWaits`. The invariant adds `LockInv` (who is inside
holds the mutex), `FreshInv` (nothing happens before the first start) and `FirstRunInv`: `done_` is seen under the mutex,
so whoever saw it finds the thread past its critical section. The assumption `JoinersAssumption` only keeps the names apart.

`FoodgiverServerProofs`, for any device numbers, any app numbers of any length and any number of connections and decisions: `ServerTypeCorrect`,
`RegistryFollowsConnections`, `OneFetchPerDecision`, `AnswersAreDecisions` and the action property `PostGoesToItsApps`.
`ServerInv` adds `SubscriptionInv` (a connection subscribes with its first message, and its entry never has a number but its
app's), `BudgetInv` (answers made and under way stay within the bound) and `StoredInv` (a stored answer is the last decision of its
connection and nobody has fetched it, nor any decision still to be made): a fetch removes the answer, and the next one has the next number. The last two theorems speak of an app's number as far as it is read (`SetUpFor`);
the lemma `ShortNumbersReadInFull` says that up to 7 digits that is the number itself, and `RegisteredAsSent` is violated by a longer one.

`FoodgiverSystemProofs` extends them to the composition: `OnePressOneTreat` and `TreatsKeepTheWord`. The server's
steps are those of `FoodgiverServer`, so `ServerInv` is taken over; `CommandsCovered` says that a decision has no
more commands than fetches, and that the one in the web thread's hand was fetched once and has had none; a failed call or a restart can only lose it.
`AnswerKeepsWord` says that the word in its hand is the decision's, so the command made of it is that of the word that was pressed.

`SystemControllerProofs`, for any queue size, loop length and number of feedings: `ControllerTypeCorrect`, `MealsConserved`,
`TreatCommandsConserved`, `ThreadDeletedAfterTreat`. The two balances are counts of messages in a sequence; `CountAppend`
and `CountTail` give the cardinality of the matching positions after a send and a receive. `DeletesFollowTreats` is the order in
the queue: a `(9, id)` that is queued or handled has a treat command before it, in the queue or at the UART.

`FeedingTimeProofs`, for any slots: `NoSecondMeal` and the action property `EveryDayAMeal`. `MealsEaten` says that once the day has
had its meals the thread is past the feeding minute when it looks again; `MealAhead` says of a day on which nothing went wrong and no meal was had that the next look
comes before the minute is over, late as it may be. The assumptions are those of the code's numbers: a look and its lateness fit
into a minute (30 s + at most 30 s), and twice the lateness lies between midnight and the feeding time (12:42,
`SystemManager.cpp:35`). The second came out of the proof: with a feeding time just after midnight, a sleep
that began the day before and ended late can step over the minute, and TLC shows it.

`MobileAppProofs`, for any numbers, clients, requests and deaths of the process: `SetUpHasNumber`, `SubscribesWithANumber`,
`ClientsBounded`, `WaitingRequestIsFlagged`, `ShownChoiceWasSent`. `AppInv` adds where the UI thread is between the two files (`FilesInv`), that
the manager has a number wherever a connection is being made (`NumberInv`), that a new client is due only when the clients are no
more than the time-outs (`ExtrasInv`), that before the first death a request comes from a client (`AnswerInv`), and that no request waits while a
denial has yet to clear the flag (`RequestInv`): one that arrives then is "crossed", the case of the run `app_flag`.

TLC checks each of these inductive invariants on the instance of the module's run, too, with no violation. All safety
invariants and action properties of the passing runs are theorems now.

Only model-checked: the liveness properties (`EverySendReturns`, `EveryItemReceived`, `FeedingReachesUart`, `WebThreadEnds`,
`ArmedTimerFires`, `EveryCallReturns`, `EveryJoinReturns`), which are out of the prover's reach, absence of deadlock, and
the four violations. No module has a RECURSIVE operator. The proofs use the modules' assumptions on their constants
and nothing else.

## 6. Not modelled

- Vendored code: restinio, asio, fmt, rapidjson, json_dto, http-parser, the HTTP client `HTTPRequest.hpp`. It is nearly all of the
  repository's lines (some 230,000 of 235,000); the project's own code is about 5,400 lines with its tests, and the models
  rest on how it uses the libraries: one thread, handlers that run to their end, calls that return a body or throw.
- The Windows port of osapi, which is not built for the feeder; the semaphore, a wrapper of one
  system call each that nothing uses; `LogSystem`, which only its own test uses; the button driver, which no program opens.
- `setupCommunicationModules` is never called, so the PSoC listener thread (`PsocComm`, `readBytes`) does not exist in the
  running program. `BasicMsgQueue::size` has no caller.
- Texts, logging, menus, the notification channel, the byte frame of a UART command.
- Errors of pthread calls, `pthread_create` failing, the end of the process in osapi (`~Timer`, `~BasicMsgQueue`).
- Overflow of `totalMSecs` at 2^31 ms: only timeouts are converted, and the timer's bounds stay below it.
- `PSOC/`, `PC/` and `RPI/SettingsController/` hold no code of their own.

## 7. Plan

Done: the models, the runs, and theorems for every safety property that a run checks. Left:

1. Abstract specifications for two more components, with their refinement: a timer service that posts each arming once,
   between its time and its disarming, implemented by `Timer`; a mailbox per device, implemented by `FoodgiverServer`.
2. `SystemController` uses the queue as an indivisible FIFO; state its sends and receives as steps of `BoundedFifo`, so that
   `Refinement` of `MsgQueueProofs` connects the two.
3. The enabledness part of deadlock freedom (`Stuck` is the only state in which both of `Timer`'s threads wait) as an invariant.
