------------------------- MODULE RadioBridgeProofs -------------------------
(***************************************************************************)
(* Proofs about the radio bridge, for any number of instances of the       *)
(* service, binder threads, server restarts and calls.                     *)
(***************************************************************************)
EXTENDS RadioBridge, TLAPS

LEMMA TypeInit == Init => TypeOK
  BY BoundsAssumption DEF Init, TypeOK, Gens, Dead, MainState, MainIdle,
     ThreadState, ThreadIdle, Indication, NoIndication, None

LEMMA PostType ==
    ASSUME TypeOK, NEW i \in Instances, post(i)
    PROVE  queued' \in [Instances -> Nat] /\ queued'[i] > 0
  BY DEF TypeOK, post

LEMMA RemoveType ==
    ASSUME TypeOK, NEW i \in Instances, removeCallbacks(i)
    PROVE  queued' \in [Instances -> Nat]
  BY DEF TypeOK, removeCallbacks

(* linkToDeath counts at most one more link, of one instance.               *)
LEMMA LinkAdded ==
    ASSUME TypeOK, LinksHold, linkToDeath
    PROVE  /\ links' \in [Instances -> [Gens -> Nat]]
           /\ \A j \in Instances, h \in Gens : links'[j][h] >= links[j][h]
<1> DEFINE i == main.inst
           g == main.gen
<1>1. i \in Instances /\ g \in Gens /\ links \in [Instances -> [Gens -> Nat]]
  BY BoundsAssumption, SMTT(30) DEF linkToDeath, LinksHold, TypeOK, Gens, Dead
<1>2. links[i] \in [Gens -> Nat] /\ links[i][g] \in Nat
  BY <1>1
<1>3. [links[i] EXCEPT ![g] = @ + 1] \in [Gens -> Nat]
  BY <1>1, <1>2
<1>4. CASE links' = [links EXCEPT ![i] = [links[i] EXCEPT ![g] = @ + 1]]
  <2>1. links' \in [Instances -> [Gens -> Nat]]
    BY <1>1, <1>3, <1>4
  <2>2. ASSUME NEW j \in Instances, NEW h \in Gens PROVE links'[j][h] >= links[j][h]
    <3>1. links[j] \in [Gens -> Nat] /\ links[j][h] \in Nat
      BY <1>1
    <3>2. CASE j # i
      BY <1>1, <1>4, <3>1, <3>2
    <3>3. CASE j = i
      <4>1. links'[j] = [links[i] EXCEPT ![g] = @ + 1]
        BY <1>1, <1>4, <3>3
      <4>2. links'[j][h] = links[j][h] \/ links'[j][h] = links[j][h] + 1
        BY <1>1, <1>2, <3>3, <4>1
      <4>3. QED
        BY <3>1, <4>2
    <3>4. QED
      BY <3>2, <3>3
  <2>3. QED
    BY <2>1, <2>2
<1>5. CASE links' = links
  <2>1. ASSUME NEW j \in Instances, NEW h \in Gens PROVE links[j][h] \in Nat
    BY <1>1
  <2>2. QED
    BY <1>1, <1>5, <2>1
<1>6. QED
  BY <1>4, <1>5 DEF linkToDeath

(* What the two kinds of threads become.                                    *)
LEMMA ThreadTypes ==
    /\ MainIdle \in MainState
    /\ ThreadIdle \in ThreadState
    /\ \A i \in Instances : [ThreadIdle EXCEPT !.pc = "post", !.inst = i] \in ThreadState
    /\ \A s \in ThreadState : [s EXCEPT !.pc = "post"] \in ThreadState
    /\ \A s \in ThreadState, n \in Nat :
          [s EXCEPT !.pc = "answer", !.serial = n] \in ThreadState
    /\ \A i \in Instances, g \in Gens, h \in Gens \cup {Dead}, good \in BOOLEAN :
          [pc |-> "parse", inst |-> i, gen |-> g, radio |-> h, good |-> good, serial |-> 0]
             \in ThreadState
  BY DEF MainIdle, MainState, ThreadIdle, ThreadState, Dead, None

LEMMA TypeStep == TypeOK /\ LinksHold /\ [Next]_vars => TypeOK'
<1> SUFFICES ASSUME TypeOK, LinksHold, [Next]_vars PROVE TypeOK'
  OBVIOUS
<1> USE BoundsAssumption DEF TypeOK, Gens, Dead
<1>1. ASSUME NEW i \in Instances, onCreate(i) PROVE TypeOK'
  BY <1>1, PostType DEF onCreate, server, bounds
<1>2. ASSUME NEW i \in Instances, onStartCommand(i) PROVE TypeOK'
  <2>1. queued' \in [Instances -> Nat]
    BY <1>2, PostType DEF onStartCommand
  <2>2. QED
    <3>1. starts' \in Nat
      BY <1>2 DEF onStartCommand
    <3>2. UNCHANGED <<life, mRadio, mSerial, main, thread, server, notices, calls, faults,
                      answered>>
      BY <1>2 DEF onStartCommand
    <3>3. QED
      BY <2>1, <3>1, <3>2 DEF server
<1>3. ASSUME NEW i \in Instances, onDestroy(i) PROVE TypeOK'
  BY <1>3, RemoveType DEF onDestroy, server, bounds
<1>4. ASSUME NEW i \in Instances, ConnectRuns(i) PROVE TypeOK'
  BY <1>4, RemoveType DEF ConnectRuns, server, bounds, MainState
<1>5. CASE getService
  BY <1>5 DEF getService, service, server, bounds, MainState
<1>6. CASE linkToDeath
  <2>1. links' \in [Instances -> [Gens -> Nat]]
    BY <1>6, LinkAdded
  <2>2. QED
    BY <1>6, <2>1 DEF linkToDeath, service, bounds, MainState
<1>7. CASE setResponseFunctionsMtk
  BY <1>7 DEF setResponseFunctionsMtk, bounds, MainState, MainIdle, Indication, LinksHold
<1>8. CASE ConnectFails
  <2>1. main.pc # "idle" /\ faults' \in Nat
    BY <1>8 DEF ConnectFails, RemoteCallFails
  <2>2. main.inst \in Instances /\ [main EXCEPT !.pc = "post"] \in MainState
    BY <2>1 DEF LinksHold, MainState
  <2>3. QED
    BY <1>8, <2>1, <2>2, RemoveType DEF ConnectFails, server
<1>9. CASE ConnectReschedules
  BY <1>9, PostType, ThreadTypes DEF ConnectReschedules, server, bounds, LinksHold
<1>10. ASSUME NEW t \in Threads, NEW i \in Instances, DeathNotice(t, i) PROVE TypeOK'
  <2>1. notices' \in [Instances -> Nat]
    BY <1>10, SMTT(30) DEF DeathNotice
  <2>2. QED
    BY <1>10, <2>1, RemoveType, ThreadTypes DEF DeathNotice, server, bounds
<1>11. ASSUME NEW t \in Threads, Reschedules(t) PROVE TypeOK'
  BY <1>11, PostType, ThreadTypes DEF Reschedules, server, bounds, LinksHold
<1>12. ASSUME NEW t \in Threads, NEW good \in BOOLEAN, incomingCallIndication(t, good)
       PROVE TypeOK'
  <2>1. cb.inst \in Instances /\ cb.radio \in Gens \cup {Dead} /\ up \in Gens
    BY <1>12 DEF incomingCallIndication, Indication
  <2>2. thread' \in [Threads -> ThreadState]
    BY <1>12, <2>1, ThreadTypes DEF incomingCallIndication
  <2>3. calls' \in Nat
    BY <1>12 DEF incomingCallIndication
  <2>4. UNCHANGED <<service, main, server, notices, starts, faults, answered>>
    BY <1>12 DEF incomingCallIndication
  <2>5. QED
    BY <2>2, <2>3, <2>4 DEF service, server
<1>13. ASSUME NEW t \in Threads, CallParsed(t) PROVE TypeOK'
  <2>1. thread[t].inst \in Instances
    BY <1>13 DEF CallParsed, LinksHold
  <2>2. thread' \in [Threads -> ThreadState] /\ mSerial' \in [Instances -> Nat]
    <3>1. mSerial[thread[t].inst] + 1 \in Nat
      BY <2>1
    <3>2. mSerial' \in [Instances -> Nat]
      BY <1>13, <2>1, <3>1 DEF CallParsed
    <3>3. CASE ~thread[t].good
      BY <1>13, <3>2, <3>3, ThreadTypes DEF CallParsed
    <3>4. CASE thread[t].good
      <4>1. [thread[t] EXCEPT !.pc = "answer", !.serial = mSerial[thread[t].inst] + 1]
               \in ThreadState
        BY <3>1, ThreadTypes
      <4>2. thread' = [thread EXCEPT ![t] =
               [thread[t] EXCEPT !.pc = "answer", !.serial = mSerial[thread[t].inst] + 1]]
        BY <1>13, <3>4 DEF CallParsed, ThreadState
      <4>3. QED
        BY <3>2, <4>1, <4>2
    <3>5. QED
      BY <3>3, <3>4
  <2>3. QED
    BY <1>13, <2>2 DEF CallParsed, server, bounds
<1>14. ASSUME NEW t \in Threads, setCallIndication(t) PROVE TypeOK'
  <2>1. answered' \subseteq Answer
    BY <1>14 DEF setCallIndication, Answer, LinksHold, ThreadState
  <2>2. QED
    BY <1>14, <2>1, ThreadTypes DEF setCallIndication, service, server, bounds
<1>15. ASSUME NEW t \in Threads, CallFails(t) PROVE TypeOK'
  <2>1. faults' \in Nat
    BY <1>15 DEF CallFails
  <2>2. QED
    BY <1>15, <2>1, RemoveType, ThreadTypes DEF CallFails, server, LinksHold
<1>16. CASE ServerStarts
  BY <1>16 DEF ServerStarts, service, bounds
<1>17. CASE ServerDies
  <2>1. notices' \in [Instances -> Nat] /\ links' \in [Instances -> [Gens -> Nat]]
    <3>1. up \in Gens
      BY <1>17 DEF ServerDies
    <3>2. \A i \in Instances : notices[i] + links[i][up] \in Nat
      BY <3>1, SMTT(30)
    <3>3. \A i \in Instances : [links[i] EXCEPT ![up] = 0] \in [Gens -> Nat]
      BY <3>1
    <3>4. QED
      BY <1>17, <3>2, <3>3 DEF ServerDies
  <2>2. QED
    BY <1>17, <2>1 DEF ServerDies, service, bounds, Indication, NoIndication
<1>18. CASE UNCHANGED vars
  BY <1>18 DEF vars, service, server, bounds
<1>19. QED
  BY <1>1, <1>2, <1>3, <1>4, <1>5, <1>6, <1>7, <1>8, <1>9, <1>10, <1>11, <1>12,
     <1>13, <1>14, <1>15, <1>16, <1>17, <1>18 DEF Next, ConnectSteps

-----------------------------------------------------------------------------
LEMMA LinksStep == TypeOK /\ LinksHold /\ [Next]_vars => LinksHold'
<1> SUFFICES ASSUME TypeOK, LinksHold, [Next]_vars PROVE LinksHold'
  OBVIOUS
<1> USE BoundsAssumption DEF TypeOK, Gens, Dead, LinksHold
<1>1. ASSUME NEW i \in Instances, onCreate(i) PROVE LinksHold'
  BY <1>1 DEF onCreate, server
<1>2. ASSUME NEW i \in Instances, onStartCommand(i) PROVE LinksHold'
  BY <1>2 DEF onStartCommand, server
<1>3. ASSUME NEW i \in Instances, onDestroy(i) PROVE LinksHold'
  BY <1>3 DEF onDestroy, server
<1>4. ASSUME NEW i \in Instances, ConnectRuns(i) PROVE LinksHold'
  BY <1>4 DEF ConnectRuns, server, MainState
<1>5. CASE getService
  BY <1>5 DEF getService, server, MainState
<1>6. CASE linkToDeath
  BY <1>6 DEF linkToDeath, MainState
<1>7. CASE setResponseFunctionsMtk
  BY <1>7 DEF setResponseFunctionsMtk, MainIdle
<1>8. CASE ConnectFails
  <2>1. main.pc # "idle"
    BY <1>8 DEF ConnectFails, RemoteCallFails
  <2>2. QED
    BY <1>8, <2>1 DEF ConnectFails, server, MainState
<1>9. CASE ConnectReschedules
  BY <1>9 DEF ConnectReschedules, server, MainIdle
<1>10. ASSUME NEW t \in Threads, NEW i \in Instances, DeathNotice(t, i) PROVE LinksHold'
  BY <1>10 DEF DeathNotice, server, ThreadIdle
<1>11. ASSUME NEW t \in Threads, Reschedules(t) PROVE LinksHold'
  BY <1>11 DEF Reschedules, server, ThreadIdle
<1>12. ASSUME NEW t \in Threads, NEW good \in BOOLEAN, incomingCallIndication(t, good)
       PROVE LinksHold'
  <2>1. cb.inst \in Instances /\ up \in Gens
    BY <1>12 DEF incomingCallIndication, Indication
  <2>2. /\ \A u \in Threads \ {t} : thread'[u] = thread[u]
        /\ thread'[t].inst = cb.inst /\ thread'[t].gen = up
    BY <1>12 DEF incomingCallIndication
  <2>3. UNCHANGED <<main, last, up, links>>
    BY <1>12 DEF incomingCallIndication, server
  <2>4. QED
    BY <2>1, <2>2, <2>3
<1>13. ASSUME NEW t \in Threads, CallParsed(t) PROVE LinksHold'
  <2>1. \A u \in Threads : thread'[u].pc # "idle" =>
          /\ thread[u].pc # "idle"
          /\ thread'[u].inst = thread[u].inst
          /\ thread'[u].gen = thread[u].gen
          /\ thread'[u].pc \in {"parse", "answer"} => thread[u].pc \in {"parse", "answer"}
    <3>1. CASE ~thread[t].good
      <4>1. thread' = [thread EXCEPT ![t] = ThreadIdle] /\ ThreadIdle.pc = "idle"
        BY <1>13, <3>1 DEF CallParsed, ThreadIdle
      <4>2. QED
        BY <4>1
    <3>2. CASE thread[t].good
      <4>1. thread' = [thread EXCEPT ![t].pc = "answer",
                                     ![t].serial = mSerial[thread[t].inst] + 1]
        BY <1>13, <3>2 DEF CallParsed
      <4>2. thread[t].pc = "parse"
        BY <1>13 DEF CallParsed
      <4>3. QED
        BY <4>1, <4>2 DEF ThreadState
    <3>3. QED
      BY <3>1, <3>2
  <2>2. QED
    BY <1>13, <2>1 DEF CallParsed, server
<1>14. ASSUME NEW t \in Threads, setCallIndication(t) PROVE LinksHold'
  BY <1>14 DEF setCallIndication, server, ThreadIdle
<1>15. ASSUME NEW t \in Threads, CallFails(t) PROVE LinksHold'
  BY <1>15 DEF CallFails, server, ThreadState
<1>16. CASE ServerStarts
  BY <1>16 DEF ServerStarts
<1>17. CASE ServerDies
  BY <1>17 DEF ServerDies
<1>18. CASE UNCHANGED vars
  BY <1>18 DEF vars, server
<1>19. QED
  BY <1>1, <1>2, <1>3, <1>4, <1>5, <1>6, <1>7, <1>8, <1>9, <1>10, <1>11, <1>12,
     <1>13, <1>14, <1>15, <1>16, <1>17, <1>18 DEF Next, ConnectSteps

-----------------------------------------------------------------------------
(* What a step may leave of NeverStranded for the instance it is about, and *)
(* that the others keep what they had.                                      *)
LEMMA StrandedStep == TypeOK /\ LinksHold /\ NeverStranded /\ [Next]_vars => NeverStranded'
<1> SUFFICES ASSUME TypeOK, LinksHold, NeverStranded, [Next]_vars,
                    NEW j \in Instances, life'[j] = "alive"
             PROVE  \/ Reconnecting(j)'
                    \/ up' # Dead /\ mRadio'[j] = up' /\ links'[j][up'] > 0
  BY DEF NeverStranded
<1> DEFINE Goal == \/ Reconnecting(j)'
                   \/ up' # Dead /\ mRadio'[j] = up' /\ links'[j][up'] > 0
<1> USE BoundsAssumption DEF TypeOK, Gens, Dead, Reconnecting
<1>1. ASSUME NEW i \in Instances, onCreate(i) PROVE Goal
  <2>1. CASE j = i
    BY <1>1, <2>1, PostType DEF onCreate
  <2>2. CASE j # i
    BY <1>1, <2>2 DEF onCreate, NeverStranded, post, server
  <2>3. QED
    BY <2>1, <2>2
<1>2. ASSUME NEW i \in Instances, onStartCommand(i) PROVE Goal
  <2>1. life[j] = "alive" /\ queued'[j] >= queued[j]
    <3>1. life[j] = "alive"
      BY <1>2 DEF onStartCommand
    <3>2. CASE post(i)
      BY <3>2, <3>1, SMTT(30) DEF post
    <3>3. CASE UNCHANGED queued
      BY <3>3, <3>1
    <3>4. QED
      BY <1>2, <3>1, <3>2, <3>3 DEF onStartCommand
  <2>2. QED
    <3>1. UNCHANGED <<mRadio, main, thread, up, links, notices>>
      BY <1>2 DEF onStartCommand, server
    <3>2. queued'[j] \in Nat /\ queued[j] \in Nat
      BY <1>2, TypeStep
    <3>3. QED
      BY <2>1, <3>1, <3>2, SMTT(30) DEF NeverStranded
<1>3. ASSUME NEW i \in Instances, onDestroy(i) PROVE Goal
  <2>1. j # i /\ life[j] = "alive"
    BY <1>3 DEF onDestroy
  <2>2. QED
    BY <1>3, <2>1 DEF onDestroy, NeverStranded, removeCallbacks, server
<1>4. ASSUME NEW i \in Instances, ConnectRuns(i) PROVE Goal
  <2>1. CASE j = i
    BY <1>4, <2>1 DEF ConnectRuns, MainState
  <2>2. CASE j # i
    BY <1>4, <2>2 DEF ConnectRuns, NeverStranded, removeCallbacks, server
  <2>3. QED
    BY <2>1, <2>2
<1>5. CASE getService
  BY <1>5 DEF getService, NeverStranded, service, server, MainState
<1>6. CASE linkToDeath
  <2>1. up # Dead => up \in Gens /\ links'[j][up] >= links[j][up]
    BY <1>6, LinkAdded
  <2>2. up # Dead => links[j][up] \in Nat /\ links'[j][up] \in Nat
    BY <1>6, <2>1, LinkAdded
  <2>3. QED
    BY <1>6, <2>1, <2>2 DEF linkToDeath, NeverStranded, service, MainState
<1>7. CASE setResponseFunctionsMtk
  <2>1. CASE j = main.inst
    BY <1>7, <2>1 DEF setResponseFunctionsMtk, LinksHold
  <2>2. CASE j # main.inst
    BY <1>7, <2>2 DEF setResponseFunctionsMtk, NeverStranded
  <2>3. QED
    BY <2>1, <2>2
<1>8. CASE ConnectFails
  <2>1. CASE j = main.inst
    BY <1>8, <2>1 DEF ConnectFails, MainState
  <2>2. CASE j # main.inst
    BY <1>8, <2>2 DEF ConnectFails, removeCallbacks, NeverStranded, server
  <2>3. QED
    BY <2>1, <2>2
<1>9. CASE ConnectReschedules
  <2>1. CASE j = main.inst
    BY <1>9, <2>1, PostType DEF ConnectReschedules
  <2>2. CASE j # main.inst
    BY <1>9, <2>2 DEF ConnectReschedules, post, NeverStranded, server
  <2>3. QED
    BY <2>1, <2>2
<1>10. ASSUME NEW t \in Threads, NEW i \in Instances, DeathNotice(t, i) PROVE Goal
  <2>1. CASE j = i
    BY <1>10, <2>1 DEF DeathNotice, ThreadIdle
  <2>2. CASE j # i
    <3>1. \A u \in Threads : thread[u].pc = "post" => thread'[u] = thread[u]
      BY <1>10 DEF DeathNotice
    <3>2. QED
      BY <1>10, <2>2, <3>1 DEF DeathNotice, removeCallbacks, NeverStranded, server
  <2>3. QED
    BY <2>1, <2>2
<1>11. ASSUME NEW t \in Threads, Reschedules(t) PROVE Goal
  <2>1. CASE j = thread[t].inst
    BY <1>11, <2>1, PostType DEF Reschedules
  <2>2. CASE j # thread[t].inst
    <3>1. \A u \in Threads : thread[u].inst = j => thread'[u] = thread[u]
      BY <1>11, <2>2 DEF Reschedules
    <3>2. QED
      BY <1>11, <2>2, <3>1 DEF Reschedules, post, NeverStranded, server
  <2>3. QED
    BY <2>1, <2>2
<1>12. ASSUME NEW t \in Threads, NEW good \in BOOLEAN, incomingCallIndication(t, good)
       PROVE  Goal
  <2>1. \A u \in Threads : thread[u].pc = "post" => thread'[u] = thread[u]
    BY <1>12 DEF incomingCallIndication
  <2>2. QED
    BY <1>12, <2>1 DEF incomingCallIndication, NeverStranded, service, server
<1>13. ASSUME NEW t \in Threads, CallParsed(t) PROVE Goal
  <2>1. \A u \in Threads : thread[u].pc = "post" => thread'[u] = thread[u]
    BY <1>13 DEF CallParsed
  <2>2. QED
    <3>1. UNCHANGED <<life, queued, mRadio, main, up, links, notices>>
      BY <1>13 DEF CallParsed, server
    <3>2. Reconnecting(j) => Reconnecting(j)'
      BY <2>1, <3>1
    <3>3. QED
      BY <3>1, <3>2 DEF NeverStranded
<1>14. ASSUME NEW t \in Threads, setCallIndication(t) PROVE Goal
  <2>1. \A u \in Threads : thread[u].pc = "post" => thread'[u] = thread[u]
    BY <1>14 DEF setCallIndication
  <2>2. QED
    BY <1>14, <2>1 DEF setCallIndication, NeverStranded, service, server
<1>15. ASSUME NEW t \in Threads, CallFails(t) PROVE Goal
  <2>1. CASE j = thread[t].inst
    BY <1>15, <2>1 DEF CallFails, ThreadState
  <2>2. CASE j # thread[t].inst
    <3>1. \A u \in Threads : thread[u].pc = "post" => thread'[u] = thread[u]
      BY <1>15 DEF CallFails
    <3>2. QED
      BY <1>15, <2>2, <3>1 DEF CallFails, removeCallbacks, NeverStranded, server
  <2>3. QED
    BY <2>1, <2>2
<1>16. CASE ServerStarts
  BY <1>16 DEF ServerStarts, NeverStranded, service
<1>17. CASE ServerDies
  <2>1. up \in Gens /\ links[j][up] \in Nat /\ notices[j] \in Nat
    BY <1>17 DEF ServerDies
  <2>2. notices'[j] = notices[j] + links[j][up]
    BY <1>17 DEF ServerDies
  <2>3. QED
    BY <1>17, <2>1, <2>2 DEF ServerDies, NeverStranded, service
<1>18. CASE UNCHANGED vars
  BY <1>18 DEF vars, service, server, NeverStranded
<1>19. QED
  BY <1>1, <1>2, <1>3, <1>4, <1>5, <1>6, <1>7, <1>8, <1>9, <1>10, <1>11, <1>12,
     <1>13, <1>14, <1>15, <1>16, <1>17, <1>18 DEF Next, ConnectSteps

(* However deaths, notices, calls and restarts of the service interleave,   *)
(* a living service is registered with the running server or is certain to  *)
(* run connect() again.                                                     *)
THEOREM ServiceNeverStranded == Spec => [](TypeOK /\ NeverStranded)
<1>1. Init => TypeOK /\ LinksHold /\ NeverStranded
  <2>1. Init => LinksHold /\ NeverStranded
    BY DEF Init, LinksHold, NeverStranded, MainIdle, ThreadIdle
  <2>2. QED
    BY <2>1, TypeInit
<1>2. TypeOK /\ LinksHold /\ NeverStranded /\ [Next]_vars
        => (TypeOK /\ LinksHold /\ NeverStranded)'
  BY TypeStep, LinksStep, StrandedStep
<1>3. QED
  BY <1>1, <1>2, PTL DEF Spec

-----------------------------------------------------------------------------
(* The invariant that makes the serial numbers distinct inductively.        *)
SerialsInv == TypeOK /\ LinksHold /\ SerialsTaken /\ SerialsDistinct

(* A step that gives no thread a call to answer, and changes neither the    *)
(* serial counters nor the answers, keeps the serial numbers distinct.      *)
LEMMA SerialsKept ==
    ASSUME SerialsTaken, SerialsDistinct, UNCHANGED <<mSerial, answered>>,
           \A t \in Threads : thread'[t].pc = "answer" => thread'[t] = thread[t]
    PROVE  SerialsTaken' /\ SerialsDistinct'
  BY DEF SerialsTaken, SerialsDistinct

LEMMA SerialsStep == SerialsInv /\ [Next]_vars => SerialsTaken' /\ SerialsDistinct'
<1> SUFFICES ASSUME SerialsInv, [Next]_vars PROVE SerialsTaken' /\ SerialsDistinct'
  OBVIOUS
<1> USE DEF SerialsInv
<1>1. ASSUME NEW t \in Threads, CallParsed(t) PROVE SerialsTaken' /\ SerialsDistinct'
  <2>1. CASE ~thread[t].good
    BY <1>1, <2>1, SerialsKept DEF CallParsed, TypeOK, ThreadIdle
  <2>2. CASE thread[t].good
    <3> DEFINE i == thread[t].inst
               n == mSerial[i] + 1
    <3>1. i \in Instances /\ mSerial[i] \in Nat
      BY <1>1 DEF CallParsed, LinksHold, TypeOK
    <3>2. mSerial' = [mSerial EXCEPT ![i] = n] /\ UNCHANGED answered
      BY <1>1, <2>2 DEF CallParsed
    <3>3. /\ thread'[t].inst = i /\ thread'[t].serial = n
          /\ \A u \in Threads \ {t} : thread'[u] = thread[u]
      BY <1>1, <2>2 DEF CallParsed, TypeOK, ThreadState
    <3>4. \A j \in Instances : mSerial[j] \in Nat /\ mSerial'[j] >= mSerial[j]
      BY <3>1, <3>2 DEF TypeOK
    <3>5. mSerial'[i] = n
      BY <3>1, <3>2 DEF TypeOK
    <3>6. \A u \in Threads : thread[u].pc = "answer" =>
             thread[u].inst \in Instances /\ thread[u].serial \in Nat
      BY DEF LinksHold, TypeOK, ThreadState
    <3>7. \A a \in answered : a.inst \in Instances /\ a.serial \in Nat
      BY DEF TypeOK, Answer
    <3>8. ASSUME NEW u \in Threads \ {t}, thread[u].pc = "answer"
          PROVE  /\ thread[u].serial <= mSerial'[thread[u].inst]
                 /\ thread[u].inst = i => thread[u].serial # n
      <4>1. thread[u].serial <= mSerial[thread[u].inst]
        BY <3>8 DEF SerialsTaken
      <4>2. thread[u].inst \in Instances /\ thread[u].serial \in Nat
        BY <3>6, <3>8
      <4>3. mSerial[thread[u].inst] \in Nat
            /\ mSerial'[thread[u].inst] >= mSerial[thread[u].inst]
            /\ mSerial'[thread[u].inst] \in Nat
        BY <3>4, <4>2, TypeStep DEF TypeOK
      <4>4. thread[u].serial <= mSerial'[thread[u].inst]
        BY <4>1, <4>2, <4>3
      <4>5. thread[u].inst = i => thread[u].serial # n
        BY <3>1, <4>1, <4>2
      <4>6. QED
        BY <4>4, <4>5
    <3>9. ASSUME NEW a \in answered
          PROVE  a.serial <= mSerial'[a.inst] /\ (a.inst = i => a.serial # n)
      <4>1. a.serial <= mSerial[a.inst]
        BY DEF SerialsTaken
      <4>2. a.inst \in Instances /\ a.serial \in Nat
        BY <3>7
      <4>3. mSerial[a.inst] \in Nat /\ mSerial'[a.inst] >= mSerial[a.inst]
            /\ mSerial'[a.inst] \in Nat
        BY <3>4, <4>2, TypeStep DEF TypeOK
      <4>4. a.serial <= mSerial'[a.inst]
        BY <4>1, <4>2, <4>3
      <4>5. a.inst = i => a.serial # n
        BY <3>1, <4>1, <4>2
      <4>6. QED
        BY <4>4, <4>5
    <3>10. SerialsTaken'
      <4>1. thread'[t].serial <= mSerial'[thread'[t].inst]
        BY <3>1, <3>3, <3>5
      <4>2. QED
        BY <3>2, <3>3, <3>8, <3>9, <4>1 DEF SerialsTaken
    <3>11. SerialsDistinct'
      BY <3>2, <3>3, <3>8, <3>9 DEF SerialsDistinct
    <3>12. QED
      BY <3>10, <3>11
  <2>3. QED
    BY <2>1, <2>2
<1>2. ASSUME NEW t \in Threads, setCallIndication(t) PROVE SerialsTaken' /\ SerialsDistinct'
  <2> DEFINE b == [inst |-> thread[t].inst, serial |-> thread[t].serial,
                   from |-> thread[t].gen, to |-> up]
  <2>1. /\ thread[t].pc = "answer" /\ answered' = answered \cup {b}
        /\ UNCHANGED mSerial
        /\ \A u \in Threads : thread'[u].pc = "answer" => u # t /\ thread'[u] = thread[u]
    BY <1>2 DEF setCallIndication, TypeOK, ThreadIdle, service
  <2>2. b.inst = thread[t].inst /\ b.serial = thread[t].serial
    OBVIOUS
  <2>3. QED
    BY <2>1, <2>2 DEF SerialsTaken, SerialsDistinct
<1>3. ASSUME NEW t \in Threads, NEW i \in Instances, DeathNotice(t, i)
      PROVE  SerialsTaken' /\ SerialsDistinct'
  <2>1. \A u \in Threads : thread'[u].pc = "answer" => thread'[u] = thread[u]
    BY <1>3 DEF DeathNotice, TypeOK, ThreadIdle
  <2>2. QED
    BY <1>3, <2>1, SerialsKept DEF DeathNotice
<1>4. ASSUME NEW t \in Threads, Reschedules(t) PROVE SerialsTaken' /\ SerialsDistinct'
  <2>1. \A u \in Threads : thread'[u].pc = "answer" => thread'[u] = thread[u]
    BY <1>4 DEF Reschedules, TypeOK, ThreadIdle
  <2>2. QED
    BY <1>4, <2>1, SerialsKept DEF Reschedules
<1>5. ASSUME NEW t \in Threads, NEW good \in BOOLEAN, incomingCallIndication(t, good)
      PROVE  SerialsTaken' /\ SerialsDistinct'
  <2>1. \A u \in Threads : thread'[u].pc = "answer" => thread'[u] = thread[u]
    BY <1>5 DEF incomingCallIndication, TypeOK
  <2>2. QED
    BY <1>5, <2>1, SerialsKept DEF incomingCallIndication, service
<1>6. ASSUME NEW t \in Threads, CallFails(t) PROVE SerialsTaken' /\ SerialsDistinct'
  <2>1. \A u \in Threads : thread'[u].pc = "answer" => thread'[u] = thread[u]
    BY <1>6 DEF CallFails, TypeOK, ThreadState
  <2>2. QED
    BY <1>6, <2>1, SerialsKept DEF CallFails
<1>7. ASSUME UNCHANGED <<thread, mSerial, answered>> PROVE SerialsTaken' /\ SerialsDistinct'
  BY <1>7, SerialsKept
<1>8. ASSUME NEW i \in Instances,
             onCreate(i) \/ onStartCommand(i) \/ onDestroy(i) \/ ConnectRuns(i)
      PROVE  UNCHANGED <<thread, mSerial, answered>>
  BY <1>8 DEF onCreate, onStartCommand, onDestroy, ConnectRuns
<1>9. ASSUME getService \/ linkToDeath \/ setResponseFunctionsMtk \/ ConnectFails
             \/ ConnectReschedules \/ ServerStarts \/ ServerDies \/ UNCHANGED vars
      PROVE  UNCHANGED <<thread, mSerial, answered>>
  BY <1>9 DEF getService, linkToDeath, setResponseFunctionsMtk, ConnectFails,
     ConnectReschedules, ServerStarts, ServerDies, vars, service
<1>10. QED
  BY <1>1, <1>2, <1>3, <1>4, <1>5, <1>6, <1>7, <1>8, <1>9 DEF Next, ConnectSteps

(* However many binder threads answer calls at the same time, no two answers *)
(* of one service carry the same serial number.                             *)
THEOREM SerialsNeverReused == Spec => []SerialsDistinct
<1>1. Init => SerialsInv
  <2>1. Init => LinksHold /\ SerialsTaken /\ SerialsDistinct
    BY DEF Init, LinksHold, SerialsTaken, SerialsDistinct, MainIdle, ThreadIdle
  <2>2. QED
    BY <2>1, TypeInit DEF SerialsInv
<1>2. SerialsInv /\ [Next]_vars => SerialsInv'
  BY TypeStep, LinksStep, SerialsStep DEF SerialsInv
<1>3. SerialsInv => SerialsDistinct
  BY DEF SerialsInv
<1>4. QED
  BY <1>1, <1>2, <1>3, PTL DEF Spec

-----------------------------------------------------------------------------
(* The invariant behind the answers: what the server calls, and what a call *)
(* in progress carries, was constructed with the server that calls.         *)
AnswersInv == TypeOK /\ LinksHold /\ IndicationsHold /\ AnswersTheCaller

(* A step that leaves the server, its indication and the answers alone, and *)
(* gives no thread a call, keeps that.                                      *)
LEMMA AnswersKept ==
    ASSUME IndicationsHold, AnswersTheCaller, UNCHANGED <<up, cb, answered>>,
           \A t \in Threads : thread'[t].pc \in {"parse", "answer"} =>
              /\ thread[t].pc \in {"parse", "answer"}
              /\ thread'[t].radio = thread[t].radio /\ thread'[t].gen = thread[t].gen
    PROVE  IndicationsHold' /\ AnswersTheCaller'
  BY DEF IndicationsHold, AnswersTheCaller

LEMMA AnswersStep == AnswersInv /\ [Next]_vars => IndicationsHold' /\ AnswersTheCaller'
<1> SUFFICES ASSUME AnswersInv, [Next]_vars PROVE IndicationsHold' /\ AnswersTheCaller'
  OBVIOUS
<1> USE DEF AnswersInv
<1>1. ASSUME NEW t \in Threads, NEW good \in BOOLEAN, incomingCallIndication(t, good)
      PROVE  IndicationsHold' /\ AnswersTheCaller'
  <2>1. /\ UNCHANGED <<up, cb, answered>> /\ cb.inst # None /\ cb.radio = up
        /\ thread' = [thread EXCEPT ![t] =
              [pc |-> "parse", inst |-> cb.inst, gen |-> up, radio |-> cb.radio,
               good |-> good, serial |-> 0]]
    BY <1>1 DEF incomingCallIndication, server, IndicationsHold
  <2>2. \A u \in Threads : thread'[u].pc \in {"parse", "answer"} =>
           thread'[u].radio = thread'[u].gen
    BY <2>1 DEF IndicationsHold, TypeOK
  <2>3. QED
    BY <2>1, <2>2 DEF IndicationsHold, AnswersTheCaller
<1>2. ASSUME NEW t \in Threads, CallParsed(t) PROVE IndicationsHold' /\ AnswersTheCaller'
  <2>1. \A u \in Threads : thread'[u].pc \in {"parse", "answer"} =>
           /\ thread[u].pc \in {"parse", "answer"}
           /\ thread'[u].radio = thread[u].radio /\ thread'[u].gen = thread[u].gen
    <3>1. CASE ~thread[t].good
      <4>1. thread' = [thread EXCEPT ![t] = ThreadIdle] /\ ThreadIdle.pc = "idle"
        BY <1>2, <3>1 DEF CallParsed, ThreadIdle
      <4>2. QED
        BY <4>1 DEF TypeOK
    <3>2. CASE thread[t].good
      <4>1. /\ thread' = [thread EXCEPT ![t].pc = "answer",
                                        ![t].serial = mSerial[thread[t].inst] + 1]
            /\ thread[t].pc = "parse"
        BY <1>2, <3>2 DEF CallParsed
      <4>2. QED
        BY <4>1 DEF TypeOK, ThreadState
    <3>3. QED
      BY <3>1, <3>2
  <2>2. QED
    BY <1>2, <2>1, AnswersKept DEF CallParsed, server
<1>3. ASSUME NEW t \in Threads, setCallIndication(t)
      PROVE  IndicationsHold' /\ AnswersTheCaller'
  <2> DEFINE b == [inst |-> thread[t].inst, serial |-> thread[t].serial,
                   from |-> thread[t].gen, to |-> up]
  <2>1. /\ thread[t].radio = up /\ thread[t].pc = "answer"
        /\ answered' = answered \cup {b} /\ UNCHANGED <<up, cb>>
        /\ thread' = [thread EXCEPT ![t] = ThreadIdle] /\ ThreadIdle.pc = "idle"
    BY <1>3 DEF setCallIndication, IndicationRadio, server, ThreadIdle
  <2>2. b.to = b.from
    BY <2>1 DEF IndicationsHold
  <2>3. IndicationsHold'
    BY <2>1 DEF IndicationsHold, TypeOK
  <2> HIDE DEF b
  <2>4. AnswersTheCaller'
    BY <2>1, <2>2 DEF AnswersTheCaller
  <2>5. QED
    BY <2>3, <2>4
<1>4. CASE setResponseFunctionsMtk
  <2>1. /\ cb' = [inst |-> main.inst, radio |-> main.gen] /\ main.gen = up
        /\ UNCHANGED <<thread, up, answered>>
    BY <1>4 DEF setResponseFunctionsMtk
  <2>2. up # Dead
    BY <1>4, <2>1, BoundsAssumption DEF setResponseFunctionsMtk, LinksHold, Dead, TypeOK, Gens
  <2>3. QED
    BY <2>1, <2>2 DEF IndicationsHold, AnswersTheCaller
<1>5. CASE ServerStarts
  BY <1>5 DEF ServerStarts, IndicationsHold, AnswersTheCaller
<1>6. CASE ServerDies
  BY <1>6 DEF ServerDies, NoIndication, IndicationsHold, AnswersTheCaller
<1>7. ASSUME NEW t \in Threads, (\E i \in Instances : DeathNotice(t, i)) \/ Reschedules(t)
             \/ CallFails(t)
      PROVE  IndicationsHold' /\ AnswersTheCaller'
  <2>1. \A u \in Threads : thread'[u].pc \in {"parse", "answer"} => thread'[u] = thread[u]
    <3>1. CASE \E i \in Instances : DeathNotice(t, i)
      BY <3>1 DEF DeathNotice, ThreadIdle, TypeOK
    <3>2. CASE Reschedules(t)
      BY <3>2 DEF Reschedules, ThreadIdle, TypeOK
    <3>3. CASE CallFails(t)
      BY <3>3 DEF CallFails, TypeOK, ThreadState
    <3>4. QED
      BY <1>7, <3>1, <3>2, <3>3
  <2>2. UNCHANGED <<up, cb, answered>>
    BY <1>7 DEF DeathNotice, Reschedules, CallFails, server
  <2>3. QED
    BY <2>1, <2>2, AnswersKept
<1>8. ASSUME UNCHANGED <<thread, up, cb, answered>>
      PROVE  IndicationsHold' /\ AnswersTheCaller'
  BY <1>8, AnswersKept
<1>9. ASSUME NEW i \in Instances,
             onCreate(i) \/ onStartCommand(i) \/ onDestroy(i) \/ ConnectRuns(i)
      PROVE  UNCHANGED <<thread, up, cb, answered>>
  BY <1>9 DEF onCreate, onStartCommand, onDestroy, ConnectRuns, server
<1>10. ASSUME getService \/ linkToDeath \/ ConnectFails \/ ConnectReschedules
              \/ UNCHANGED vars
       PROVE  UNCHANGED <<thread, up, cb, answered>>
  BY <1>10 DEF getService, linkToDeath, ConnectFails, ConnectReschedules, vars, server
<1>11. QED
  BY <1>1, <1>2, <1>3, <1>4, <1>5, <1>6, <1>7, <1>8, <1>9, <1>10 DEF Next, ConnectSteps

(* However often the server is restarted, and the service reconnects,       *)
(* between an incoming call and its answer, setCallIndication goes to the   *)
(* server that announced the call: the indication keeps the mRadio it was   *)
(* constructed with, and a server only calls indications constructed with   *)
(* itself.                                                                  *)
THEOREM CallerAnswered == Spec => []AnswersTheCaller
<1>1. Init => AnswersInv
  <2>1. Init => LinksHold /\ IndicationsHold /\ AnswersTheCaller
    BY DEF Init, LinksHold, IndicationsHold, AnswersTheCaller, MainIdle, ThreadIdle,
       NoIndication
  <2>2. QED
    BY <2>1, TypeInit DEF AnswersInv
<1>2. AnswersInv /\ [Next]_vars => AnswersInv'
  BY TypeStep, LinksStep, AnswersStep DEF AnswersInv
<1>3. AnswersInv => AnswersTheCaller
  BY DEF AnswersInv
<1>4. QED
  BY <1>1, <1>2, <1>3, PTL DEF Spec
=============================================================================
