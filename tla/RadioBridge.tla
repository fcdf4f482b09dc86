---------------------------- MODULE RadioBridge ----------------------------
(***************************************************************************)
(* HinokiRadioBridgeService (radio_bridge/): a sticky service that keeps   *)
(* an indication callback registered with the MTK radio server, which may  *)
(* die and restart at any time.  Three kinds of threads take part: the     *)
(* main thread of the application, which runs the service's callbacks and  *)
(* connect(); binder threads, which deliver death notices and incoming     *)
(* calls; and the radio server, which is another process.                  *)
(*                                                                         *)
(* A destroyed service leaves its death recipient and its indication       *)
(* behind, so several instances of the service are modelled: a new one may *)
(* live while an old one is still called back.  Delays of posted messages  *)
(* are abstracted: a queued connect() may run at any time.                 *)
(***************************************************************************)
EXTENDS Integers, FiniteSets

CONSTANTS
    Instances,      \* instances of the service the system may create
    Threads,        \* binder threads
    MaxGen,         \* bound: starts of the radio server
    MaxStarts,      \* bound: startService requests for a running service
    MaxCalls,       \* bound: incoming calls
    MaxFaults       \* bound: remote calls that fail although the server runs

ASSUME BoundsAssumption ==
    MaxGen \in Nat /\ MaxStarts \in Nat /\ MaxCalls \in Nat /\ MaxFaults \in Nat
ASSUME InstanceAssumption == "none" \notin Instances

None == "none"      \* no instance
Gens == 1..MaxGen   \* the server processes, in the order they start
Dead == 0           \* no server, a null mRadio

VARIABLES
    life,           \* what the system did to each instance
    queued,         \* mConnect messages in the main looper, per instance
    mRadio,         \* the server behind mRadio, per instance
    mSerial,        \* mSerial minus its initial value, per instance
    main,           \* the main thread, in connect() or not
    thread,         \* what each binder thread is doing
    up, last,       \* the server that runs; the last one started
    cb,             \* the indication the server holds
    links, notices, \* death recipients linked; death notices to deliver
    starts, calls, faults,   \* bounds
    answered        \* setCallIndication calls that reached a server

service == <<life, queued, mRadio, mSerial>>
server  == <<up, last, cb, links>>
bounds  == <<starts, calls, faults>>
vars    == <<service, main, thread, server, notices, bounds, answered>>

(* connect() of an instance, and the server it got.                         *)
MainState == [pc : {"idle", "get", "link", "set", "post"},
              inst : Instances \cup {None}, gen : Gens \cup {Dead}]
MainIdle  == [pc |-> "idle", inst |-> None, gen |-> Dead]

(* A HinokiRadioIndication: the instance that made it, whose handler and    *)
(* serial numbers it uses, and the server behind the mRadio it was given.   *)
Indication   == [inst : Instances \cup {None}, radio : Gens \cup {Dead}]
NoIndication == [inst |-> None, radio |-> Dead]

(* A callback of an instance, the server that made it, and for a call the   *)
(* mRadio of the indication, whether the call has a usable payload and the  *)
(* serial number it took.                                                   *)
ThreadState == [pc : {"idle", "parse", "answer", "post"},
                inst : Instances \cup {None}, gen : Gens \cup {Dead},
                radio : Gens \cup {Dead}, good : BOOLEAN, serial : Nat]
ThreadIdle  == [pc |-> "idle", inst |-> None, gen |-> Dead, radio |-> Dead,
                good |-> FALSE, serial |-> 0]

Answer == [inst : Instances, serial : Nat, from : Gens, to : Gens]

TypeOK ==
    /\ life \in [Instances -> {"unborn", "alive", "destroyed"}]
    /\ queued \in [Instances -> Nat]
    /\ mRadio \in [Instances -> Gens \cup {Dead}]
    /\ mSerial \in [Instances -> Nat]
    /\ main \in MainState
    /\ thread \in [Threads -> ThreadState]
    /\ last \in Gens \cup {Dead}
    /\ up \in {Dead, last}
    /\ cb \in Indication
    /\ links \in [Instances -> [Gens -> Nat]]
    /\ notices \in [Instances -> Nat]
    /\ starts \in Nat /\ calls \in Nat /\ faults \in Nat
    /\ answered \subseteq Answer

Init ==
    /\ life = [i \in Instances |-> "unborn"]
    /\ queued = [i \in Instances |-> 0]
    /\ mRadio = [i \in Instances |-> Dead]
    /\ mSerial = [i \in Instances |-> 0]
    /\ main = MainIdle
    /\ thread = [t \in Threads |-> ThreadIdle]
    /\ up = Dead /\ last = Dead /\ cb = NoIndication
    /\ links = [i \in Instances |-> [g \in Gens |-> 0]]
    /\ notices = [i \in Instances |-> 0]
    /\ starts = 0 /\ calls = 0 /\ faults = 0
    /\ answered = {}

-----------------------------------------------------------------------------
(* The message queue of the main looper; both operations are atomic.        *)

post(i) == queued' = [queued EXCEPT ![i] = @ + 1]

removeCallbacks(i) == queued' = [queued EXCEPT ![i] = 0]

-----------------------------------------------------------------------------
(* The main thread: callbacks of the service.                               *)

(* startService, from BootReceiver, or the restart of a sticky service.     *)
onCreate(i) ==
    /\ main.pc = "idle"
    /\ life[i] = "unborn" /\ \A j \in Instances : life[j] # "alive"
    /\ life' = [life EXCEPT ![i] = "alive"]
    /\ post(i)
    /\ UNCHANGED <<mRadio, mSerial, main, thread, server, notices, bounds,
                   answered>>

onStartCommand(i) ==
    /\ main.pc = "idle" /\ life[i] = "alive" /\ starts < MaxStarts
    /\ starts' = starts + 1
    /\ \/ mRadio[i] = Dead /\ post(i)
       \/ mRadio[i] # Dead /\ UNCHANGED queued
    /\ UNCHANGED <<life, mRadio, mSerial, main, thread, server, notices, calls,
                   faults, answered>>

(* The death recipient stays linked and the server keeps the indication.    *)
onDestroy(i) ==
    /\ main.pc = "idle" /\ life[i] = "alive"
    /\ life' = [life EXCEPT ![i] = "destroyed"]
    /\ removeCallbacks(i)
    /\ mRadio' = [mRadio EXCEPT ![i] = Dead]
    /\ UNCHANGED <<mSerial, main, thread, server, notices, bounds, answered>>

-----------------------------------------------------------------------------
(* The main thread: connect(), with a step for every call to another        *)
(* process, before each of which the server may die.                        *)

ConnectRuns(i) ==
    /\ main.pc = "idle" /\ queued[i] > 0
    /\ removeCallbacks(i)
    /\ main' = [main EXCEPT !.pc = "get", !.inst = i]
    /\ UNCHANGED <<life, mRadio, mSerial, thread, server, notices, bounds,
                   answered>>

(* The service manager hands out the server that runs, or one whose death   *)
(* it has not noticed yet.                                                  *)
getService ==
    /\ main.pc = "get" /\ last # Dead
    /\ main' = [main EXCEPT !.pc = "link", !.gen = last]
    /\ UNCHANGED <<service, thread, server, notices, bounds, answered>>

(* linkToDeath to a dead server returns false, which connect() ignores.     *)
linkToDeath ==
    /\ main.pc = "link"
    /\ links' = IF main.gen = up THEN [links EXCEPT ![main.inst][main.gen] = @ + 1]
                                 ELSE links
    /\ main' = [main EXCEPT !.pc = "set"]
    /\ UNCHANGED <<service, thread, up, last, cb, notices, bounds, answered>>

setResponseFunctionsMtk ==
    /\ main.pc = "set" /\ main.gen = up
    /\ cb' = [inst |-> main.inst, radio |-> main.gen]
    /\ mRadio' = [mRadio EXCEPT ![main.inst] = main.gen]
    /\ main' = MainIdle
    /\ UNCHANGED <<life, queued, mSerial, thread, up, last, links, notices,
                   bounds, answered>>

(* Why a remote call of connect() fails: there is no server, or it is not   *)
(* the one connect() got, or the call itself fails.                         *)
RemoteCallFails ==
    \/ /\ \/ main.pc = "get" /\ up = Dead
          \/ main.pc = "set" /\ main.gen # up
       /\ UNCHANGED faults
    \/ /\ main.pc \in {"get", "link", "set"} /\ faults < MaxFaults
       /\ faults' = faults + 1

(* A fault: the catch block forgets to schedule another attempt.            *)
ConnectGivesUp ==
    /\ RemoteCallFails
    /\ mRadio' = [mRadio EXCEPT ![main.inst] = Dead]
    /\ main' = MainIdle
    /\ UNCHANGED <<life, queued, mSerial, thread, server, notices, starts, calls,
                   answered>>

(* The catch block.                                                         *)
ConnectFails ==
    /\ RemoteCallFails
    /\ mRadio' = [mRadio EXCEPT ![main.inst] = Dead]
    /\ removeCallbacks(main.inst)
    /\ main' = [main EXCEPT !.pc = "post"]
    /\ UNCHANGED <<life, mSerial, thread, server, notices, starts, calls, answered>>

(* The rest of its scheduleReconnect(2000).                                 *)
ConnectReschedules ==
    /\ main.pc = "post"
    /\ post(main.inst)
    /\ main' = MainIdle
    /\ UNCHANGED <<life, mRadio, mSerial, thread, server, notices, bounds,
                   answered>>

-----------------------------------------------------------------------------
(* Binder threads: a death notice, and an incoming call.                    *)

(* mDeathRecipient: the first half of scheduleReconnect(1000).              *)
DeathNotice(t, i) ==
    /\ thread[t].pc = "idle" /\ notices[i] > 0
    /\ notices' = [notices EXCEPT ![i] = @ - 1]
    /\ removeCallbacks(i)
    /\ thread' = [thread EXCEPT ![t] = [ThreadIdle EXCEPT !.pc = "post", !.inst = i]]
    /\ UNCHANGED <<life, mRadio, mSerial, main, server, bounds, answered>>

(* postDelayed, of the recipient or of a call that could not be answered.   *)
Reschedules(t) ==
    /\ thread[t].pc = "post"
    /\ post(thread[t].inst)
    /\ thread' = [thread EXCEPT ![t] = ThreadIdle]
    /\ UNCHANGED <<life, mRadio, mSerial, main, server, notices, bounds,
                   answered>>

(* The server calls the indication it holds; good says whether there is a   *)
(* payload whose two identifiers are numbers.                               *)
incomingCallIndication(t, good) ==
    /\ thread[t].pc = "idle" /\ up # Dead /\ cb.inst # None /\ calls < MaxCalls
    /\ calls' = calls + 1
    /\ thread' = [thread EXCEPT ![t] =
          [pc |-> "parse", inst |-> cb.inst, gen |-> up, radio |-> cb.radio,
           good |-> good, serial |-> 0]]
    /\ UNCHANGED <<service, main, server, notices, starts, faults, answered>>

(* A fault: a serial number is read but not taken.                          *)
CallReusesSerial(t) ==
    /\ thread[t].pc = "parse"
    /\ \/ /\ ~thread[t].good
          /\ thread' = [thread EXCEPT ![t] = ThreadIdle]
          /\ UNCHANGED mSerial
       \/ /\ thread[t].good
          /\ thread' = [thread EXCEPT ![t].pc = "answer",
                                      ![t].serial = mSerial[thread[t].inst] + 1]
          /\ UNCHANGED mSerial
    /\ UNCHANGED <<life, queued, mRadio, main, server, notices, bounds,
                   answered>>

(* An unusable payload is dropped; else the call takes a serial number.     *)
CallParsed(t) ==
    /\ thread[t].pc = "parse"
    /\ \/ /\ ~thread[t].good
          /\ thread' = [thread EXCEPT ![t] = ThreadIdle]
          /\ UNCHANGED mSerial
       \/ /\ thread[t].good
          /\ mSerial' = [mSerial EXCEPT ![thread[t].inst] = @ + 1]
          /\ thread' = [thread EXCEPT ![t].pc = "answer",
                                      ![t].serial = mSerial[thread[t].inst] + 1]
    /\ UNCHANGED <<life, queued, mRadio, main, server, notices, bounds,
                   answered>>

(* A fault: the call is answered through the mRadio of the service.         *)
ServiceRadio(t) == mRadio[thread[t].inst]

(* The mRadio the indication was constructed with.                          *)
IndicationRadio(t) == thread[t].radio

setCallIndication(t) ==
    /\ thread[t].pc = "answer" /\ IndicationRadio(t) = up /\ up # Dead
    /\ answered' = answered \cup
          {[inst |-> thread[t].inst, serial |-> thread[t].serial,
            from |-> thread[t].gen, to |-> up]}
    /\ thread' = [thread EXCEPT ![t] = ThreadIdle]
    /\ UNCHANGED <<service, main, server, notices, bounds>>

(* The remote call failed: the first half of rescheduling connect().        *)
CallFails(t) ==
    /\ thread[t].pc = "answer"
    /\ \/ IndicationRadio(t) # up /\ UNCHANGED faults
       \/ faults < MaxFaults /\ faults' = faults + 1
    /\ removeCallbacks(thread[t].inst)
    /\ thread' = [thread EXCEPT ![t].pc = "post"]
    /\ UNCHANGED <<life, mRadio, mSerial, main, server, notices, starts, calls,
                   answered>>

-----------------------------------------------------------------------------
(* The radio server.                                                        *)

ServerStarts ==
    /\ up = Dead /\ last < MaxGen
    /\ up' = last + 1 /\ last' = last + 1
    /\ UNCHANGED <<service, main, thread, cb, links, notices, bounds, answered>>

ServerDies ==
    /\ up # Dead
    /\ up' = Dead /\ cb' = NoIndication
    /\ notices' = [i \in Instances |-> notices[i] + links[i][up]]
    /\ links' = [i \in Instances |-> [links[i] EXCEPT ![up] = 0]]
    /\ UNCHANGED <<service, main, thread, last, bounds, answered>>

-----------------------------------------------------------------------------
(* The main thread within connect().                                        *)
ConnectSteps ==
    \/ getService \/ linkToDeath \/ setResponseFunctionsMtk
    \/ ConnectFails \/ ConnectReschedules

Next ==
    \/ \E i \in Instances :
          onCreate(i) \/ onStartCommand(i) \/ onDestroy(i) \/ ConnectRuns(i)
    \/ ConnectSteps
    \/ \E t \in Threads :
          \/ \E i \in Instances : DeathNotice(t, i)
          \/ Reschedules(t)
          \/ \E good \in BOOLEAN : incomingCallIndication(t, good)
          \/ CallParsed(t) \/ setCallIndication(t) \/ CallFails(t)
    \/ ServerStarts \/ ServerDies

(* The looper serves its messages in order, so none waits for ever (SF);    *)
(* threads and the delivery of notices make progress.                       *)
Fairness ==
    /\ \A i \in Instances :
          /\ SF_vars(ConnectRuns(i))
          /\ WF_vars(\E t \in Threads : DeathNotice(t, i))
    /\ WF_vars(ConnectSteps)
    /\ \A t \in Threads :
          WF_vars(Reschedules(t) \/ CallParsed(t) \/ setCallIndication(t) \/ CallFails(t))

Spec     == Init /\ [][Next]_vars
FairSpec == Spec /\ Fairness

-----------------------------------------------------------------------------
(* Another connect() of instance i is certain to come: it is queued, it     *)
(* runs, or a thread is on its way to queueing it.                          *)
Reconnecting(i) ==
    \/ queued[i] > 0
    \/ main.pc # "idle" /\ main.inst = i
    \/ notices[i] > 0
    \/ \E t \in Threads : thread[t].pc = "post" /\ thread[t].inst = i

(* What makes NeverStranded inductive: a server that connect() links to is  *)
(* never a later one, and a link made to the server that runs stays.        *)
LinksHold ==
    /\ main.pc # "idle" => main.inst \in Instances
    /\ main.pc \in {"link", "set"} => main.gen \in 1..last
    /\ main.pc = "set" /\ main.gen = up => links[main.inst][main.gen] > 0
    /\ \A t \in Threads : thread[t].pc # "idle" => thread[t].inst \in Instances
    /\ \A t \in Threads : thread[t].pc \in {"parse", "answer"} => thread[t].gen \in Gens

(* A living service is never stranded: whatever the order of removeCallbacks*)
(* and postDelayed on the threads involved, it is registered with the       *)
(* server that runs and would be told of its death, or connect() (which     *)
(* removes queued attempts) is still to come.                               *)
NeverStranded ==
    \A i \in Instances : life[i] = "alive" =>
        Reconnecting(i) \/ (up # Dead /\ mRadio[i] = up /\ links[i][up] > 0)

(* What makes AnswersTheCaller inductive: the server holds an indication    *)
(* that was constructed with this server, and only the server calls it.     *)
IndicationsHold ==
    /\ cb.inst # None => up # Dead /\ cb.radio = up
    /\ \A t \in Threads : thread[t].pc \in {"parse", "answer"} => thread[t].radio = thread[t].gen

(* setCallIndication answers a call through the server that announced it,   *)
(* never through a server that was started, and connected to, since: the    *)
(* mRadio of the indication is not replaced when the service reconnects.    *)
AnswersTheCaller == \A a \in answered : a.to = a.from

(* No two answers of one service carry the same serial number, also when    *)
(* two binder threads answer calls at the same time.                        *)
SerialsDistinct ==
    \A t \in Threads : thread[t].pc = "answer" =>
        /\ \A u \in Threads \ {t} : thread[u].pc = "answer" /\ thread[u].inst = thread[t].inst
                                      => thread[u].serial # thread[t].serial
        /\ \A a \in answered : a.inst = thread[t].inst => a.serial # thread[t].serial

(* What makes SerialsDistinct inductive: no serial in use is past mSerial.  *)
SerialsTaken ==
    /\ \A t \in Threads : thread[t].pc = "answer" =>
          thread[t].serial <= mSerial[thread[t].inst]
    /\ \A a \in answered : a.serial <= mSerial[a.inst]

(* If the server finally stays up while a service lives, then the server    *)
(* finally has, and keeps, an indication that can answer it.  It may be one *)
(* of a destroyed instance, which was told of a death and connected last.   *)
CallbackRestored ==
    <>[](up # Dead /\ \E i \in Instances : life[i] = "alive")
       => <>[](cb.inst # None /\ cb.radio = up)
=============================================================================
