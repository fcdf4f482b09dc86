---------------------------- MODULE AgpsBioProofs ----------------------------
(***************************************************************************)
(* Theorems about AgpsBio, for any number of BIOs and BioStates and in     *)
(* whatever order the blob and the library use them.                       *)
(***************************************************************************)
EXTENDS AgpsBio, FiniteSetTheorems, TLAPS

(* Each BioState has at most one owner, a native BIO or the BIO_new under   *)
(* way, and an owner exactly while it is allocated.                         *)
OwnersInv ==
    /\ \A b, c \in Bios : Bridged(b) /\ Bridged(c) /\ stateOf(b) = stateOf(c) => b = c
    /\ \A b \in Bios : Bridged(b) => states[stateOf(b)] # None /\ call.state # stateOf(b)
    /\ call.pc # "idle" => states[call.state] # None
    /\ \A s \in States : states[s] # None =>
          call.state = s \/ \E b \in Bios : Bridged(b) /\ stateOf(b) = s

(* An object of the blob is there only between its create and its destroy,  *)
(* and its method has a destroy.                                            *)
PrivateInv ==
    /\ call.pc # "idle" => states[call.state].original = call.method
    /\ call.pc = "create" => call.state \notin private
    /\ \A s \in private : states[s] # None /\ states[s].original.destroy

(* From an answer of the blob to the next change from outside, the two      *)
(* views hold the same flags, the ones that answer calls for.               *)
FlagsInv ==
    \A b \in Bios : told[b] # None =>
        /\ Bridged(b)
        /\ native[b].view.flags = states[stateOf(b)].legacy.flags
        /\ told[b] = "again" => {"READ", "RETRY"} \subseteq native[b].view.flags
        /\ told[b] = "done" => native[b].view.flags \cap Retry = {}

BioInv == TypeOK /\ OwnersInv /\ PrivateInv /\ FlagsInv /\ InitInStep

-----------------------------------------------------------------------------
(* Facts about the operators.                                               *)

BothViews == [native : View, legacy : View]

(* What a read or write through the bridge leaves: equal views, with the    *)
(* flags of the native one but for the retry flags, which the blob decides, *)
(* and the blob's own init.                                                 *)
LEMMA ThroughIs ==
    ASSUME NEW vs \in BothViews, NEW again \in BOOLEAN
    PROVE  LET ws == ThroughBridge(vs, again) IN
           /\ ws \in BothViews /\ ws.native = ws.legacy
           /\ ws.legacy.init = vs.legacy.init
           /\ ws.legacy.flags = (vs.native.flags \ Retry) \cup
                                IF again THEN {"READ", "RETRY"} ELSE {}
  <1> DEFINE loaded == [vs EXCEPT !.legacy.flags = vs.native.flags]
             clear  == [loaded EXCEPT !.legacy.flags = @ \ Retry]
             asked  == [clear EXCEPT !.legacy.flags = @ \cup {"READ", "RETRY"}]
             done   == IF again THEN asked ELSE clear
  <1>1. /\ loaded \in BothViews /\ loaded.legacy.flags = vs.native.flags
        /\ loaded.legacy.init = vs.legacy.init
    BY DEF BothViews, View
  <1>2. clear = BIO_clear_retry_flags(loaded, "legacy")
    BY DEF BIO_clear_retry_flags
  <1>3. asked = BIO_set_retry_read(clear, "legacy")
    BY DEF BIO_set_retry_read
  <1> HIDE DEF loaded
  <1>4. /\ clear \in BothViews /\ clear.legacy.flags = vs.native.flags \ Retry
        /\ clear.legacy.init = vs.legacy.init
    BY <1>1 DEF BothViews, View
  <1> HIDE DEF clear
  <1>5. /\ asked \in BothViews
        /\ asked.legacy.flags = (vs.native.flags \ Retry) \cup {"READ", "RETRY"}
        /\ asked.legacy.init = vs.legacy.init
    BY <1>4 DEF BothViews, View, Flags, Retry
  <1> HIDE DEF asked
  <1>6. ThroughBridge(vs, again) = syncFlags(done)
    BY <1>2, <1>3 DEF ThroughBridge, BlobReads, loaded
  <1>7. done \in BothViews /\ done.legacy.init = vs.legacy.init
        /\ done.legacy.flags = (vs.native.flags \ Retry) \cup
                                IF again THEN {"READ", "RETRY"} ELSE {}
    BY <1>4, <1>5
  <1> HIDE DEF done
  <1>8. syncFlags(done) \in BothViews /\ syncFlags(done).native = done.legacy
        /\ syncFlags(done).legacy = done.legacy
    BY <1>7 DEF syncFlags, BothViews
  <1> QED
    BY <1>6, <1>7, <1>8

-----------------------------------------------------------------------------
(* Every step keeps the invariant.                                          *)

(* The objects a bridged BIO consists of.                                   *)
LEMMA BridgedIs ==
    ASSUME TypeOK, OwnersInv, NEW b \in Bios, Bridged(b)
    PROVE  /\ native[b] \in NativeBio /\ stateOf(b) \in States
           /\ states[stateOf(b)] \in BioState /\ Views(b) \in BothViews
  <1>1. native[b] \in NativeBio /\ stateOf(b) \in States
    BY DEF TypeOK, Bridged, Live, stateOf, NativeBio
  <1>2. states[stateOf(b)] \in BioState
    BY <1>1 DEF TypeOK, OwnersInv
  <1> QED
    BY <1>1, <1>2 DEF Views, BothViews, NativeBio, BioState

(* A bridge callback that stores equal views of one BIO and answers b, or   *)
(* leaves the answer and the flags alone.                                   *)
LEMMA StoreKeeps ==
    ASSUME BioInv, NEW b \in Bios, Bridged(b), NEW vs \in BothViews, Store(b, vs),
           vs.native = vs.legacy, UNCHANGED <<private, call>>,
           NEW a \in {None, "again", "done"}, told' = [told EXCEPT ![b] = a],
           a = "again" => {"READ", "RETRY"} \subseteq vs.legacy.flags,
           a = "done" => vs.legacy.flags \cap Retry = {}
    PROVE  BioInv'
  <1> USE DEF BioInv
  <1>1. PICK s \in States : s = stateOf(b) /\ states[s] \in BioState
    BY BridgedIs
  <1>2. /\ native[b] \in NativeBio /\ vs.native \in View /\ vs.legacy \in View
        /\ native \in [Bios -> {None} \cup NativeBio]
        /\ states \in [States -> {None} \cup BioState]
        /\ native' = [native EXCEPT ![b].view = vs.native]
        /\ states' = [states EXCEPT ![s].legacy = vs.legacy]
    BY <1>1, BridgedIs DEF Store, BothViews, TypeOK
  <1>3. /\ native'[b] \in NativeBio /\ native'[b].view = vs.native
        /\ native'[b].data = native[b].data /\ native[b].data = s
        /\ \A c \in Bios : c # b => native'[c] = native[c]
        /\ native' \in [Bios -> {None} \cup NativeBio]
    BY <1>1, <1>2 DEF NativeBio, stateOf
  <1>4. /\ states'[s] \in BioState /\ states'[s].legacy = vs.legacy
        /\ states'[s].original = states[s].original
        /\ \A r \in States : r # s => states'[r] = states[r]
        /\ states' \in [States -> {None} \cup BioState]
    BY <1>1, <1>2 DEF BioState
  <1>5. /\ \A c \in Bios : Live(c)' <=> Live(c)
        /\ \A c \in Bios : Bridged(c)' <=> Bridged(c)
        /\ \A c \in Bios : Live(c) => stateOf(c)' = stateOf(c)
    <2>1. native[b] # None /\ native'[b] # None
      BY <1>2, <1>3, NoneAssumption
    <2> QED
      BY <1>3, <2>1 DEF Live, Bridged, stateOf
  <1>6. /\ \A r \in States : states'[r] = None <=> states[r] = None
        /\ \A r \in States : states[r] # None => states'[r].original = states[r].original
    <2>1. states[s] # None /\ states'[s] # None
      BY <1>1, <1>4, NoneAssumption
    <2> QED
      BY <1>4, <2>1
  <1>7. told' \in [Bios -> {None, "again", "done"}] /\ told'[b] = a
        /\ \A c \in Bios : c # b => told'[c] = told[c]
    BY DEF TypeOK
  <1>8. \A c \in Bios : Bridged(c) => stateOf(c) \in States
    BY BridgedIs
  <1>9. call.pc # "idle" => call.state \in States
    BY DEF TypeOK, Idle
  <1>10. TypeOK'
    BY <1>3, <1>4, <1>7 DEF TypeOK
  <1>11. OwnersInv'
    <2>1. \A c, d \in Bios : (Bridged(c) /\ Bridged(d) /\ stateOf(c) = stateOf(d))' => c = d
      BY <1>5 DEF OwnersInv, Bridged
    <2>2. \A c \in Bios : Bridged(c)' =>
             (states[stateOf(c)])' # None /\ call'.state # stateOf(c)'
      BY <1>5, <1>6, <1>8 DEF OwnersInv, Bridged
    <2>3. call'.pc # "idle" => states'[call'.state] # None
      BY <1>6, <1>9 DEF OwnersInv
    <2>4. \A r \in States : states'[r] # None =>
             call'.state = r \/ \E c \in Bios : Bridged(c)' /\ stateOf(c)' = r
      BY <1>5, <1>6 DEF OwnersInv, Bridged
    <2> QED
      BY <2>1, <2>2, <2>3, <2>4 DEF OwnersInv
  <1>12. PrivateInv'
    <2>1. call'.pc # "idle" => states'[call'.state].original = call'.method
      BY <1>6, <1>9 DEF PrivateInv, OwnersInv
    <2>2. \A r \in private' : states'[r] # None /\ states'[r].original.destroy
      BY <1>6 DEF PrivateInv, TypeOK
    <2> QED
      BY <2>1, <2>2 DEF PrivateInv
  <1>13. \A c \in Bios : c # b /\ Bridged(c) =>
            stateOf(c) # s /\ native'[c] = native[c] /\ (states[stateOf(c)])' = states[stateOf(c)]
    <2> SUFFICES ASSUME NEW c \in Bios, c # b, Bridged(c)
                 PROVE  stateOf(c) # s /\ native'[c] = native[c]
                        /\ (states[stateOf(c)])' = states[stateOf(c)]
      OBVIOUS
    <2>1. stateOf(c) # s /\ stateOf(c) \in States /\ stateOf(c)' = stateOf(c)
      BY <1>1, <1>5, <1>8 DEF OwnersInv, Bridged
    <2> QED
      BY <1>3, <1>4, <2>1
  <1>14. (states[stateOf(b)])' = states'[s]
    BY <1>3 DEF stateOf
  <1>15. FlagsInv'
    <2> SUFFICES ASSUME NEW c \in Bios, told'[c] # None
                 PROVE  /\ Bridged(c)'
                        /\ native'[c].view.flags = (states[stateOf(c)])'.legacy.flags
                        /\ told'[c] = "again" => {"READ", "RETRY"} \subseteq native'[c].view.flags
                        /\ told'[c] = "done" => native'[c].view.flags \cap Retry = {}
      BY DEF FlagsInv
    <2>1. CASE c = b
      BY <1>3, <1>4, <1>5, <1>7, <1>14, <2>1
    <2>2. CASE c # b
      BY <1>5, <1>7, <1>13, <2>2 DEF FlagsInv
    <2> QED
      BY <2>1, <2>2
  <1>16. InitInStep'
    <2> SUFFICES ASSUME NEW c \in Bios, Bridged(c)'
                 PROVE  native'[c].view.init = (states[stateOf(c)])'.legacy.init
      BY DEF InitInStep
    <2>1. CASE c = b
      BY <1>3, <1>4, <1>14, <2>1
    <2>2. CASE c # b
      BY <1>5, <1>13, <2>2 DEF InitInStep
    <2> QED
      BY <2>1, <2>2
  <1> QED
    BY <1>10, <1>11, <1>12, <1>15, <1>16

(* The bridge callbacks.                                                    *)
LEMMA BridgeKeeps ==
    ASSUME BioInv, NEW b \in Bios,
           \/ \E again \in BOOLEAN : bridgeRead(b, again)
           \/ bridgeWrite(b)
           \/ \E init \in BOOLEAN : bridgeCtrl(b, init)
    PROVE  BioInv'
  <1> USE DEF BioInv
  <1>1. ASSUME Bridged(b), NEW again \in BOOLEAN, Store(b, ThroughBridge(Views(b), again)),
               told' = [told EXCEPT ![b] = IF again THEN "again" ELSE "done"],
               UNCHANGED <<private, call>>
        PROVE  BioInv'
    <2>1. PICK ws : ws = ThroughBridge(Views(b), again)
      OBVIOUS
    <2>2. /\ ws \in BothViews /\ ws.native = ws.legacy
          /\ ws.legacy.flags = (Views(b).native.flags \ Retry) \cup
                               IF again THEN {"READ", "RETRY"} ELSE {}
      <3>1. Views(b) \in BothViews
        BY <1>1, BridgedIs
      <3>2. PICK vs \in BothViews : vs = Views(b)
        BY <3>1
      <3> QED
        BY <2>1, <3>2, ThroughIs
    <2>3. PICK a \in {None, "again", "done"} : a = IF again THEN "again" ELSE "done"
      OBVIOUS
    <2>4. a = "again" => {"READ", "RETRY"} \subseteq ws.legacy.flags
      BY <2>2, <2>3
    <2>5. a = "done" => ws.legacy.flags \cap Retry = {}
      BY <2>2, <2>3
    <2>6. Store(b, ws) /\ told' = [told EXCEPT ![b] = a]
      BY <1>1, <2>1, <2>3
    <2> QED
      BY <1>1, <2>2, <2>4, <2>5, <2>6, StoreKeeps
  <1>2. ASSUME NEW again \in BOOLEAN, bridgeRead(b, again) PROVE BioInv'
    BY <1>1, <1>2 DEF bridgeRead
  <1>3. CASE bridgeWrite(b)
    <2>1. /\ Bridged(b) /\ Store(b, ThroughBridge(Views(b), FALSE))
          /\ told' = [told EXCEPT ![b] = IF FALSE THEN "again" ELSE "done"]
          /\ UNCHANGED <<private, call>>
      BY <1>3 DEF bridgeWrite
    <2> QED
      BY <1>1, <2>1
  <1>4. ASSUME NEW init \in BOOLEAN, bridgeCtrl(b, init) PROVE BioInv'
    <2>1. Bridged(b) /\ Views(b) \in BothViews
      BY <1>4, BridgedIs DEF bridgeCtrl
    <2>2. PICK vs \in BothViews : vs = Views(b)
      BY <2>1
    <2> DEFINE us == [vs EXCEPT !.legacy.init = init]
    <2>3. us \in BothViews /\ us.legacy.flags = vs.legacy.flags
      BY DEF BothViews, View
    <2> HIDE DEF us
    <2>4. PICK ws : ws = syncFlags(us)
      OBVIOUS
    <2>5. ws \in BothViews /\ ws.native = ws.legacy /\ ws.legacy.flags = vs.legacy.flags
      BY <2>3, <2>4 DEF syncFlags, BothViews
    <2>6. Store(b, ws) /\ UNCHANGED <<private, call, told>>
      BY <1>4, <2>2, <2>4 DEF bridgeCtrl, us
    <2>7. PICK a \in {None, "again", "done"} : a = told[b]
      BY DEF TypeOK
    <2>8. told' = [told EXCEPT ![b] = a]
      BY <2>6, <2>7 DEF TypeOK
    <2>9. vs.legacy.flags = states[stateOf(b)].legacy.flags
      BY <2>2 DEF Views
    <2>10. a # None => native[b].view.flags = ws.legacy.flags
      BY <2>5, <2>7, <2>9 DEF FlagsInv
    <2>11. a = "again" => {"READ", "RETRY"} \subseteq ws.legacy.flags
      BY <2>7, <2>10, NoneAssumption DEF FlagsInv
    <2>12. a = "done" => ws.legacy.flags \cap Retry = {}
      BY <2>7, <2>10, NoneAssumption DEF FlagsInv
    <2> QED
      BY <2>1, <2>5, <2>6, <2>8, <2>11, <2>12, StoreKeeps
  <1> QED
    BY <1>2, <1>3, <1>4

(* BIO_new before it has a native BIO: nothing but the BioState it holds    *)
(* changes, which no native BIO points to.                                  *)
LEMMA NewKeeps ==
    ASSUME BioInv,
           \/ \E s \in States, m \in Methods : NewAllocates(s, m)
           \/ \E init \in BOOLEAN : NewCreates(init)
           \/ CreateFails \/ WrapFails
    PROVE  BioInv'
  <1> USE DEF BioInv
  <1>1. UNCHANGED <<native, told>>
    BY DEF NewAllocates, NewCreates, CreateFails, WrapFails
  <1>2. \A b \in Bios : /\ Bridged(b)' <=> Bridged(b)
                        /\ stateOf(b)' = stateOf(b)
                        /\ Bridged(b) => stateOf(b) \in States /\ states[stateOf(b)] # None
                                         /\ call.state # stateOf(b)
    BY <1>1, BridgedIs DEF Bridged, Live, stateOf, OwnersInv
  <1>3. ASSUME NEW s \in States,
               \A r \in States \ {s} : states'[r] = states[r],
               \A b \in Bios : Bridged(b) => stateOf(b) # s
        PROVE  FlagsInv' /\ InitInStep'
    <2>1. \A b \in Bios : Bridged(b) => (states[stateOf(b)])' = states[stateOf(b)]
      BY <1>2, <1>3
    <2> QED
      BY <1>1, <1>2, <2>1 DEF FlagsInv, InitInStep
  <1>4. ASSUME NEW s \in States, NEW m \in Methods, NewAllocates(s, m) PROVE BioInv'
    <2>1. /\ call.pc = "idle" /\ call.state = None /\ states[s] = None /\ UNCHANGED private
          /\ states' = [states EXCEPT ![s] = NewState(m)]
          /\ call' = [pc |-> "create", method |-> m, state |-> s]
      BY <1>4 DEF NewAllocates, TypeOK, Idle
    <2>2. NewState(m) \in BioState /\ NewState(m).original = m
      BY DEF NewState, BioState, Blank, View
    <2>3. /\ states'[s] = NewState(m) /\ states'[s] # None
          /\ \A r \in States \ {s} : states'[r] = states[r]
          /\ states' \in [States -> {None} \cup BioState]
      BY <2>1, <2>2, NoneAssumption DEF TypeOK
    <2>4. \A b \in Bios : Bridged(b) => stateOf(b) # s
      BY <1>2, <2>1
    <2>5. call'.pc = "create" /\ call'.state = s /\ call'.method = m
      BY <2>1
    <2>6. TypeOK'
      BY <1>1, <2>1, <2>3 DEF TypeOK
    <2>7. OwnersInv'
      <3>1. \A b \in Bios : Bridged(b) => states'[stateOf(b)] # None /\ s # stateOf(b)
        BY <1>2, <2>3, <2>4
      <3>2. \A r \in States \ {s} : states'[r] # None =>
               \E b \in Bios : Bridged(b) /\ stateOf(b) = r
        BY <2>1, <2>3, NoneAssumption DEF OwnersInv
      <3> QED
        BY <1>2, <2>3, <2>5, <3>1, <3>2 DEF OwnersInv
    <2>8. PrivateInv'
      <3>1. s \notin private
        BY <2>1 DEF PrivateInv
      <3> QED
        BY <2>1, <2>2, <2>3, <2>5, <3>1 DEF PrivateInv, TypeOK
    <2> QED
      BY <1>3, <2>3, <2>4, <2>6, <2>7, <2>8
  <1>5. ASSUME NEW init \in BOOLEAN, NewCreates(init) PROVE BioInv'
    <2>1. PICK s \in States : s = call.state /\ states[s] \in BioState /\ call.method \in Methods
      BY <1>5 DEF NewCreates, TypeOK, Idle, OwnersInv
    <2>2. /\ call.pc = "create" /\ call' = [call EXCEPT !.pc = "wrap"]
          /\ call \in [pc : {"create", "wrap"}, method : Methods, state : States]
          /\ states' = [states EXCEPT ![s].legacy.init = init]
          /\ private' = IF call.method.create /\ call.method.destroy
                        THEN private \cup {s} ELSE private
      BY <1>5, <2>1 DEF NewCreates, TypeOK, Idle
    <2>3. /\ states'[s] \in BioState /\ states'[s].original = states[s].original
          /\ \A r \in States \ {s} : states'[r] = states[r]
          /\ states' \in [States -> {None} \cup BioState]
      BY <2>1, <2>2 DEF TypeOK, BioState, View
    <2>4. states[s] # None /\ states'[s] # None
      BY <2>1, <2>3, NoneAssumption
    <2>5. \A b \in Bios : Bridged(b) => stateOf(b) # s
      BY <1>2, <2>1
    <2>6. call'.pc = "wrap" /\ call'.state = s /\ call'.method = call.method
          /\ call' \in [pc : {"create", "wrap"}, method : Methods, state : States]
      BY <2>1, <2>2
    <2>7. TypeOK'
      BY <1>1, <2>1, <2>2, <2>3, <2>6 DEF TypeOK
    <2>8. OwnersInv'
      <3>1. \A r \in States : states'[r] = None <=> states[r] = None
        BY <2>3, <2>4
      <3> QED
        BY <1>2, <2>1, <2>4, <2>6, <3>1 DEF OwnersInv
    <2>9. PrivateInv'
      <3>1. states'[s].original = call.method
        BY <2>1, <2>2, <2>3 DEF PrivateInv
      <3>2. \A r \in private : states'[r] # None /\ states'[r].original.destroy
        BY <2>3, <2>4 DEF PrivateInv, TypeOK
      <3>3. \A r \in private' : states'[r] # None /\ states'[r].original.destroy
        BY <2>2, <2>4, <3>1, <3>2
      <3> QED
        BY <2>6, <3>1, <3>3 DEF PrivateInv
    <2> QED
      BY <1>3, <2>3, <2>5, <2>7, <2>8, <2>9
  <1>6. ASSUME CreateFails \/ WrapFails PROVE BioInv'
    <2>1. PICK s \in States : s = call.state /\ states[s] \in BioState /\ call.pc # "idle"
      BY <1>6 DEF CreateFails, WrapFails, TypeOK, Idle, OwnersInv
    <2>2. /\ call' = Idle /\ states' = [states EXCEPT ![s] = None]
          /\ private' \subseteq private /\ s \notin private'
      BY <1>6, <2>1 DEF CreateFails, WrapFails, DestroyAndFree, PrivateInv
    <2>3. /\ states'[s] = None /\ \A r \in States \ {s} : states'[r] = states[r]
          /\ states' \in [States -> {None} \cup BioState]
      BY <2>2 DEF TypeOK
    <2>4. \A b \in Bios : Bridged(b) => stateOf(b) # s
      BY <1>2, <2>1
    <2>5. call'.pc = "idle" /\ call'.state = None
      BY <2>2 DEF Idle
    <2>6. TypeOK'
      BY <1>1, <2>2, <2>3 DEF TypeOK
    <2>7. OwnersInv'
      <3>1. \A b \in Bios : Bridged(b) => states'[stateOf(b)] # None /\ None # stateOf(b)
        BY <1>2, <2>3, <2>4, NoneAssumption
      <3>2. \A r \in States : states'[r] # None =>
               \E b \in Bios : Bridged(b) /\ stateOf(b) = r
        BY <2>1, <2>3 DEF OwnersInv
      <3> QED
        BY <1>2, <2>5, <3>1, <3>2 DEF OwnersInv
    <2>8. PrivateInv'
      BY <2>2, <2>3, <2>5 DEF PrivateInv, TypeOK
    <2> QED
      BY <1>3, <2>3, <2>4, <2>6, <2>7, <2>8
  <1> QED
    BY <1>4, <1>5, <1>6

(* A change of one native BIO that is not bridged, before or after, and of  *)
(* nothing else.                                                            *)
LEMMA PlainKeeps ==
    ASSUME BioInv, NEW b \in Bios, NEW n \in {None} \cup NativeBio, n # None => n.data = None,
           ~Bridged(b), native' = [native EXCEPT ![b] = n],
           told' \in [Bios -> {None, "again", "done"}], told'[b] = None,
           \A c \in Bios : c # b => told'[c] = told[c], UNCHANGED <<states, private, call>>
    PROVE  BioInv'
  <1> USE DEF BioInv
  <1>1. /\ native'[b] = n /\ \A c \in Bios : c # b => native'[c] = native[c]
        /\ native' \in [Bios -> {None} \cup NativeBio]
    BY DEF TypeOK
  <1>2. /\ \A c \in Bios : Bridged(c)' <=> Bridged(c)
        /\ \A c \in Bios : Bridged(c) => c # b /\ native'[c] = native[c]
                                          /\ stateOf(c)' = stateOf(c)
    BY <1>1 DEF Bridged, Live, stateOf
  <1>3. TypeOK'
    BY <1>1 DEF TypeOK
  <1>4. OwnersInv'
    BY <1>2 DEF OwnersInv
  <1>5. PrivateInv'
    BY DEF PrivateInv
  <1>6. FlagsInv' /\ InitInStep'
    BY <1>2 DEF FlagsInv, InitInStep
  <1> QED
    BY <1>3, <1>4, <1>5, <1>6

(* BIOs that are passed through to the library.                             *)
LEMMA PassedKeeps ==
    ASSUME BioInv, NEW b \in Bios, PlainFree(b) \/ \E m \in Methods : NewPasses(b, m)
    PROVE  BioInv'
  <1> USE DEF BioInv
  <1>1. [view |-> Blank, data |-> None] \in NativeBio
    BY DEF NativeBio, Blank, View
  <1>2. ASSUME NEW m \in Methods, NewPasses(b, m) PROVE BioInv'
    <2>1. PICK n \in NativeBio : n = [view |-> Blank, data |-> None]
      BY <1>1
    <2>2. /\ native' = [native EXCEPT ![b] = n] /\ n.data = None /\ ~Bridged(b)
          /\ told' = [told EXCEPT ![b] = None] /\ UNCHANGED <<states, private, call>>
      BY <1>2, <2>1 DEF NewPasses, Bridged, Live
    <2>3. /\ told' \in [Bios -> {None, "again", "done"}] /\ told'[b] = None
          /\ \A c \in Bios : c # b => told'[c] = told[c]
      BY <2>2 DEF TypeOK
    <2> QED
      BY <2>2, <2>3, PlainKeeps
  <1>3. CASE PlainFree(b)
    <2>1. /\ native' = [native EXCEPT ![b] = None] /\ ~Bridged(b)
          /\ UNCHANGED <<states, private, call, told>>
      BY <1>3 DEF PlainFree
    <2>2. told'[b] = None /\ told' \in [Bios -> {None, "again", "done"}]
      BY <2>1 DEF FlagsInv, TypeOK
    <2> QED
      BY <2>1, <2>2, PlainKeeps
  <1> QED
    BY <1>2, <1>3

(* BIO_new gives the BioState it holds to a native BIO, whose view it       *)
(* fills in.                                                                *)
LEMMA WrapsKeeps ==
    ASSUME BioInv, NEW b \in Bios, NewWraps(b)
    PROVE  BioInv'
  <1> USE DEF BioInv
  <1>1. PICK s \in States : s = call.state /\ states[s] \in BioState /\ call.pc = "wrap"
    BY DEF NewWraps, TypeOK, Idle, OwnersInv
  <1>2. PICK v \in View : v = states[s].legacy
    BY <1>1 DEF BioState
  <1>3. syncFlags([native |-> Blank, legacy |-> v]).native = v
    BY DEF syncFlags
  <1>4. /\ native[b] = None /\ native' = [native EXCEPT ![b] = [view |-> v, data |-> s]]
        /\ told' = [told EXCEPT ![b] = None] /\ call' = Idle /\ UNCHANGED <<states, private>>
    BY <1>1, <1>2, <1>3 DEF NewWraps
  <1>5. PICK n \in NativeBio : n = [view |-> v, data |-> s]
    BY DEF NativeBio
  <1>6. /\ native'[b] = n /\ n.view = v /\ n.data = s /\ n # None /\ s # None
        /\ \A c \in Bios : c # b => native'[c] = native[c]
        /\ native' \in [Bios -> {None} \cup NativeBio]
    BY <1>4, <1>5, NoneAssumption DEF TypeOK
  <1>7. /\ told' \in [Bios -> {None, "again", "done"}] /\ told'[b] = None
        /\ \A c \in Bios : c # b => told'[c] = told[c]
    BY <1>4 DEF TypeOK
  <1>8. call'.pc = "idle" /\ call'.state = None
    BY <1>4 DEF Idle
  <1>9. /\ ~Bridged(b) /\ Bridged(b)' /\ stateOf(b)' = s
        /\ \A c \in Bios : c # b => (Bridged(c)' <=> Bridged(c)) /\ stateOf(c)' = stateOf(c)
        /\ \A c \in Bios : Bridged(c) => stateOf(c) # s /\ stateOf(c) \in States
                                         /\ states[stateOf(c)] # None
    BY <1>1, <1>4, <1>6, BridgedIs DEF Bridged, Live, stateOf, OwnersInv
  <1>10. TypeOK'
    BY <1>4, <1>6, <1>7 DEF TypeOK
  <1>11. OwnersInv'
    <2>1. \A c, d \in Bios : (Bridged(c) /\ Bridged(d) /\ stateOf(c) = stateOf(d))' => c = d
      BY <1>9 DEF OwnersInv
    <2>2. \A c \in Bios : Bridged(c)' => (states[stateOf(c)])' # None /\ None # stateOf(c)'
      BY <1>1, <1>4, <1>6, <1>9, NoneAssumption
    <2>3. \A r \in States : states'[r] # None => \E c \in Bios : Bridged(c)' /\ stateOf(c)' = r
      BY <1>1, <1>4, <1>9 DEF OwnersInv
    <2> QED
      BY <1>8, <2>1, <2>2, <2>3 DEF OwnersInv
  <1>12. PrivateInv'
    BY <1>4, <1>8 DEF PrivateInv
  <1>13. FlagsInv'
    BY <1>4, <1>6, <1>7, <1>9 DEF FlagsInv
  <1>14. InitInStep'
    BY <1>2, <1>4, <1>6, <1>9 DEF InitInStep
  <1> QED
    BY <1>10, <1>11, <1>12, <1>13, <1>14

(* bridgeDestroy frees the BioState of one BIO and the BIO with it.         *)
LEMMA DestroyKeeps ==
    ASSUME BioInv, NEW b \in Bios, bridgeDestroy(b)
    PROVE  BioInv'
  <1> USE DEF BioInv
  <1>1. Bridged(b)
    BY DEF bridgeDestroy
  <1>2. PICK s \in States : s = stateOf(b) /\ states[s] \in BioState
    BY <1>1, BridgedIs
  <1>3. /\ native' = [native EXCEPT ![b] = None] /\ told' = [told EXCEPT ![b] = None]
        /\ states' = [states EXCEPT ![s] = None] /\ UNCHANGED call
        /\ private' \subseteq private /\ s \notin private'
    BY <1>2 DEF bridgeDestroy, DestroyAndFree, PrivateInv
  <1>4. /\ native'[b] = None /\ told'[b] = None /\ states'[s] = None
        /\ \A c \in Bios : c # b => native'[c] = native[c] /\ told'[c] = told[c]
        /\ \A r \in States : r # s => states'[r] = states[r]
        /\ native' \in [Bios -> {None} \cup NativeBio]
        /\ states' \in [States -> {None} \cup BioState]
        /\ told' \in [Bios -> {None, "again", "done"}]
    BY <1>3 DEF TypeOK
  <1>5. /\ ~Bridged(b)' /\ call.state # s
        /\ \A c \in Bios : c # b => (Bridged(c)' <=> Bridged(c)) /\ stateOf(c)' = stateOf(c)
        /\ \A c \in Bios : c # b /\ Bridged(c) => stateOf(c) # s /\ stateOf(c) \in States
    BY <1>1, <1>2, <1>4, BridgedIs DEF Bridged, Live, stateOf, OwnersInv
  <1>6. \A c \in Bios : Bridged(c)' => /\ c # b /\ Bridged(c) /\ native'[c] = native[c]
                                       /\ (states[stateOf(c)])' = states[stateOf(c)]
                                       /\ stateOf(c)' = stateOf(c)
    BY <1>4, <1>5
  <1>7. call.pc # "idle" => call.state \in States
    BY DEF TypeOK, Idle
  <1>8. TypeOK'
    BY <1>3, <1>4 DEF TypeOK
  <1>9. OwnersInv'
    <2>1. \A r \in States : states'[r] # None =>
             call'.state = r \/ \E c \in Bios : Bridged(c)' /\ stateOf(c)' = r
      BY <1>2, <1>3, <1>4, <1>5 DEF OwnersInv
    <2>2. call'.pc # "idle" => states'[call'.state] # None
      BY <1>3, <1>4, <1>5, <1>7 DEF OwnersInv
    <2> QED
      BY <1>3, <1>6, <2>1, <2>2 DEF OwnersInv
  <1>10. PrivateInv'
    BY <1>3, <1>4, <1>5, <1>7 DEF PrivateInv, TypeOK
  <1>11. FlagsInv' /\ InitInStep'
    <2>1. \A c \in Bios : told'[c] # None => told[c] = told'[c] /\ c # b
      BY <1>4
    <2>2. \A c \in Bios : told'[c] # None => Bridged(c)'
      BY <1>5, <2>1 DEF FlagsInv
    <2> QED
      BY <1>6, <2>1, <2>2 DEF FlagsInv, InitInStep
  <1> QED
    BY <1>8, <1>9, <1>10, <1>11

(* A change of the native flags from outside: no answer is claimed for the  *)
(* BIO until the blob gives the next.                                       *)
LEMMA OutsideKeeps ==
    ASSUME BioInv, NEW b \in Bios, OutsideChange(b)
    PROVE  BioInv'
  <1> USE DEF BioInv
  <1>1. native[b] \in NativeBio /\ native[b] # None
    BY DEF OutsideChange, Live, TypeOK
  <1>2. PICK v \in View : /\ native' = [native EXCEPT ![b].view = v]
                          /\ v.init = native[b].view.init
    <2> DEFINE vs == [native |-> native[b].view]
    <2>1. vs \in [native : View]
      BY <1>1 DEF NativeBio
    <2>2. \A ws \in {BIO_clear_retry_flags(vs, "native"), BIO_set_retry_read(vs, "native"),
                      [vs EXCEPT !.native.flags = @ \cup {"OTHER"}]} :
             ws.native \in View /\ ws.native.init = vs.native.init
      <3> HIDE DEF vs
      <3>1. [vs EXCEPT !.native.flags = @ \ Retry].native \in View
            /\ [vs EXCEPT !.native.flags = @ \ Retry].native.init = vs.native.init
        BY <2>1 DEF View
      <3>2. [vs EXCEPT !.native.flags = @ \cup {"READ", "RETRY"}].native \in View
            /\ [vs EXCEPT !.native.flags = @ \cup {"READ", "RETRY"}].native.init
                  = vs.native.init
        BY <2>1 DEF View, Flags, Retry
      <3>3. [vs EXCEPT !.native.flags = @ \cup {"OTHER"}].native \in View
            /\ [vs EXCEPT !.native.flags = @ \cup {"OTHER"}].native.init = vs.native.init
        BY <2>1 DEF View, Flags
      <3> QED
        BY <3>1, <3>2, <3>3 DEF BIO_clear_retry_flags, BIO_set_retry_read
    <2>3. PICK ws \in {BIO_clear_retry_flags(vs, "native"), BIO_set_retry_read(vs, "native"),
                       [vs EXCEPT !.native.flags = @ \cup {"OTHER"}]} :
             native' = [native EXCEPT ![b].view = ws.native]
      BY DEF OutsideChange
    <2> QED
      BY <2>2, <2>3
  <1>3. /\ native'[b] \in NativeBio /\ native'[b].view = v
        /\ native'[b].data = native[b].data
        /\ \A c \in Bios : c # b => native'[c] = native[c]
        /\ native' \in [Bios -> {None} \cup NativeBio]
    BY <1>1, <1>2 DEF TypeOK, NativeBio
  <1>4. native'[b] # None
    BY <1>3, NoneAssumption
  <1>5. /\ told' = [told EXCEPT ![b] = None] /\ UNCHANGED <<states, private, call>>
        /\ told' \in [Bios -> {None, "again", "done"}] /\ told'[b] = None
        /\ \A c \in Bios : c # b => told'[c] = told[c]
    BY DEF OutsideChange, TypeOK
  <1>6. \A c \in Bios : (Bridged(c)' <=> Bridged(c)) /\ stateOf(c)' = stateOf(c)
    BY <1>1, <1>3, <1>4 DEF Bridged, Live, stateOf
  <1>7. TypeOK'
    BY <1>3, <1>5 DEF TypeOK
  <1>8. OwnersInv' /\ PrivateInv'
    BY <1>5, <1>6 DEF OwnersInv, PrivateInv
  <1>9. FlagsInv'
    BY <1>3, <1>5, <1>6 DEF FlagsInv
  <1>10. InitInStep'
    BY <1>2, <1>3, <1>5, <1>6 DEF InitInStep
  <1> QED
    BY <1>7, <1>8, <1>9, <1>10

(* The invariant holds of every sequence of calls.                          *)
LEMMA BioAlways == Spec => []BioInv
  <1>1. Init => BioInv
    <2> SUFFICES ASSUME Init PROVE BioInv
      OBVIOUS
    <2>1. /\ \A b \in Bios : native[b] = None /\ told[b] = None
          /\ \A s \in States : states[s] = None
          /\ private = {} /\ call.pc = "idle"
      BY DEF Init, Idle
    <2>2. TypeOK
      BY DEF Init, TypeOK
    <2> QED
      BY <2>1, <2>2 DEF BioInv, OwnersInv, PrivateInv, FlagsInv, InitInStep, Bridged, Live
  <1>2. BioInv /\ [Next]_vars => BioInv'
    <2> SUFFICES ASSUME BioInv, [Next]_vars PROVE BioInv'
      OBVIOUS
    <2>1. CASE UNCHANGED vars
      BY <2>1 DEF vars, BioInv, TypeOK, OwnersInv, PrivateInv, FlagsInv, InitInStep,
                  Bridged, Live, stateOf
    <2>2. CASE Next
      BY <2>2, NewKeeps, BridgeKeeps, PassedKeeps, WrapsKeeps, DestroyKeeps, OutsideKeeps
         DEF Next
    <2> QED
      BY <2>1, <2>2
  <1> QED
    BY <1>1, <1>2, PTL DEF Spec

-----------------------------------------------------------------------------
(* No BioState is leaked, shared or used after it was freed, along every    *)
(* path of BIO_new and BIO_free, and no object of the blob outlives it.     *)
THEOREM StatesStayOwned == Spec => []StatesOwned
  <1>1. BioInv => StatesOwned
    <2> SUFFICES ASSUME BioInv PROVE StatesOwned
      OBVIOUS
    <2> USE DEF BioInv
    <2> DEFINE owners(s) == {b \in Bios : Live(b) /\ stateOf(b) = s}
               held(s) == IF call.state = s THEN 1 ELSE 0
    <2>1. ASSUME NEW s \in States
          PROVE  Cardinality(owners(s)) + held(s) = IF states[s] = None THEN 0 ELSE 1
      <3>1. \A b \in owners(s) : Bridged(b) /\ stateOf(b) = s
        BY NoneAssumption DEF Bridged, stateOf
      <3>2. CASE states[s] = None
        <4>1. owners(s) = {} /\ call.state # s
          <5>1. owners(s) = {}
            BY <3>1, <3>2 DEF OwnersInv
          <5>2. call.state # s
            BY <3>2, NoneAssumption DEF OwnersInv, TypeOK, Idle
          <5> QED
            BY <5>1, <5>2
        <4> QED
          BY <3>2, <4>1, FS_EmptySet
      <3>3. CASE states[s] # None /\ call.state = s
        <4>1. owners(s) = {}
          BY <3>1, <3>3 DEF OwnersInv
        <4> QED
          BY <3>3, <4>1, FS_EmptySet
      <3>4. CASE states[s] # None /\ call.state # s
        <4>1. PICK b \in Bios : Bridged(b) /\ stateOf(b) = s
          BY <3>4 DEF OwnersInv
        <4>2. owners(s) = {b}
          BY <3>1, <4>1 DEF OwnersInv, Bridged
        <4>3. Cardinality({b}) = 1
          BY FS_Singleton
        <4> QED
          BY <3>4, <4>2, <4>3
      <3> QED
        BY <3>2, <3>3, <3>4
    <2>2. \A s \in private : states[s] # None
      BY DEF PrivateInv
    <2> QED
      BY <2>1, <2>2 DEF StatesOwned
  <1> QED
    BY <1>1, BioAlways, PTL

(* What the library sees on a native BIO is what the blob last said on its  *)
(* own view, whatever was called in between.                                *)
THEOREM ViewsStayInStep == Spec => []ViewsInStep
  <1>1. BioInv => ViewsInStep
    BY NoneAssumption DEF BioInv, FlagsInv, ViewsInStep, RetryReported
  <1> QED
    BY <1>1, BioAlways, PTL

(* A read or write through the bridge keeps every flag of the native BIO    *)
(* that is not one of the retry flags.                                      *)
THEOREM ForeignFlagsKept == Spec => KeepsForeignFlags
  <1>1. BioInv /\ [Next]_vars =>
           [\A b \in Bios, again \in BOOLEAN :
              (bridgeRead(b, again) \/ bridgeWrite(b)) =>
                  native[b].view.flags \ Retry \subseteq native'[b].view.flags]_vars
    <2> SUFFICES ASSUME BioInv, NEW b \in Bios, NEW a \in BOOLEAN,
                        bridgeRead(b, a) \/ bridgeWrite(b)
                 PROVE  native[b].view.flags \ Retry \subseteq native'[b].view.flags
      OBVIOUS
    <2>1. PICK again \in BOOLEAN : Bridged(b) /\ Store(b, ThroughBridge(Views(b), again))
      BY DEF bridgeRead, bridgeWrite
    <2>2. native[b] \in NativeBio /\ Views(b) \in BothViews
      BY <2>1, BridgedIs DEF BioInv
    <2>3. PICK vs \in BothViews : vs = Views(b)
      BY <2>2
    <2>4. native'[b].view = ThroughBridge(vs, again).native
      BY <2>1, <2>2, <2>3 DEF Store, BioInv, TypeOK, NativeBio
    <2>5. vs.native.flags \ Retry \subseteq ThroughBridge(vs, again).native.flags
      BY ThroughIs
    <2>6. vs.native.flags = native[b].view.flags
      BY <2>3 DEF Views
    <2> QED
      BY <2>4, <2>5, <2>6
  <1> QED
    BY <1>1, BioAlways, PTL DEF Spec, KeepsForeignFlags
=============================================================================
