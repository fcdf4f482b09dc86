------------------------------- MODULE AgpsBio -------------------------------
(***************************************************************************)
(* The BIO bridge of libshims/agps_ssl: Sony's mtk_agpsd was built against *)
(* an older BIO layout, so a BIO with one of its methods is a native BIO   *)
(* of kBridgeMethod whose data is a BioState: the Oreo view (legacy) the   *)
(* blob's callbacks work on, and the blob's own method (original).  Flags  *)
(* and init therefore exist twice and are copied by the bridge callbacks.  *)
(*                                                                         *)
(* mtk_agpsd drives a BIO from one thread: a bridge callback is one step.  *)
(* BIO_new is split at the calls that may fail, since what it holds at     *)
(* each of them must be given back.                                        *)
(***************************************************************************)
EXTENDS Naturals, FiniteSets

CONSTANTS Bios,    \* addresses of native BIOs
          States,  \* addresses calloc may return for a BioState
          None

Retry == {"READ", "WRITE", "RETRY"}         \* BIO_FLAGS_RWS | SHOULD_RETRY
Flags == Retry \cup {"OTHER"}

(* What the code looks at in a BIO_METHOD: whether it lies in mtk_agpsd,   *)
(* whether it has exactly the callbacks of the stock method, and which of  *)
(* the optional callbacks are there.                                       *)
Methods == [mtk : BOOLEAN, stock : BOOLEAN,
            ctrl : BOOLEAN, create : BOOLEAN, destroy : BOOLEAN]

View  == [flags : SUBSET Flags, init : BOOLEAN]
Blank == [flags |-> {}, init |-> FALSE]

NativeBio == [view : View, data : {None} \cup States]
BioState  == [legacy : View, original : Methods]

(* A null pointer is none of the objects.                                  *)
ASSUME NoneAssumption ==
    None \notin States \cup NativeBio \cup BioState \cup {"again", "done"}

VARIABLES native,   \* Bios -> the native BIO there, or None
          states,   \* States -> the BioState there, or None
          private,  \* BioStates whose blob object was created and not destroyed
          call,     \* the BIO_new under way
          told      \* ghost: what the blob last answered through each BIO

vars == <<native, states, private, call, told>>

Idle == [pc |-> "idle", method |-> None, state |-> None]

Init ==
    /\ native = [b \in Bios |-> None]
    /\ states = [s \in States |-> None]
    /\ private = {}
    /\ call = Idle
    /\ told = [b \in Bios |-> None]

Live(b) == native[b] # None
Bridged(b) == Live(b) /\ native[b].data # None
stateOf(b) == native[b].data

-----------------------------------------------------------------------------
(* The two functions the blob calls, on whichever view it was handed: the  *)
(* marker in the method field tells them apart.                            *)

BIO_clear_retry_flags(vs, view) ==
    [vs EXCEPT ![view].flags = @ \ Retry]

BIO_set_retry_read(vs, view) ==
    [vs EXCEPT ![view].flags = @ \cup {"READ", "RETRY"}]

Views(b) == [native |-> native[b].view, legacy |-> states[stateOf(b)].legacy]

SyncsFlagsOnly(vs) == [vs EXCEPT !.native.flags = vs.legacy.flags]   \* mutant

syncFlags(vs) == [vs EXCEPT !.native = vs.legacy]

Store(b, vs) ==
    /\ native' = [native EXCEPT ![b].view = vs.native]
    /\ states' = [states EXCEPT ![stateOf(b)].legacy = vs.legacy]

(* The blob's read and write callbacks: they clear the retry flags of the  *)
(* view they get and a read that would block then asks for a retry.        *)
BlobReads(vs, again) ==
    LET clear == BIO_clear_retry_flags(vs, "legacy")
    IN  IF again THEN BIO_set_retry_read(clear, "legacy") ELSE clear

-----------------------------------------------------------------------------
(* BIO_new *)

NewPasses(b, m) ==                    \* not one of the blob's methods
    /\ call.pc = "idle"
    /\ ~m.mtk
    /\ native[b] = None
    /\ native' = [native EXCEPT ![b] =
                    [view |-> Blank, data |-> None]]
    /\ told' = [told EXCEPT ![b] = None]
    /\ UNCHANGED <<states, private, call>>

NewState(m) == [legacy |-> Blank, original |-> m]    \* calloc'ed and filled in

NewAllocates(s, m) ==
    /\ call.pc = "idle"
    /\ m.mtk /\ m.stock               \* otherwise nullptr, nothing done
    /\ states[s] = None
    /\ states' = [states EXCEPT ![s] = NewState(m)]
    /\ call' = [pc |-> "create", method |-> m, state |-> s]
    /\ UNCHANGED <<native, private, told>>

FreesOnly(s) ==                       \* mutant: the blob's object is forgotten
    states' = [states EXCEPT ![s] = None] /\ UNCHANGED private

DestroyAndFree(s) ==                  \* the blob's destroy, if it has one; free
    /\ private' = IF states[s].original.destroy THEN private \ {s} ELSE private
    /\ states' = [states EXCEPT ![s] = None]

NewCreates(init) ==
    /\ call.pc = "create"
    /\ ~call.method.create => ~init
    /\ states' = [states EXCEPT ![call.state].legacy.init = init]
    /\ private' = IF call.method.create /\ call.method.destroy
                  THEN private \cup {call.state} ELSE private
    /\ call' = [call EXCEPT !.pc = "wrap"]
    /\ UNCHANGED <<native, told>>

CreateFails ==
    /\ call.pc = "create"
    /\ call.method.create
    /\ states' = [states EXCEPT ![call.state] = None]
    /\ call' = Idle
    /\ UNCHANGED <<native, private, told>>

NewWraps(b) ==
    /\ call.pc = "wrap"
    /\ native[b] = None
    /\ LET s  == call.state
           vs == syncFlags([native |-> Blank, legacy |-> states[s].legacy])
       IN  native' = [native EXCEPT ![b] = [view |-> vs.native, data |-> s]]
    /\ told' = [told EXCEPT ![b] = None]
    /\ call' = Idle
    /\ UNCHANGED <<states, private>>

WrapFails ==                          \* real_new returned nullptr
    /\ call.pc = "wrap"
    /\ DestroyAndFree(call.state)
    /\ call' = Idle
    /\ UNCHANGED <<native, told>>

-----------------------------------------------------------------------------
(* The callbacks of kBridgeMethod.  Around the blob's read and write the   *)
(* native flags are loaded into the Oreo view and carried back.  BoringSSL calls bread and bwrite only  *)
(* on an initialised BIO.                                                  *)

ThroughWithoutSync(vs, again) ==      \* mutant: nothing is carried back
    BlobReads([vs EXCEPT !.legacy.flags = vs.native.flags], again)

ThroughWithoutLoad(vs, again) ==      \* mutant: the native flags are not loaded
    syncFlags(BlobReads(vs, again))

ThroughBridge(vs, again) ==
    syncFlags(BlobReads([vs EXCEPT !.legacy.flags = vs.native.flags], again))

bridgeRead(b, again) ==
    /\ Bridged(b) /\ native[b].view.init
    /\ Store(b, ThroughBridge(Views(b), again))
    /\ told' = [told EXCEPT ![b] = IF again THEN "again" ELSE "done"]
    /\ UNCHANGED <<private, call>>

bridgeWrite(b) ==
    /\ Bridged(b) /\ native[b].view.init
    /\ Store(b, ThroughBridge(Views(b), FALSE))
    /\ told' = [told EXCEPT ![b] = "done"]
    /\ UNCHANGED <<private, call>>

(* The control callback may change init (BIO_C_SET_FD and the like) and    *)
(* never the flags.  The native flags are not loaded first.                *)
bridgeCtrl(b, init) ==
    /\ Bridged(b)
    /\ states[stateOf(b)].original.ctrl   \* otherwise 0, nothing done
    /\ Store(b, syncFlags([Views(b) EXCEPT !.legacy.init = init]))
    /\ UNCHANGED <<private, call, told>>

bridgeDestroy(b) ==                   \* from BIO_free, which then frees the BIO
    /\ Bridged(b)
    /\ DestroyAndFree(stateOf(b))
    /\ native' = [native EXCEPT ![b] = None]
    /\ told' = [told EXCEPT ![b] = None]
    /\ UNCHANGED call

PlainFree(b) ==                       \* BIO_free of a BIO that is not bridged
    /\ Live(b) /\ ~Bridged(b)
    /\ native' = [native EXCEPT ![b] = None]
    /\ UNCHANGED <<states, private, call, told>>

(* The same exported functions, called on a native BIO, and BIO_set_flags. *)
OutsideChange(b) ==
    /\ Live(b)
    /\ LET vs == [native |-> native[b].view]
       IN  \E ws \in {BIO_clear_retry_flags(vs, "native"),
                      BIO_set_retry_read(vs, "native"),
                      [vs EXCEPT !.native.flags = @ \cup {"OTHER"}]} :
             native' = [native EXCEPT ![b].view = ws.native]
    /\ told' = [told EXCEPT ![b] = None]
    /\ UNCHANGED <<states, private, call>>

-----------------------------------------------------------------------------
Next ==
    \/ \E m \in Methods :
         \/ \E b \in Bios : NewPasses(b, m)
         \/ \E s \in States : NewAllocates(s, m)
    \/ \E init \in BOOLEAN : NewCreates(init)
    \/ CreateFails
    \/ WrapFails
    \/ \E b \in Bios :
         \/ NewWraps(b)
         \/ \E again \in BOOLEAN : bridgeRead(b, again)
         \/ bridgeWrite(b)
         \/ \E init \in BOOLEAN : bridgeCtrl(b, init)
         \/ bridgeDestroy(b)
         \/ PlainFree(b)
         \/ OutsideChange(b)

Spec == Init /\ [][Next]_vars

-----------------------------------------------------------------------------
(* Properties *)

(* Types of the variables; a BIO passed through to the library never has a *)
(* BioState as its data.                                                   *)
TypeOK ==
    /\ native \in [Bios -> {None} \cup NativeBio]
    /\ states \in [States -> {None} \cup BioState]
    /\ private \subseteq States
    /\ told \in [Bios -> {None, "again", "done"}]
    /\ call = Idle \/ call \in [pc : {"create", "wrap"},
                                method : Methods, state : States]

(* Along every path of BIO_new, its failures included, and bridgeDestroy:  *)
(* each allocated BioState is the data of exactly one native BIO or held   *)
(* by the BIO_new under way, no native BIO points to a freed one, and the  *)
(* objects of the blob that exist belong to allocated BioStates.           *)
StatesOwned ==
    LET owners(s) == {b \in Bios : Live(b) /\ stateOf(b) = s}
        held(s) == IF call.state = s THEN 1 ELSE 0
    IN  /\ \A s \in States : Cardinality(owners(s)) + held(s)
                               = IF states[s] = None THEN 0 ELSE 1
        /\ \A s \in private : states[s] # None

(* A read that would block is seen as one to retry on the native BIO, one  *)
(* that does not is not, and control calls in between keep it so, until    *)
(* the next read or write or a change of the flags from outside.           *)
RetryReported ==
    \A b \in Bios : /\ told[b] = "again" => {"READ", "RETRY"} \subseteq native[b].view.flags
                    /\ told[b] = "done" => native[b].view.flags \cap Retry = {}

(* The library reads and writes a bridged BIO exactly when the blob has    *)
(* marked its own view initialised: native and Oreo init agree.            *)
InitInStep ==
    \A b \in Bios : Bridged(b) =>
        native[b].view.init = states[stateOf(b)].legacy.init

(* The two layouts of a bridged BIO agree on init always, and on the retry *)
(* flags from a read or write until they are changed from outside.         *)
ViewsInStep == RetryReported /\ InitInStep

(* A read or write through the bridge never drops a flag set on the native *)
(* BIO that is not a retry flag.                                           *)
KeepsForeignFlags ==
    [][\A b \in Bios, again \in BOOLEAN :
         (bridgeRead(b, again) \/ bridgeWrite(b)) =>
             native[b].view.flags \ Retry \subseteq native'[b].view.flags]_vars
=============================================================================
