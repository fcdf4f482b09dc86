------------------------- MODULE WifiHalRefinement -------------------------
(***************************************************************************)
(* WifiHal implements HalRequests, for a client that runs one request per  *)
(* event at a time and never reuses a request id.                          *)
(***************************************************************************)
EXTENDS WifiHal

Sweeping == apc \in {"sweep", "sweepCancel", "finished"}

HasHandler(c) == \E n \in DOMAIN event_cb : event_cb[n].cmd = c

(* A request is open while the client holds it to be running, until         *)
(* wifi_cleanup starts to cancel what is left; it is closing as long as a   *)
(* handler of it is registered.                                             *)
PhaseOf(c) ==
    IF c \notin DOMAIN objs THEN "new"
    ELSE IF c \in freed THEN "deleted"
    ELSE IF c \in active /\ ~Sweeping THEN "open"
    ELSE IF HasHandler(c) THEN "closing"
    ELSE "closed"

Client == INSTANCE HalRequests WITH
            Requests <- Cmds,
            None     <- NoCmd,
            phase    <- [c \in Cmds |-> PhaseOf(c)],
            calling  <- lcmd,
            busy     <- apc \notin {"idle", "finished"}

(* Tables, reference counts and the two threads keep the promises of        *)
(* HalRequests: no callback of a request begins after the call that stopped *)
(* it has returned, a call that fails or stops leaves no handler behind,    *)
(* and no command object is deleted while it is open, while a handler of it *)
(* is registered, or during its callback.                                   *)
KeepsPromises == Client!Spec
=============================================================================
