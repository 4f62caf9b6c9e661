----------------------------- MODULE FrontDoor -----------------------------
(***************************************************************************)
(* The front door, internal/frontdoor/frontdoor.go, over the registry: one *)
(* goroutine per ssh session runs joinMiddleware, and next to a waiting    *)
(* guest a second one runs pumpInput.  They interleave with the owner's    *)
(* control plane (decisions and kicks, internal/control/control.go), with  *)
(* clients that hang up at any moment, and with the teardown of            *)
(* cmd/sssh/main.go, which runs when the session ends.                     *)
(***************************************************************************)
EXTENDS Registry

CONSTANT Lan    \* the connections of the LAN listener; others use the tunnel

ASSUME FrontDoorAssumption == Lan \subseteq Conns

VARIABLES
    pc,         \* where each connection's handler is
    waiting,    \* serveGuest's atomic flag: the guest is still queued
    pump,       \* the pumpInput goroutine of each guest
    interrupt,  \* TRUE when the interrupt channel, capacity 1, is full
    link,       \* the ssh session as the server sees it
    kicking,    \* the session whose on-kick callback Kick is about to invoke
    stage       \* how far the teardown has come

frontDoorVars == <<pc, waiting, pump, interrupt, link, kicking, stage>>
vars == <<registryVars, frontDoorVars>>

OwnerPcs == {"ownerTarget", "ownerBridged", "ownerReleasing"}
SessionPcs == {"guestTarget", "guestBridged", "removing"}
Pcs == OwnerPcs \cup SessionPcs \cup
       {"idle", "ownerEnding", "joining", "registered", "waiting",
        "cancelling", "accepted", "admitting", "done"}
Stages == {"running", "ending", "controlStopped", "frontdoorStopped",
           "tunnelStopped", "vmStopped", "exited"}

\* Sessions arrive until the tunnel is stopped: stopping the front door leaves
\* the tunnel's listener open, and a LAN handshake under way when the server
\* closes is not tracked yet, so its handler still starts.
Serving == stage \in {"running", "ending", "controlStopped", "frontdoorStopped"}
ControlUp == stage \in {"running", "ending"}
VMUp == stage \notin {"vmStopped", "exited"}

FrontDoorTypeOK ==
    /\ pc \in [Conns -> Pcs]
    /\ waiting \in [Conns -> BOOLEAN]
    /\ pump \in [Conns -> {"off", "reading", "stopped"}]
    /\ interrupt \in [Conns -> BOOLEAN]
    /\ link \in [Conns -> {"up", "closed", "gone"}]
    /\ kicking \subseteq Conns
    /\ stage \in Stages

TypeOK == RegistryTypeOK /\ FrontDoorTypeOK

Init ==
    /\ RegistryInit(FALSE)
    /\ pc = [c \in Conns |-> "idle"]
    /\ waiting = [c \in Conns |-> FALSE]
    /\ pump = [c \in Conns |-> "off"]
    /\ interrupt = [c \in Conns |-> FALSE]
    /\ link = [c \in Conns |-> "up"]
    /\ kicking = {}
    /\ stage = "running"

\* A handler's goroutine moves from one point of its code to the next; it must
\* first have done the notify of the registry call it is in.
Goto(c, from, to) ==
    /\ stage # "exited"
    /\ c \notin signals
    /\ pc[c] = from
    /\ pc' = [pc EXCEPT ![c] = to]

-----------------------------------------------------------------------------
(* joinMiddleware: who a connection is.                                    *)

\* No terminal was requested: the session exits at once.
RefuseWithoutPty(c) ==
    /\ Serving
    /\ Goto(c, "idle", "done")
    /\ UNCHANGED <<registryVars, waiting, pump, interrupt, link, kicking, stage>>

\* The first LAN connection that finds the slot free is the owner.
EnterAsOwner(c) ==
    /\ Serving
    /\ c \in Lan
    /\ Goto(c, "idle", "ownerTarget")
    /\ ClaimOwner(c)
    /\ UNCHANGED <<waiting, pump, interrupt, link, kicking, stage>>

\* Every other connection, and every one of the tunnel, is a guest.
EnterAsGuest(c) ==
    /\ Serving
    /\ c \in Lan => owner
    /\ Goto(c, "idle", "joining")
    /\ UNCHANGED <<registryVars, waiting, pump, interrupt, link, kicking, stage>>

-----------------------------------------------------------------------------
(* serveOwner: bridge, then the deferred ReleaseOwner and endSession.      *)

\* resolveTarget fails once the VM is torn down.
StartOwnerBridge(c) ==
    /\ Goto(c, "ownerTarget", IF VMUp THEN "ownerBridged" ELSE "ownerReleasing")
    /\ UNCHANGED <<registryVars, waiting, pump, interrupt, link, kicking, stage>>

EndOwnerBridge(c) ==
    /\ Goto(c, "ownerBridged", "ownerReleasing")
    /\ UNCHANGED <<registryVars, waiting, pump, interrupt, link, kicking, stage>>

OwnerReleases(c) ==
    /\ Goto(c, "ownerReleasing", "ownerEnding")
    /\ ReleaseOwner(c)
    /\ UNCHANGED <<waiting, pump, interrupt, link, kicking, stage>>

\* Variant of OwnerEndsSession for mutation: endSession is not called.
OwnerJustLeaves(c) ==
    /\ Goto(c, "ownerEnding", "done")
    /\ UNCHANGED <<registryVars, waiting, pump, interrupt, link, kicking, stage>>

OwnerEndsSession(c) ==
    /\ Goto(c, "ownerEnding", "done")
    /\ stage' = IF stage = "running" THEN "ending" ELSE stage
    /\ UNCHANGED <<registryVars, waiting, pump, interrupt, link, kicking>>

-----------------------------------------------------------------------------
(* serveGuest up to the decision.                                          *)

\* Variant of Register for mutation: an empty username is not asked for again.
RegisterEmptyName(c, n) ==
    /\ Goto(c, "joining", "registered")
    /\ AddPending(c, NoName)
    /\ UNCHANGED <<waiting, pump, interrupt, link, kicking, stage>>

\* join: the username typed is free.  A taken one prompts again, which changes
\* nothing.
Register(c, n) ==
    /\ Goto(c, "joining", "registered")
    /\ AddPending(c, n)
    /\ UNCHANGED <<waiting, pump, interrupt, link, kicking, stage>>

\* join: reading the guest's answer fails (hang-up, kick, end of input).
AbandonJoin(c) ==
    /\ Goto(c, "joining", "done")
    /\ UNCHANGED <<registryVars, waiting, pump, interrupt, link, kicking, stage>>

StartWaiting(c) ==
    /\ Goto(c, "registered", "waiting")
    /\ waiting' = [waiting EXCEPT ![c] = TRUE]
    /\ pump' = [pump EXCEPT ![c] = "reading"]
    /\ UNCHANGED <<registryVars, interrupt, link, kicking, stage>>

\* The four cases of the select.  Several may be ready at once, and the select
\* picks any of them.
TakeAccept(c) ==
    /\ Goto(c, "waiting", "accepted")
    /\ ReceiveDecision(c, "accept")
    /\ UNCHANGED <<waiting, pump, interrupt, link, kicking, stage>>

TakeDecline(c) ==
    /\ Goto(c, "waiting", "done")
    /\ ReceiveDecision(c, "decline")
    /\ UNCHANGED <<waiting, pump, interrupt, link, kicking, stage>>

TakeInterrupt(c) ==
    /\ interrupt[c]
    /\ Goto(c, "waiting", "cancelling")
    /\ interrupt' = [interrupt EXCEPT ![c] = FALSE]
    /\ UNCHANGED <<registryVars, waiting, pump, link, kicking, stage>>

\* Variant of TimeOut for mutation: the select has no timer.
TimeOutNever(c) ==
    /\ Goto(c, "waiting", "waiting")
    /\ UNCHANGED <<registryVars, waiting, pump, interrupt, link, kicking, stage>>

\* pendingTimeout may fire at any moment after the request was filed.
TimeOut(c) ==
    /\ Goto(c, "waiting", "cancelling")
    /\ UNCHANGED <<registryVars, waiting, pump, interrupt, link, kicking, stage>>

\* Variant of TakeDone for mutation: the case returns without CancelPending.
TakeDoneAndReturn(c) ==
    /\ link[c] = "gone"
    /\ Goto(c, "waiting", "done")
    /\ UNCHANGED <<registryVars, waiting, pump, interrupt, link, kicking, stage>>

TakeDone(c) ==
    /\ link[c] = "gone"
    /\ Goto(c, "waiting", "cancelling")
    /\ UNCHANGED <<registryVars, waiting, pump, interrupt, link, kicking, stage>>

GiveUp(c) ==
    /\ Goto(c, "cancelling", "done")
    /\ CancelPending(c)
    /\ UNCHANGED <<waiting, pump, interrupt, link, kicking, stage>>

-----------------------------------------------------------------------------
(* serveGuest after an accept.                                             *)

PassInputThrough(c) ==
    /\ Goto(c, "accepted", "admitting")
    /\ waiting' = [waiting EXCEPT ![c] = FALSE]
    /\ UNCHANGED <<registryVars, pump, interrupt, link, kicking, stage>>

Admit(c) ==
    /\ Goto(c, "admitting", "guestTarget")
    /\ Activate(c)
    /\ UNCHANGED <<waiting, pump, interrupt, link, kicking, stage>>

\* Variant of StartGuestBridge for mutation: RemoveActive is deferred only after the
\* target has been resolved.
StartGuestBridgeDefersLate(c) ==
    /\ Goto(c, "guestTarget", IF VMUp THEN "guestBridged" ELSE "done")
    /\ UNCHANGED <<registryVars, waiting, pump, interrupt, link, kicking, stage>>

StartGuestBridge(c) ==
    /\ Goto(c, "guestTarget", IF VMUp THEN "guestBridged" ELSE "removing")
    /\ UNCHANGED <<registryVars, waiting, pump, interrupt, link, kicking, stage>>

\* The guest detaches, its connection goes, the dial fails or the VM is stopped.
EndGuestBridge(c) ==
    /\ Goto(c, "guestBridged", "removing")
    /\ UNCHANGED <<registryVars, waiting, pump, interrupt, link, kicking, stage>>

Remove(c) ==
    /\ Goto(c, "removing", "done")
    /\ RemoveActive(c)
    /\ UNCHANGED <<waiting, pump, interrupt, link, kicking, stage>>

-----------------------------------------------------------------------------
(* pumpInput.  Input it discards or forwards changes no state.             *)

PumpInterrupt(c) ==
    /\ stage # "exited"
    /\ pump[c] = "reading"
    /\ link[c] = "up"
    /\ waiting[c]
    /\ pump' = [pump EXCEPT ![c] = "stopped"]
    /\ interrupt' = [interrupt EXCEPT ![c] = TRUE]
    /\ UNCHANGED <<registryVars, pc, waiting, link, kicking, stage>>

\* Variant of PumpEnds for mutation: any input of a waiting guest ends the pump.
PumpEndsAtInput(c) ==
    /\ stage # "exited"
    /\ pump[c] = "reading"
    /\ waiting[c] \/ link[c] # "up"
    /\ pump' = [pump EXCEPT ![c] = "stopped"]
    /\ UNCHANGED <<registryVars, pc, waiting, interrupt, link, kicking, stage>>

PumpEnds(c) ==
    /\ stage # "exited"
    /\ pump[c] = "reading"
    /\ link[c] # "up"
    /\ pump' = [pump EXCEPT ![c] = "stopped"]
    /\ UNCHANGED <<registryVars, pc, waiting, interrupt, link, kicking, stage>>

-----------------------------------------------------------------------------
(* The control plane and the clients.  The owner may press any key on any  *)
(* row it was ever shown; keys that find nothing to do change nothing.     *)

ConsoleReady == ControlUp /\ Console \notin signals /\ kicking = {}

Decide(c, d) ==
    /\ ConsoleReady
    /\ Resolve(Console, c, d)
    /\ UNCHANGED frontDoorVars

\* Kick reads the callback under the lock and invokes it after the unlock.
KickLooksUp(c) ==
    /\ ConsoleReady
    /\ c \in active
    /\ kicking' = {c}
    /\ UNCHANGED <<registryVars, pc, waiting, pump, interrupt, link, stage>>

\* The callback closes the session's channel and nothing else: the connection stays until
\* its client gives it up, which one that is told of the close may do, or not.
KickCloses(c) ==
    /\ stage # "exited"
    /\ c \in kicking
    /\ kicking' = {}
    /\ link' = [link EXCEPT ![c] = IF @ = "up" THEN "closed" ELSE @]
    /\ signals' = signals \cup {Console}
    /\ UNCHANGED <<names, pending, active, owner, decision, username, events,
                   pc, waiting, pump, interrupt, stage>>

\* A connection whose handler has returned is not followed any further.
HangUp(c) ==
    /\ stage # "exited"
    /\ pc[c] \notin {"idle", "done"}
    /\ link[c] # "gone"
    /\ link' = [link EXCEPT ![c] = "gone"]
    /\ UNCHANGED <<registryVars, pc, waiting, pump, interrupt, kicking, stage>>

SendEvent(g) ==
    /\ stage # "exited"
    /\ Notify(g)
    /\ UNCHANGED frontDoorVars

ReceiveEvent ==
    /\ stage # "exited"
    /\ TakeEvent
    /\ UNCHANGED frontDoorVars

-----------------------------------------------------------------------------
(* The end of the session: the owner quits the console or a signal arrives, *)
(* then the managers are stopped in reverse order.                         *)

Quit ==
    /\ stage = "running"
    /\ stage' = "ending"
    /\ UNCHANGED <<registryVars, pc, waiting, pump, interrupt, link, kicking>>

\* Stop waits for the program, so the key press being handled is finished.
StopControl ==
    /\ stage = "ending"
    /\ ConsoleReady
    /\ stage' = "controlStopped"
    /\ UNCHANGED <<registryVars, pc, waiting, pump, interrupt, link, kicking>>

\* Closing the server closes the connections it tracks and waits for no handler.
StopFrontDoor ==
    /\ stage = "controlStopped"
    /\ stage' = "frontdoorStopped"
    /\ link' = [c \in Conns |-> IF pc[c] \in {"idle", "done"} THEN link[c] ELSE "gone"]
    /\ UNCHANGED <<registryVars, pc, waiting, pump, interrupt, kicking>>

StopTunnel ==
    /\ stage = "frontdoorStopped"
    /\ stage' = "tunnelStopped"
    /\ link' = [c \in Conns |->
                   IF c \in Lan \/ pc[c] \in {"idle", "done"} THEN link[c] ELSE "gone"]
    /\ UNCHANGED <<registryVars, pc, waiting, pump, interrupt, kicking>>

StopVM ==
    /\ stage = "tunnelStopped"
    /\ stage' = "vmStopped"
    /\ UNCHANGED <<registryVars, pc, waiting, pump, interrupt, link, kicking>>

\* main returns, and every goroutine still running goes with the process.
Exit ==
    /\ stage = "vmStopped"
    /\ stage' = "exited"
    /\ UNCHANGED <<registryVars, pc, waiting, pump, interrupt, link, kicking>>

-----------------------------------------------------------------------------
Enter(c) == RefuseWithoutPty(c) \/ EnterAsOwner(c) \/ EnterAsGuest(c)

ServeOwner(c) ==
    \/ StartOwnerBridge(c) \/ EndOwnerBridge(c)
    \/ OwnerReleases(c) \/ OwnerEndsSession(c)

Join(c) == (\E n \in Names : Register(c, n)) \/ AbandonJoin(c) \/ StartWaiting(c)

Select(c) ==
    TakeAccept(c) \/ TakeDecline(c) \/ TakeInterrupt(c) \/ TimeOut(c) \/ TakeDone(c)

ServeAccepted(c) ==
    \/ PassInputThrough(c) \/ Admit(c)
    \/ StartGuestBridge(c) \/ EndGuestBridge(c) \/ Remove(c)

ServeGuest(c) == Join(c) \/ Select(c) \/ GiveUp(c) \/ ServeAccepted(c)

PumpInput(c) == PumpInterrupt(c) \/ PumpEnds(c)

Control(c) ==
    (\E d \in Decisions : Decide(c, d)) \/ KickLooksUp(c) \/ KickCloses(c)

Teardown == StopControl \/ StopFrontDoor \/ StopTunnel \/ StopVM \/ Exit

Next ==
    \/ \E c \in Conns :
          Enter(c) \/ ServeOwner(c) \/ ServeGuest(c) \/ PumpInput(c)
          \/ Control(c) \/ HangUp(c)
    \/ \E g \in Goroutines : SendEvent(g)
    \/ ReceiveEvent
    \/ Quit
    \/ Teardown

Spec == Init /\ [][Next]_vars

-----------------------------------------------------------------------------
(* Fairness.  A goroutine that can run does; the timer of the select fires;  *)
(* a bridge ends when the connection's context is done or the VM is gone;    *)
(* and every Stop returns.  The message that ends the control plane's        *)
(* program is taken in its turn, whatever keys the owner goes on pressing.   *)
(* Nothing makes a client hang up, nor a guest or the owner do anything else.*)

Fairness ==
    /\ \A c \in Conns :
          /\ WF_vars(StartOwnerBridge(c) \/ OwnerReleases(c) \/ OwnerEndsSession(c))
          /\ WF_vars((link[c] = "gone" \/ ~VMUp) /\ EndOwnerBridge(c))
          /\ WF_vars(StartWaiting(c) \/ Select(c) \/ GiveUp(c))
          /\ WF_vars(link[c] # "up" /\ AbandonJoin(c))
          /\ WF_vars(PassInputThrough(c) \/ Admit(c) \/ StartGuestBridge(c) \/ Remove(c))
          /\ WF_vars((link[c] = "gone" \/ ~VMUp) /\ EndGuestBridge(c))
          /\ WF_vars(KickCloses(c))
    /\ \A g \in Goroutines : WF_vars(SendEvent(g))
    /\ SF_vars(StopControl) /\ WF_vars(Teardown)

FairSpec == Spec /\ Fairness

-----------------------------------------------------------------------------
(* Properties.                                                             *)

\* c's accept was sent and it is on its way to Activate, or it never will be:
\* its handler left the select another way and the accept stays in the channel.
Approved(c) == decision[c] = "accept" \/ pc[c] \in {"accepted", "admitting"}

Holds(c) == c \in pending \/ c \in active \/ Approved(c)

\* A username belongs to one connection at a time, from AddPending on through
\* the accept and the session, and the registry's set of claimed names is
\* exactly the names so held: no name is freed while someone still bears it, and
\* none is kept that nobody claimed.  A decision, a cancel and a hang-up that
\* race for the same request must each free the name once or not at all.
UniqueUsernames ==
    /\ \A n \in Names : n \in names <=> \E c \in Conns : Holds(c) /\ username[c] = n
    /\ \A c, d \in Conns :
          Holds(c) /\ Holds(d) /\ username[c] = username[d] => c = d

\* A decision is in its channel only between the Resolve that settles the request
\* and the handler's select.  It is never there while the request can still be
\* resolved, so the send that Resolve makes with the registry locked cannot block,
\* which would freeze every other user of the registry; and it never outlives the
\* select of a guest that was let in.
ResolveNeverBlocks ==
    \A c \in Conns : decision[c] # NoDecision =>
        c \notin pending /\ pc[c] \in {"registered", "waiting", "cancelling", "done"}

\* A pending row has a handler that will come back for it: no request is left
\* on the owner's screen by a guest that has gone.
NoOrphanRequest ==
    \A c \in pending : pc[c] \in {"registered", "waiting", "cancelling"}

\* The sessions listed (counted, credited as co-authors, open to a kick) are
\* exactly those of handlers between Activate and RemoveActive, on the error
\* paths too.
ActiveMeansServed == \A c \in Conns : c \in active <=> pc[c] \in SessionPcs

\* The owner flag is set exactly while one handler, of a LAN connection, is in
\* serveOwner: the unconditional ReleaseOwner of one owner can never free the
\* slot of the next.
OwnerSlot ==
    /\ owner <=> \E c \in Conns : pc[c] \in OwnerPcs
    /\ \A c, d \in Conns : pc[c] \in OwnerPcs /\ pc[d] \in OwnerPcs => c = d
    /\ \A c \in Conns : pc[c] \in OwnerPcs => c \in Lan

\* "Guests are only ever admitted to a session the owner is already in": when a
\* guest is accepted or inside and the owner slot is free, the owner has just
\* left and the session is ending.
OwnerGoneMeansEnding ==
    (\E c \in Conns : Approved(c) \/ c \in active) /\ ~owner
        => stage # "running" \/ \E c \in Conns : pc[c] = "ownerEnding"

\* Line 107 of registry.go: a claimed username belongs to a pending request or
\* an active session.  Said so as to allow for the moment between the accept and
\* Activate, it means that a name is free again once its handler has returned.
NamesFreed ==
    \A n \in names : \E c \in Conns : username[c] = n /\ pc[c] # "done"

\* Lines 302-303 of frontdoor.go: once accepted, the guest's input feeds the bridge.  The
\* pump of a bridged guest whose connection is up is still reading, except in one case,
\* which those lines do not allow for: the guest's Ctrl+C raced the accept and lost.  Its
\* interrupt then stays in the channel, and the guest is in the session without input.
AdmittedGuestHasInput ==
    \A c \in Conns :
        pc[c] = "guestBridged" /\ link[c] = "up" => pump[c] = "reading" \/ interrupt[c]

\* A guest that waits does not wait for ever: the owner, the guest or the timer
\* gets it out of the queue.
RequestsAreSettled ==
    \A c \in Conns : c \in pending ~> (c \notin pending \/ stage = "exited")

\* The owner's disconnection ends the session for everyone: the handler runs its
\* deferred calls and the teardown runs to the end of the process.
OwnerLeavingEndsSession ==
    \A c \in Conns : (pc[c] = "ownerReleasing") ~> (stage = "exited")

\* Lines 109-110 of bridge.go: a kick cancels the connection, so that the bridge cannot
\* block on a dead client.  A session that was kicked then leaves the active list,
\* whatever its client does and without the whole session having to end.
KickedSessionEnds ==
    \A c \in Conns : (link[c] = "closed") ~> (c \notin active \/ stage # "running")

-----------------------------------------------------------------------------
(* The front door implements Admission.                                    *)

Seat(c) ==
    CASE c \in pending -> "waiting"
      [] c \in active -> "in"
      [] Approved(c) /\ pc[c] # "done" -> "approved"
      [] Approved(c) /\ pc[c] = "done" -> "forfeited"
      [] username[c] = NoName -> "out"
      [] OTHER -> "gone"

Closing == stage # "running" \/ \E c \in Conns : pc[c] = "ownerEnding"

Promise ==
    INSTANCE Admission WITH
        Guests <- Conns, host <- owner, closing <- Closing, name <- username,
        seat <- [c \in Conns |-> Seat(c)]

\* Every interleaving of handlers, pumps, decisions, hang-ups and teardown is a
\* behaviour of the abstract admission of guests: names are exclusive, only a
\* host who is present approves, and nobody comes in unapproved or twice.
ImplementsAdmission == Promise!Spec
=============================================================================
