--------------------------- MODULE FrontDoorProofs ---------------------------
(***************************************************************************)
(* Proofs about FrontDoor for every set of connections, every LAN subset    *)
(* and every set of names: its safety invariants.                          *)
(***************************************************************************)
EXTENDS FrontDoor, TLAPS

\* From the select on the pump reads, unless its guest is gone or has interrupted it.
InputFlows ==
    \A c \in Conns :
        /\ pc[c] \in {"waiting", "accepted", "admitting", "guestTarget", "guestBridged"}
        /\ link[c] = "up"
        => pump[c] = "reading" \/ interrupt[c]

\* The invariants of FrontDoor are inductive together and not one by one: that a
\* name freed is nobody else's needs that it is borne once, which in turn needs to
\* know where a handler can be while its request is pending, decided or active.
IInv ==
    /\ TypeOK
    /\ UniqueUsernames
    /\ ResolveNeverBlocks
    /\ NoOrphanRequest
    /\ ActiveMeansServed
    /\ OwnerSlot
    /\ OwnerGoneMeansEnding
    /\ InputFlows

-----------------------------------------------------------------------------
(* Type correctness.                                                       *)

\* The initial state has the types of RegistryTypeOK and FrontDoorTypeOK.
LEMMA InitTyped == Init => TypeOK
  <1> SUFFICES ASSUME Init PROVE TypeOK
    OBVIOUS
  <1>1. RegistryTypeOK
    BY DEF Init, RegistryInit, RegistryTypeOK
  <1>2. FrontDoorTypeOK
    BY DEF Init, FrontDoorTypeOK, Pcs, Stages
  <1>3. QED
    BY <1>1, <1>2 DEF TypeOK

\* Every step, of any goroutine, keeps the state well typed.
LEMMA StepTyped == TypeOK /\ [Next]_vars => TypeOK'
  <1> SUFFICES ASSUME TypeOK, [Next]_vars PROVE TypeOK'
    OBVIOUS
  <1> USE RegistryAssumption, FrontDoorAssumption
      DEF TypeOK, RegistryTypeOK, FrontDoorTypeOK, Goroutines, Decisions, NoDecision,
          registryVars, frontDoorVars
  <1>1. ASSUME NEW c \in Conns, Enter(c) PROVE TypeOK'
    BY <1>1 DEF Enter, RefuseWithoutPty, EnterAsOwner, EnterAsGuest, ClaimOwner,
                Goto, Pcs, OwnerPcs, SessionPcs
  <1>2. ASSUME NEW c \in Conns, ServeOwner(c) PROVE TypeOK'
    BY <1>2 DEF ServeOwner, StartOwnerBridge, EndOwnerBridge, OwnerReleases,
                OwnerEndsSession, ReleaseOwner, Goto, Pcs, OwnerPcs, SessionPcs, Stages
  <1>3. ASSUME NEW c \in Conns, ServeGuest(c) PROVE TypeOK'
    <2> USE DEF Goto, Pcs, OwnerPcs, SessionPcs
    <2>1. CASE Join(c)
      <3>1. ASSUME NEW n \in Names, Register(c, n) PROVE TypeOK'
        BY <3>1 DEF Register, AddPending
      <3>2. CASE AbandonJoin(c) \/ StartWaiting(c)
        BY <3>2 DEF AbandonJoin, StartWaiting
      <3>3. QED
        BY <2>1, <3>1, <3>2 DEF Join
    <2>2. CASE Select(c)
      <3>1. CASE TakeAccept(c) \/ TakeDecline(c)
        BY <3>1 DEF TakeAccept, TakeDecline, ReceiveDecision
      <3>2. CASE TakeInterrupt(c) \/ TimeOut(c) \/ TakeDone(c)
        BY <3>2 DEF TakeInterrupt, TimeOut, TakeDone
      <3>3. QED
        BY <2>2, <3>1, <3>2 DEF Select
    <2>3. CASE GiveUp(c)
      BY <2>3 DEF GiveUp, CancelPending
    <2>4. CASE ServeAccepted(c)
      BY <2>4 DEF ServeAccepted, PassInputThrough, Admit, Activate, StartGuestBridge,
                  EndGuestBridge, Remove, RemoveActive
    <2>5. QED
      BY <1>3, <2>1, <2>2, <2>3, <2>4 DEF ServeGuest
  <1>4. ASSUME NEW c \in Conns, PumpInput(c) PROVE TypeOK'
    BY <1>4 DEF PumpInput, PumpInterrupt, PumpEnds
  <1>5. ASSUME NEW c \in Conns, Control(c) PROVE TypeOK'
    BY <1>5 DEF Control, Decide, Resolve, KickLooksUp, KickCloses
  <1>6. ASSUME NEW c \in Conns, HangUp(c) PROVE TypeOK'
    BY <1>6 DEF HangUp
  <1>7. ASSUME NEW g \in Goroutines, SendEvent(g) PROVE TypeOK'
    BY <1>7 DEF SendEvent, Notify
  <1>8. ASSUME ReceiveEvent PROVE TypeOK'
    BY <1>8 DEF ReceiveEvent, TakeEvent
  <1>9. ASSUME Quit \/ Teardown PROVE TypeOK'
    BY <1>9 DEF Quit, Teardown, StopControl, StopFrontDoor, StopTunnel, StopVM, Exit,
                Stages
  <1>10. CASE UNCHANGED vars
    BY <1>10 DEF vars
  <1>11. QED
    BY <1>1, <1>2, <1>3, <1>4, <1>5, <1>6, <1>7, <1>8, <1>9, <1>10 DEF Next

\* Every reachable state of the front door is well typed.
THEOREM TypeCorrect == Spec => []TypeOK
  <1>1. Init => TypeOK
    BY InitTyped
  <1>2. TypeOK /\ [Next]_vars => TypeOK'
    BY StepTyped
  <1>3. QED
    BY <1>1, <1>2, PTL DEF Spec

-----------------------------------------------------------------------------
(* Where a handler is while its request is pending, decided or active.     *)

\* Each step keeps the three invariants that say, connection by connection, where
\* a handler can be: a pending request, a decision in its channel and an active
\* session each confine it to a few points of serveGuest.
LEMMA StepLocal ==
  ASSUME IInv, [Next]_vars
  PROVE  ResolveNeverBlocks' /\ NoOrphanRequest' /\ ActiveMeansServed'
  <1> DEFINE Local == ResolveNeverBlocks /\ NoOrphanRequest /\ ActiveMeansServed
  <1> SUFFICES Local'
    OBVIOUS
  <1> USE DEF IInv, TypeOK, RegistryTypeOK, FrontDoorTypeOK, ResolveNeverBlocks,
              NoOrphanRequest, ActiveMeansServed, Goto, OwnerPcs, SessionPcs,
              NoDecision, Decisions, registryVars, frontDoorVars
  <1>1. ASSUME NEW c \in Conns, Enter(c) PROVE Local'
    BY <1>1 DEF Enter, RefuseWithoutPty, EnterAsOwner, EnterAsGuest, ClaimOwner
  <1>2. ASSUME NEW c \in Conns, ServeOwner(c) PROVE Local'
    BY <1>2 DEF ServeOwner, StartOwnerBridge, EndOwnerBridge, OwnerReleases,
                OwnerEndsSession, ReleaseOwner
  <1>3. ASSUME NEW c \in Conns, Join(c) PROVE Local'
    <2>1. ASSUME NEW n \in Names, Register(c, n) PROVE Local'
      BY <2>1 DEF Register, AddPending
    <2>2. CASE AbandonJoin(c) \/ StartWaiting(c)
      BY <2>2 DEF AbandonJoin, StartWaiting
    <2>3. QED
      BY <1>3, <2>1, <2>2 DEF Join
  <1>4. ASSUME NEW c \in Conns, Select(c) PROVE Local'
    <2>1. CASE TakeAccept(c) \/ TakeDecline(c)
      BY <2>1 DEF TakeAccept, TakeDecline, ReceiveDecision
    <2>2. CASE TakeInterrupt(c) \/ TimeOut(c) \/ TakeDone(c)
      BY <2>2 DEF TakeInterrupt, TimeOut, TakeDone
    <2>3. QED
      BY <1>4, <2>1, <2>2 DEF Select
  <1>5. ASSUME NEW c \in Conns, GiveUp(c) PROVE Local'
    BY <1>5 DEF GiveUp, CancelPending
  <1>6. ASSUME NEW c \in Conns, ServeAccepted(c) PROVE Local'
    <2>1. CASE PassInputThrough(c) \/ StartGuestBridge(c) \/ EndGuestBridge(c)
      BY <2>1 DEF PassInputThrough, StartGuestBridge, EndGuestBridge
    <2>2. CASE Admit(c)
      BY <2>2 DEF Admit, Activate
    <2>3. CASE Remove(c)
      BY <2>3 DEF Remove, RemoveActive
    <2>4. QED
      BY <1>6, <2>1, <2>2, <2>3 DEF ServeAccepted
  <1>7. ASSUME NEW c \in Conns, NEW d \in Decisions, Decide(c, d) PROVE Local'
    BY <1>7 DEF Decide, Resolve
  <1>8. ASSUME NEW c \in Conns,
               PumpInput(c) \/ KickLooksUp(c) \/ KickCloses(c) \/ HangUp(c)
        PROVE  Local'
    BY <1>8 DEF PumpInput, PumpInterrupt, PumpEnds, KickLooksUp, KickCloses, HangUp
  <1>9. ASSUME NEW g \in Goroutines, SendEvent(g) PROVE Local'
    BY <1>9 DEF SendEvent, Notify
  <1>10. CASE ReceiveEvent \/ Quit \/ Teardown
    BY <1>10 DEF ReceiveEvent, TakeEvent, Quit, Teardown, StopControl, StopFrontDoor,
                 StopTunnel, StopVM, Exit
  <1>11. CASE UNCHANGED vars
    BY <1>11 DEF vars
  <1>12. QED
    BY <1>1, <1>2, <1>3, <1>4, <1>5, <1>6, <1>7, <1>8, <1>9, <1>10, <1>11
       DEF Next, ServeGuest, Control

-----------------------------------------------------------------------------
(* Usernames.                                                              *)

\* Each step keeps the claimed names exactly those borne, each by one connection.
\* Only five actions touch a name or who bears it; for every other one the set of
\* bearers stays what it was.
LEMMA StepUnique == ASSUME IInv, [Next]_vars PROVE UniqueUsernames'
  <1> USE DEF IInv, TypeOK, RegistryTypeOK, FrontDoorTypeOK, ResolveNeverBlocks,
              NoOrphanRequest, ActiveMeansServed, Goto, OwnerPcs, SessionPcs,
              NoDecision, Decisions, registryVars, frontDoorVars, Holds, Approved
  <1> DEFINE SameBearers ==
               names' = names /\ username' = username
               /\ \A c \in Conns : Holds(c)' <=> Holds(c)
  <1>1. SameBearers => UniqueUsernames'
    BY DEF UniqueUsernames
  <1>2. ASSUME NEW c \in Conns, Enter(c) \/ ServeOwner(c) PROVE SameBearers
    BY <1>2 DEF Enter, RefuseWithoutPty, EnterAsOwner, EnterAsGuest, ClaimOwner,
                ServeOwner, StartOwnerBridge, EndOwnerBridge, OwnerReleases,
                OwnerEndsSession, ReleaseOwner
  <1>3. ASSUME NEW c \in Conns, NEW n \in Names, Register(c, n)
        PROVE  UniqueUsernames'
    <2>1. ~Holds(c)
      BY <1>3 DEF Register
    <2>2. Holds(c)' /\ \A d \in Conns \ {c} : Holds(d)' <=> Holds(d)
      BY <1>3 DEF Register, AddPending
    <2>3. username'[c] = n /\ \A d \in Conns \ {c} : username'[d] = username[d]
      BY <1>3 DEF Register, AddPending
    <2>4. n \notin names /\ names' = names \cup {n}
      BY <1>3 DEF Register, AddPending
    <2>5. QED
      BY <2>1, <2>2, <2>3, <2>4 DEF UniqueUsernames
  <1>4. ASSUME NEW c \in Conns,
               AbandonJoin(c) \/ StartWaiting(c) \/ Select(c)
        PROVE  SameBearers
    <2>1. CASE AbandonJoin(c) \/ StartWaiting(c)
      BY <2>1 DEF AbandonJoin, StartWaiting
    <2>2. CASE TakeAccept(c) \/ TakeDecline(c)
      BY <2>2 DEF TakeAccept, TakeDecline, ReceiveDecision
    <2>3. CASE TakeInterrupt(c) \/ TimeOut(c) \/ TakeDone(c)
      BY <2>3 DEF TakeInterrupt, TimeOut, TakeDone
    <2>4. QED
      BY <1>4, <2>1, <2>2, <2>3 DEF Select
  <1>5. ASSUME NEW c \in Conns, GiveUp(c) PROVE UniqueUsernames'
    <2>1. CASE c \in pending
      <3>1. Holds(c) /\ ~Holds(c)' /\ \A d \in Conns \ {c} : Holds(d)' <=> Holds(d)
        BY <1>5, <2>1 DEF GiveUp, CancelPending
      <3>2. username' = username /\ names' = names \ {username[c]}
        BY <1>5, <2>1 DEF GiveUp, CancelPending
      <3>3. QED
        BY <3>1, <3>2 DEF UniqueUsernames
    <2>2. CASE c \notin pending
      BY <1>1, <1>5, <2>2 DEF GiveUp, CancelPending
    <2>3. QED
      BY <2>1, <2>2
  <1>6. ASSUME NEW c \in Conns, ServeAccepted(c) PROVE UniqueUsernames'
    <2>1. CASE PassInputThrough(c) \/ StartGuestBridge(c) \/ EndGuestBridge(c)
      BY <1>1, <2>1 DEF PassInputThrough, StartGuestBridge, EndGuestBridge
    <2>2. CASE Admit(c)
      BY <1>1, <2>2 DEF Admit, Activate
    <2>3. CASE Remove(c)
      <3>1. Holds(c) /\ ~Holds(c)' /\ \A d \in Conns \ {c} : Holds(d)' <=> Holds(d)
        BY <2>3 DEF Remove, RemoveActive
      <3>2. username' = username /\ names' = names \ {username[c]}
        BY <2>3 DEF Remove, RemoveActive
      <3>3. QED
        BY <3>1, <3>2 DEF UniqueUsernames
    <2>4. QED
      BY <1>6, <2>1, <2>2, <2>3 DEF ServeAccepted
  <1>7. ASSUME NEW c \in Conns, NEW d \in Decisions, Decide(c, d)
        PROVE  UniqueUsernames'
    <2>1. CASE d = "accept"
      BY <1>1, <1>7, <2>1 DEF Decide, Resolve
    <2>2. CASE d = "decline"
      <3>1. Holds(c) /\ ~Holds(c)' /\ \A e \in Conns \ {c} : Holds(e)' <=> Holds(e)
        BY <1>7, <2>2 DEF Decide, Resolve
      <3>2. username' = username /\ names' = names \ {username[c]}
        BY <1>7, <2>2 DEF Decide, Resolve
      <3>3. QED
        BY <3>1, <3>2 DEF UniqueUsernames
    <2>3. QED
      BY <2>1, <2>2
  <1>8. ASSUME NEW c \in Conns,
               PumpInput(c) \/ KickLooksUp(c) \/ KickCloses(c) \/ HangUp(c)
        PROVE  SameBearers
    BY <1>8 DEF PumpInput, PumpInterrupt, PumpEnds, KickLooksUp, KickCloses, HangUp
  <1>9. ASSUME NEW g \in Goroutines, SendEvent(g) PROVE SameBearers
    BY <1>9 DEF SendEvent, Notify
  <1>10. CASE ReceiveEvent \/ Quit \/ Teardown
    BY <1>1, <1>10 DEF ReceiveEvent, TakeEvent, Quit, Teardown, StopControl,
                       StopFrontDoor, StopTunnel, StopVM, Exit
  <1>11. CASE UNCHANGED vars
    BY <1>1, <1>11 DEF vars
  <1>12. QED
    BY <1>1, <1>2, <1>3, <1>4, <1>5, <1>6, <1>7, <1>8, <1>9, <1>10, <1>11
       DEF Next, ServeGuest, Join, Control

-----------------------------------------------------------------------------
(* The owner.                                                              *)

\* Each step keeps the owner slot the mirror of the one handler in serveOwner, and
\* keeps an ownerless session with guests on its way to its end.
LEMMA StepOwner == ASSUME IInv, [Next]_vars PROVE OwnerSlot' /\ OwnerGoneMeansEnding'
  <1> DEFINE OwnerInv == OwnerSlot /\ OwnerGoneMeansEnding
  <1> SUFFICES OwnerInv'
    OBVIOUS
  <1> USE DEF IInv, TypeOK, RegistryTypeOK, FrontDoorTypeOK, ActiveMeansServed,
              ResolveNeverBlocks, NoOrphanRequest,
              Goto, OwnerPcs, SessionPcs, NoDecision, Decisions, registryVars,
              frontDoorVars, OwnerSlot, OwnerGoneMeansEnding, Approved
  <1>1. ASSUME NEW c \in Conns, Enter(c) PROVE OwnerInv'
    BY <1>1 DEF Enter, RefuseWithoutPty, EnterAsOwner, EnterAsGuest, ClaimOwner
  <1>2. ASSUME NEW c \in Conns, ServeOwner(c) PROVE OwnerInv'
    <2>1. CASE StartOwnerBridge(c) \/ EndOwnerBridge(c)
      BY <2>1 DEF StartOwnerBridge, EndOwnerBridge
    <2>2. CASE OwnerReleases(c)
      BY <2>2 DEF OwnerReleases, ReleaseOwner
    <2>3. CASE OwnerEndsSession(c)
      BY <2>3 DEF OwnerEndsSession, Stages
    <2>4. QED
      BY <1>2, <2>1, <2>2, <2>3 DEF ServeOwner
  <1>3. ASSUME NEW c \in Conns, Join(c) PROVE OwnerInv'
    <2>1. ASSUME NEW n \in Names, Register(c, n) PROVE OwnerInv'
      BY <2>1 DEF Register, AddPending
    <2>2. CASE AbandonJoin(c) \/ StartWaiting(c)
      BY <2>2 DEF AbandonJoin, StartWaiting
    <2>3. QED
      BY <1>3, <2>1, <2>2 DEF Join
  <1>4. ASSUME NEW c \in Conns, Select(c) PROVE OwnerInv'
    <2>1. CASE TakeAccept(c) \/ TakeDecline(c)
      BY <2>1 DEF TakeAccept, TakeDecline, ReceiveDecision
    <2>2. CASE TakeInterrupt(c) \/ TimeOut(c) \/ TakeDone(c)
      BY <2>2 DEF TakeInterrupt, TimeOut, TakeDone
    <2>3. QED
      BY <1>4, <2>1, <2>2 DEF Select
  <1>5. ASSUME NEW c \in Conns, GiveUp(c) PROVE OwnerInv'
    BY <1>5 DEF GiveUp, CancelPending
  <1>6. ASSUME NEW c \in Conns, ServeAccepted(c) PROVE OwnerInv'
    <2>1. CASE PassInputThrough(c) \/ StartGuestBridge(c) \/ EndGuestBridge(c)
      BY <2>1 DEF PassInputThrough, StartGuestBridge, EndGuestBridge
    <2>2. CASE Admit(c)
      BY <2>2 DEF Admit, Activate
    <2>3. CASE Remove(c)
      BY <2>3 DEF Remove, RemoveActive
    <2>4. QED
      BY <1>6, <2>1, <2>2, <2>3 DEF ServeAccepted
  <1>7. ASSUME NEW c \in Conns, NEW d \in Decisions, Decide(c, d) PROVE OwnerInv'
    BY <1>7 DEF Decide, Resolve
  <1>8. ASSUME NEW c \in Conns,
               PumpInput(c) \/ KickLooksUp(c) \/ KickCloses(c) \/ HangUp(c)
        PROVE  OwnerInv'
    BY <1>8 DEF PumpInput, PumpInterrupt, PumpEnds, KickLooksUp, KickCloses, HangUp
  <1>9. ASSUME NEW g \in Goroutines, SendEvent(g) PROVE OwnerInv'
    BY <1>9 DEF SendEvent, Notify
  <1>10. CASE ReceiveEvent \/ Quit \/ Teardown
    BY <1>10 DEF ReceiveEvent, TakeEvent, Quit, Teardown, StopControl, StopFrontDoor,
                 StopTunnel, StopVM, Exit
  <1>11. CASE UNCHANGED vars
    BY <1>11 DEF vars
  <1>12. QED
    BY <1>1, <1>2, <1>3, <1>4, <1>5, <1>6, <1>7, <1>8, <1>9, <1>10, <1>11
       DEF Next, ServeGuest, Control

-----------------------------------------------------------------------------
(* The guests' input.                                                      *)

\* Every step keeps InputFlows: the pump stops for a guest that goes or interrupts, and
\* only the select that then gives the request up takes the interrupt.
LEMMA StepInput == ASSUME TypeOK, InputFlows, [Next]_vars PROVE InputFlows'
  <1> USE DEF TypeOK, FrontDoorTypeOK, InputFlows, frontDoorVars
  <1>1. ASSUME NEW c \in Conns, Enter(c) \/ ServeOwner(c) PROVE InputFlows'
    BY <1>1 DEF Enter, RefuseWithoutPty, EnterAsOwner, EnterAsGuest, ServeOwner,
                StartOwnerBridge, EndOwnerBridge, OwnerReleases, OwnerEndsSession, Goto
  <1>2. ASSUME NEW c \in Conns, Join(c) PROVE InputFlows'
    BY <1>2 DEF Join, Register, AbandonJoin, StartWaiting, Goto
  <1>3. ASSUME NEW c \in Conns, Select(c) \/ GiveUp(c) PROVE InputFlows'
    BY <1>3 DEF Select, TakeAccept, TakeDecline, TakeInterrupt, TimeOut, TakeDone, GiveUp,
                Goto
  <1>4. ASSUME NEW c \in Conns, ServeAccepted(c) PROVE InputFlows'
    BY <1>4 DEF ServeAccepted, PassInputThrough, Admit, StartGuestBridge, EndGuestBridge,
                Remove, Goto
  <1>5. ASSUME NEW c \in Conns, PumpInput(c) \/ HangUp(c) PROVE InputFlows'
    BY <1>5 DEF PumpInput, PumpInterrupt, PumpEnds, HangUp
  <1>6. ASSUME NEW c \in Conns, Control(c) PROVE InputFlows'
    BY <1>6 DEF Control, Decide, KickLooksUp, KickCloses
  <1>7. ASSUME NEW g \in Goroutines, SendEvent(g) PROVE InputFlows'
    BY <1>7 DEF SendEvent
  <1>8. CASE ReceiveEvent \/ Quit \/ Teardown
    BY <1>8 DEF ReceiveEvent, Quit, Teardown, StopControl, StopFrontDoor, StopTunnel,
                StopVM, Exit
  <1>9. CASE UNCHANGED vars
    BY <1>9 DEF vars
  <1>10. QED
    BY <1>1, <1>2, <1>3, <1>4, <1>5, <1>6, <1>7, <1>8, <1>9 DEF Next, ServeGuest

-----------------------------------------------------------------------------
(* The inductive invariant and what follows from it.                       *)

\* The registry starts empty and no handler has started.
LEMMA InitInv == Init => IInv
  <1> SUFFICES ASSUME Init PROVE IInv
    OBVIOUS
  <1>1. TypeOK
    BY InitTyped
  <1>2. UniqueUsernames
    BY DEF Init, RegistryInit, UniqueUsernames, Holds, Approved, NoDecision
  <1>3. ResolveNeverBlocks /\ NoOrphanRequest /\ ActiveMeansServed
    BY DEF Init, RegistryInit, ResolveNeverBlocks, NoOrphanRequest, ActiveMeansServed,
           SessionPcs
  <1>4. OwnerSlot /\ OwnerGoneMeansEnding
    BY DEF Init, RegistryInit, OwnerSlot, OwnerGoneMeansEnding, OwnerPcs, Approved,
           NoDecision
  <1>5. InputFlows
    BY DEF Init, InputFlows
  <1>6. QED
    BY <1>1, <1>2, <1>3, <1>4, <1>5 DEF IInv

\* IInv holds in every reachable state.
THEOREM Invariance == Spec => []IInv
  <1>1. Init => IInv
    BY InitInv
  <1>2. IInv /\ [Next]_vars => IInv'
    BY StepTyped, StepLocal, StepUnique, StepOwner, StepInput DEF IInv
  <1>3. QED
    BY <1>1, <1>2, PTL DEF Spec

\* However decisions, cancels, time-outs and hang-ups race, a username is borne by
\* one connection at a time and the claimed names are exactly those borne.
THEOREM UsernamesAreUnique == Spec => []UniqueUsernames
  <1>1. IInv => UniqueUsernames
    BY DEF IInv
  <1>2. QED
    BY <1>1, Invariance, PTL

\* Resolve's send on the decision channel, made under the registry's lock, always
\* finds room.
THEOREM ResolveCannotBlock == Spec => []ResolveNeverBlocks
  <1>1. IInv => ResolveNeverBlocks
    BY DEF IInv
  <1>2. QED
    BY <1>1, Invariance, PTL

\* Every pending row has a live handler that will come back for it.
THEOREM NoRequestIsOrphaned == Spec => []NoOrphanRequest
  <1>1. IInv => NoOrphanRequest
    BY DEF IInv
  <1>2. QED
    BY <1>1, Invariance, PTL

\* The active list is exactly the handlers between Activate and RemoveActive.
THEOREM RegistryMirrorsHandlers == Spec => []ActiveMeansServed
  <1>1. IInv => ActiveMeansServed
    BY DEF IInv
  <1>2. QED
    BY <1>1, Invariance, PTL

\* At most one handler, of a LAN connection, serves an owner, and the flag says so.
THEOREM OneOwner == Spec => []OwnerSlot
  <1>1. IInv => OwnerSlot
    BY DEF IInv
  <1>2. QED
    BY <1>1, Invariance, PTL

\* A guest accepted or inside while no owner is there is in a session being ended.
THEOREM NoGuestsWithoutOwner == Spec => []OwnerGoneMeansEnding
  <1>1. IInv => OwnerGoneMeansEnding
    BY DEF IInv
  <1>2. QED
    BY <1>1, Invariance, PTL

\* A bridged guest that is still connected has its input read, unless a Ctrl+C of its own
\* raced the accept.
THEOREM AdmittedGuestIsHeard == Spec => []AdmittedGuestHasInput
  <1>1. IInv => AdmittedGuestHasInput
    BY DEF IInv, InputFlows, AdmittedGuestHasInput
  <1>2. QED
    BY <1>1, Invariance, PTL
=============================================================================
