------------------------- MODULE FrontDoorRefinement -------------------------
(***************************************************************************)
(* FrontDoor implements Admission, for every set of connections, every LAN *)
(* subset and every set of names.                                          *)
(***************************************************************************)
EXTENDS FrontDoorProofs

\* Who bears a username has registered it, and a connection still to register has
\* none: with IInv, this is what the mapping to seats rests on.
Registered ==
    /\ \A c \in Conns : pc[c] \in {"idle", "joining"} => username[c] = NoName
    /\ \A c \in Conns : Holds(c) => username[c] \in Names

-----------------------------------------------------------------------------
(* Registered is an invariant.                                             *)

\* Only Register gives a name, and only to a connection that registers.
LEMMA StepRegistered == ASSUME IInv, Registered, [Next]_vars PROVE Registered'
  <1> USE DEF IInv, TypeOK, RegistryTypeOK, FrontDoorTypeOK, ResolveNeverBlocks,
              NoOrphanRequest, ActiveMeansServed, Goto, OwnerPcs, SessionPcs,
              NoDecision, Decisions, registryVars, frontDoorVars, Holds, Approved,
              Registered
  <1>1. ASSUME NEW c \in Conns, Enter(c) \/ ServeOwner(c) PROVE Registered'
    BY <1>1 DEF Enter, RefuseWithoutPty, EnterAsOwner, EnterAsGuest, ClaimOwner,
                ServeOwner, StartOwnerBridge, EndOwnerBridge, OwnerReleases,
                OwnerEndsSession, ReleaseOwner
  <1>2. ASSUME NEW c \in Conns, Join(c) PROVE Registered'
    <2>1. ASSUME NEW n \in Names, Register(c, n) PROVE Registered'
      BY <2>1 DEF Register, AddPending
    <2>2. CASE AbandonJoin(c) \/ StartWaiting(c)
      BY <2>2 DEF AbandonJoin, StartWaiting
    <2>3. QED
      BY <1>2, <2>1, <2>2 DEF Join
  <1>3. ASSUME NEW c \in Conns, Select(c) \/ GiveUp(c) PROVE Registered'
    <2>1. CASE TakeAccept(c) \/ TakeDecline(c)
      BY <2>1 DEF TakeAccept, TakeDecline, ReceiveDecision
    <2>2. CASE TakeInterrupt(c) \/ TimeOut(c) \/ TakeDone(c)
      BY <2>2 DEF TakeInterrupt, TimeOut, TakeDone
    <2>3. CASE GiveUp(c)
      BY <2>3 DEF GiveUp, CancelPending
    <2>4. QED
      BY <1>3, <2>1, <2>2, <2>3 DEF Select
  <1>4. ASSUME NEW c \in Conns, ServeAccepted(c) PROVE Registered'
    <2>1. CASE PassInputThrough(c) \/ StartGuestBridge(c) \/ EndGuestBridge(c)
      BY <2>1 DEF PassInputThrough, StartGuestBridge, EndGuestBridge
    <2>2. CASE Admit(c)
      BY <2>2 DEF Admit, Activate
    <2>3. CASE Remove(c)
      BY <2>3 DEF Remove, RemoveActive
    <2>4. QED
      BY <1>4, <2>1, <2>2, <2>3 DEF ServeAccepted
  <1>5. ASSUME NEW c \in Conns, NEW d \in Decisions, Decide(c, d) PROVE Registered'
    BY <1>5 DEF Decide, Resolve
  <1>6. ASSUME NEW c \in Conns,
               PumpInput(c) \/ KickLooksUp(c) \/ KickCloses(c) \/ HangUp(c)
        PROVE  Registered'
    BY <1>6 DEF PumpInput, PumpInterrupt, PumpEnds, KickLooksUp, KickCloses, HangUp
  <1>7. ASSUME NEW g \in Goroutines, SendEvent(g) PROVE Registered'
    BY <1>7 DEF SendEvent, Notify
  <1>8. CASE ReceiveEvent \/ Quit \/ Teardown
    BY <1>8 DEF ReceiveEvent, TakeEvent, Quit, Teardown, StopControl, StopFrontDoor,
                StopTunnel, StopVM, Exit
  <1>9. CASE UNCHANGED vars
    BY <1>9 DEF vars
  <1>10. QED
    BY <1>1, <1>2, <1>3, <1>4, <1>5, <1>6, <1>7, <1>8, <1>9 DEF Next, ServeGuest, Control

-----------------------------------------------------------------------------
(* Steps of the mapped state.                                              *)

SeatMap == [c \in Conns |-> Seat(c)]

\* What a step that no guest and no host can tell leaves alone.
SameHall == owner' = owner /\ Closing' = Closing /\ username' = username

SameSeats == \A c \in Conns : Seat(c)' = Seat(c)

\* c moves and everyone else stays.
Moves(c, from, to) ==
    /\ Seat(c) = from /\ Seat(c)' = to
    /\ \A d \in Conns \ {c} : Seat(d)' = Seat(d)

\* Where a guest that has a name sits, guard by guard: the guards exclude one another.
SeatLaws(c) ==
    username[c] # NoName =>
        /\ c \in pending /\ c \notin active /\ ~Approved(c) => Seat(c) = "waiting"
        /\ c \notin pending /\ c \in active /\ ~Approved(c) => Seat(c) = "in"
        /\ c \notin pending /\ c \notin active /\ Approved(c) =>
              Seat(c) = IF pc[c] = "done" THEN "forfeited" ELSE "approved"

AbstractStep == [Promise!Next]_<<owner, Closing, SeatMap, username>>

\* Before and after a step, a guest whose place is known has the seat that goes with it.
LEMMA SeatsFollow == ASSUME NEW c \in Conns PROVE SeatLaws(c) /\ SeatLaws(c)'
  BY DEF SeatLaws, Seat

\* A move of one seat is Admission's Move under the mapping.
LEMMA MoveIsMove ==
  ASSUME NEW c \in Conns, NEW from, NEW to, Moves(c, from, to)
  PROVE  Promise!Move(c, from, to)
  BY DEF Moves, Promise!Move

\* When no seat moves, the mapped seats are what they were.
LEMMA SeatsStay == SameSeats => SeatMap' = SeatMap
  BY DEF SameSeats, SeatMap

\* A step that changes neither hall nor seats is a stutter.
LEMMA Stutter == SameHall /\ SameSeats => AbstractStep
  BY SeatsStay DEF AbstractStep, SameHall

-----------------------------------------------------------------------------
(* Each action maps to a step of Admission or to a stutter.                *)

\* A connection's arrival: the owner's is the host's, a guest's is not seen.
LEMMA EnterRefines ==
  ASSUME IInv, Registered, NEW c \in Conns, Enter(c)
  PROVE  AbstractStep
  <1> USE DEF IInv, TypeOK, RegistryTypeOK, FrontDoorTypeOK, ResolveNeverBlocks,
              NoOrphanRequest, ActiveMeansServed, Goto, OwnerPcs, SessionPcs,
              NoDecision, registryVars, Approved, Seat, Closing
  <1>1. SameSeats
    BY DEF Enter, RefuseWithoutPty, EnterAsOwner, EnterAsGuest, ClaimOwner, SameSeats
  <1>2. CASE EnterAsOwner(c)
    <2>1. Promise!HostArrives
      BY <1>1, <1>2, SeatsStay DEF EnterAsOwner, ClaimOwner, Promise!HostArrives, SeatMap
    <2>2. QED
      BY <2>1 DEF AbstractStep, Promise!Next
  <1>3. CASE RefuseWithoutPty(c) \/ EnterAsGuest(c)
    BY <1>1, <1>3, Stutter DEF RefuseWithoutPty, EnterAsGuest, SameHall
  <1>4. QED
    BY <1>2, <1>3 DEF Enter

\* The owner's handler: the release of the slot is the host's leaving, and by the
\* time that endSession is called the session is already closing.
LEMMA OwnerRefines ==
  ASSUME IInv, Registered, NEW c \in Conns, ServeOwner(c)
  PROVE  AbstractStep
  <1> USE DEF IInv, TypeOK, RegistryTypeOK, FrontDoorTypeOK, ResolveNeverBlocks,
              NoOrphanRequest, ActiveMeansServed, Goto, OwnerPcs, SessionPcs,
              NoDecision, registryVars, Approved, Seat, Closing
  <1>1. SameSeats
    BY DEF ServeOwner, StartOwnerBridge, EndOwnerBridge, OwnerReleases, OwnerEndsSession,
           ReleaseOwner, SameSeats
  <1>2. CASE OwnerReleases(c)
    <2>1. Promise!HostLeaves
      BY <1>1, <1>2, SeatsStay
         DEF OwnerReleases, ReleaseOwner, OwnerSlot, Promise!HostLeaves, SeatMap
    <2>2. QED
      BY <2>1 DEF AbstractStep, Promise!Next
  <1>3. CASE StartOwnerBridge(c) \/ EndOwnerBridge(c) \/ OwnerEndsSession(c)
    BY <1>1, <1>3, Stutter DEF StartOwnerBridge, EndOwnerBridge, OwnerEndsSession, SameHall
  <1>4. QED
    BY <1>2, <1>3 DEF ServeOwner

\* The join ceremony: AddPending is the guest's asking, under a name nobody bears.
LEMMA JoinRefines ==
  ASSUME IInv, Registered, NEW c \in Conns, Join(c)
  PROVE  AbstractStep
  <1> USE DEF IInv, TypeOK, RegistryTypeOK, FrontDoorTypeOK, ResolveNeverBlocks,
              NoOrphanRequest, ActiveMeansServed, Goto, OwnerPcs, SessionPcs,
              NoDecision, registryVars, Approved, Seat, Closing
  <1>1. ASSUME NEW n \in Names, Register(c, n) PROVE AbstractStep
    <2>1. Moves(c, "out", "waiting")
      <3>1. Seat(c) = "out"
        BY <1>1 DEF Register, Registered
      <3>2. Seat(c)' = "waiting"
        <4>1. c \in pending' /\ c \notin active' /\ ~Approved(c)' /\ username'[c] # NoName
          BY <1>1, RegistryAssumption DEF Register, AddPending
        <4>2. QED
          BY <4>1, SeatsFollow DEF SeatLaws
      <3>3. \A d \in Conns \ {c} : Seat(d)' = Seat(d)
        BY <1>1 DEF Register, AddPending
      <3>4. QED
        BY <3>1, <3>2, <3>3 DEF Moves
    <2>2. \A b \in Promise!Bearers : username[b] # n
      BY <1>1 DEF Register, AddPending, Promise!Bearers, UniqueUsernames, Holds
    <2>3. username' = [username EXCEPT ![c] = n] /\ owner' = owner /\ Closing' = Closing
      BY <1>1 DEF Register, AddPending
    <2>4. Promise!Ask(c, n)
      BY <2>1, <2>2, <2>3, MoveIsMove DEF Promise!Ask
    <2>5. QED
      BY <2>4 DEF AbstractStep, Promise!Next
  <1>2. CASE AbandonJoin(c) \/ StartWaiting(c)
    BY <1>2, Stutter DEF AbandonJoin, StartWaiting, SameHall, SameSeats
  <1>3. QED
    BY <1>1, <1>2 DEF Join

\* The wait and its end: a request withdrawn is refused, an accept that nobody took
\* is forfeited, and the rest is not seen.
LEMMA WaitRefines ==
  ASSUME IInv, Registered, NEW c \in Conns, Select(c) \/ GiveUp(c)
  PROVE  AbstractStep
  <1> USE RegistryAssumption
      DEF IInv, TypeOK, RegistryTypeOK, FrontDoorTypeOK, ResolveNeverBlocks,
          NoOrphanRequest, ActiveMeansServed, Goto, OwnerPcs, SessionPcs,
          NoDecision, Decisions, registryVars, Approved, Seat, Closing
  <1>1. CASE TakeAccept(c) \/ TakeDecline(c)
    BY <1>1, Stutter DEF TakeAccept, TakeDecline, ReceiveDecision, SameHall, SameSeats
  <1>2. CASE TakeInterrupt(c) \/ TimeOut(c) \/ TakeDone(c)
    BY <1>2, Stutter DEF TakeInterrupt, TimeOut, TakeDone, SameHall, SameSeats
  <1>3. CASE GiveUp(c)
    <2>1. SameHall
      BY <1>3 DEF GiveUp, CancelPending, SameHall
    <2>2. CASE c \in pending
      <3>1. Moves(c, "waiting", "gone")
        BY <1>3, <2>2 DEF GiveUp, CancelPending, Registered, Holds, Moves
      <3>2. Promise!Refuse(c)
        BY <2>1, <3>1, MoveIsMove DEF SameHall, Promise!Refuse
      <3>3. QED
        BY <3>2 DEF AbstractStep, Promise!Next
    <2>3. CASE c \notin pending /\ decision[c] = "accept"
      <3>1. Moves(c, "approved", "forfeited")
        <4>0. username[c] # NoName /\ username' = username
          BY <1>3, <2>3 DEF GiveUp, CancelPending, Registered, Holds
        <4>1. Seat(c) = "approved"
          <5>1. c \notin pending /\ c \notin active /\ Approved(c) /\ pc[c] # "done"
            BY <1>3, <2>3 DEF GiveUp
          <5>2. QED
            BY <4>0, <5>1, SeatsFollow DEF SeatLaws
        <4>2. Seat(c)' = "forfeited"
          <5>1. c \notin pending' /\ c \notin active' /\ Approved(c)' /\ pc'[c] = "done"
            BY <1>3, <2>3 DEF GiveUp, CancelPending
          <5>2. QED
            BY <4>0, <5>1, SeatsFollow DEF SeatLaws
        <4>3. \A d \in Conns \ {c} : Seat(d)' = Seat(d)
          BY <1>3, <2>3 DEF GiveUp, CancelPending
        <4>4. QED
          BY <4>1, <4>2, <4>3 DEF Moves
      <3>2. Promise!Forfeit(c)
        BY <2>1, <3>1, MoveIsMove DEF SameHall, Promise!Forfeit
      <3>3. QED
        BY <3>2 DEF AbstractStep, Promise!Next
    <2>4. CASE c \notin pending /\ decision[c] # "accept"
      BY <1>3, <2>1, <2>4, Stutter DEF GiveUp, CancelPending, SameSeats
    <2>5. QED
      BY <2>2, <2>3, <2>4
  <1>4. QED
    BY <1>1, <1>2, <1>3 DEF Select

\* After the accept: Activate is the guest's coming in and RemoveActive its leaving.
LEMMA SessionRefines ==
  ASSUME IInv, Registered, NEW c \in Conns, ServeAccepted(c)
  PROVE  AbstractStep
  <1> USE RegistryAssumption
      DEF IInv, TypeOK, RegistryTypeOK, FrontDoorTypeOK, ResolveNeverBlocks,
          NoOrphanRequest, ActiveMeansServed, Goto, OwnerPcs, SessionPcs,
          NoDecision, Decisions, registryVars, Approved, Seat, Closing
  <1>1. CASE PassInputThrough(c) \/ StartGuestBridge(c) \/ EndGuestBridge(c)
    BY <1>1, Stutter
       DEF PassInputThrough, StartGuestBridge, EndGuestBridge, SameHall, SameSeats
  <1>2. CASE Admit(c)
    <2>1. Moves(c, "approved", "in")
      <3>0. username[c] # NoName /\ username' = username
        BY <1>2 DEF Admit, Activate, Registered, Holds
      <3>1. Seat(c) = "approved"
        <4>1. c \notin pending /\ c \notin active /\ Approved(c) /\ pc[c] # "done"
          BY <1>2 DEF Admit
        <4>2. QED
          BY <3>0, <4>1, SeatsFollow DEF SeatLaws
      <3>2. Seat(c)' = "in"
        <4>1. c \notin pending' /\ c \in active' /\ ~Approved(c)'
          BY <1>2 DEF Admit, Activate
        <4>2. QED
          BY <3>0, <4>1, SeatsFollow DEF SeatLaws
      <3>3. \A d \in Conns \ {c} : Seat(d)' = Seat(d)
        BY <1>2 DEF Admit, Activate
      <3>4. QED
        BY <3>1, <3>2, <3>3 DEF Moves
    <2>2. Promise!ComeIn(c)
      BY <1>2, <2>1, MoveIsMove DEF Admit, Activate, Promise!ComeIn
    <2>3. QED
      BY <2>2 DEF AbstractStep, Promise!Next
  <1>3. CASE Remove(c)
    <2>1. Moves(c, "in", "gone")
      BY <1>3 DEF Remove, RemoveActive, Registered, Holds, Moves
    <2>2. Promise!Leave(c)
      BY <1>3, <2>1, MoveIsMove DEF Remove, RemoveActive, Promise!Leave
    <2>3. QED
      BY <2>2 DEF AbstractStep, Promise!Next
  <1>4. QED
    BY <1>1, <1>2, <1>3 DEF ServeAccepted

\* The owner's decision: an accept asks for the host's presence.
LEMMA DecideRefines ==
  ASSUME IInv, Registered, NEW c \in Conns, NEW d \in Decisions, Decide(c, d)
  PROVE  AbstractStep
  <1> USE RegistryAssumption
      DEF IInv, TypeOK, RegistryTypeOK, FrontDoorTypeOK, ResolveNeverBlocks,
          NoOrphanRequest, ActiveMeansServed, OwnerPcs, SessionPcs,
          NoDecision, Decisions, frontDoorVars, Approved, Seat, Closing
  <1>1. SameHall
    BY DEF Decide, Resolve, SameHall
  <1>2. CASE d = "accept"
    <2>1. Moves(c, "waiting", "approved") /\ owner
      <3>0. username[c] # NoName /\ username' = username
        BY <1>2 DEF Decide, Resolve, Registered, Holds
      <3>1. Seat(c) = "waiting" /\ owner
        <4>1. c \in pending /\ c \notin active /\ ~Approved(c) /\ owner
          BY <1>2 DEF Decide, Resolve
        <4>2. QED
          BY <3>0, <4>1, SeatsFollow DEF SeatLaws
      <3>2. Seat(c)' = "approved"
        <4>1. c \notin pending' /\ c \notin active' /\ Approved(c)' /\ pc'[c] # "done"
          BY <1>2 DEF Decide, Resolve
        <4>2. QED
          BY <3>0, <4>1, SeatsFollow DEF SeatLaws
      <3>3. \A e \in Conns \ {c} : Seat(e)' = Seat(e)
        BY <1>2 DEF Decide, Resolve
      <3>4. QED
        BY <3>1, <3>2, <3>3 DEF Moves
    <2>2. Promise!Approve(c)
      BY <1>1, <2>1, MoveIsMove DEF SameHall, Promise!Approve
    <2>3. QED
      BY <2>2 DEF AbstractStep, Promise!Next
  <1>3. CASE d = "decline"
    <2>1. Moves(c, "waiting", "gone")
      BY <1>3 DEF Decide, Resolve, Registered, Holds, Moves
    <2>2. Promise!Refuse(c)
      BY <1>1, <2>1, MoveIsMove DEF SameHall, Promise!Refuse
    <2>3. QED
      BY <2>2 DEF AbstractStep, Promise!Next
  <1>4. QED
    BY <1>2, <1>3

\* The end of the session: quitting closes it, and what follows keeps it closed.
LEMMA EndRefines == ASSUME IInv, Quit \/ Teardown PROVE AbstractStep
  <1> USE DEF IInv, TypeOK, FrontDoorTypeOK, registryVars, Approved, Seat, Closing
  <1>1. SameSeats
    BY DEF Quit, Teardown, StopControl, StopFrontDoor, StopTunnel, StopVM, Exit, SameSeats
  <1>2. CASE Quit
    <2>1. Promise!Close
      BY <1>1, <1>2, SeatsStay DEF Quit, Promise!Close, SeatMap
    <2>2. QED
      BY <2>1 DEF AbstractStep, Promise!Next
  <1>3. CASE Teardown
    BY <1>1, <1>3, Stutter
       DEF Teardown, StopControl, StopFrontDoor, StopTunnel, StopVM, Exit, SameHall
  <1>4. QED
    BY <1>2, <1>3

\* Every step of the front door is a step of Admission or a stutter.
LEMMA StepRefines == ASSUME IInv, Registered, [Next]_vars PROVE AbstractStep
  <1>1. ASSUME NEW c \in Conns,
               PumpInput(c) \/ KickLooksUp(c) \/ KickCloses(c) \/ HangUp(c)
        PROVE  AbstractStep
    BY <1>1, Stutter DEF PumpInput, PumpInterrupt, PumpEnds, KickLooksUp, KickCloses,
       HangUp, registryVars, SameHall, SameSeats, Seat, Approved, Closing
  <1>2. ASSUME NEW g \in Goroutines, SendEvent(g) PROVE AbstractStep
    BY <1>2, Stutter DEF SendEvent, Notify, frontDoorVars, SameHall, SameSeats, Seat,
       Approved, Closing
  <1>3. CASE ReceiveEvent
    BY <1>3, Stutter DEF ReceiveEvent, TakeEvent, frontDoorVars, SameHall, SameSeats,
       Seat, Approved, Closing
  <1>4. CASE UNCHANGED vars
    BY <1>4, Stutter DEF vars, registryVars, frontDoorVars, SameHall, SameSeats, Seat,
       Approved, Closing
  <1>5. QED
    BY <1>1, <1>2, <1>3, <1>4, EnterRefines, OwnerRefines, JoinRefines, WaitRefines,
       SessionRefines, DecideRefines, EndRefines
       DEF Next, ServeGuest, Control

-----------------------------------------------------------------------------
(* The refinement.                                                         *)

\* The registry and the front door start as Admission does, with nobody in.
LEMMA InitRefines == Init => Promise!Init /\ Registered
  BY DEF Init, RegistryInit, Promise!Init, Registered, Seat, Closing, Approved, Holds,
         NoDecision

\* However handlers, decisions, hang-ups and the teardown interleave, and whatever
\* the numbers of connections and names, what the registry and the front door do is
\* a behaviour of Admission: names are exclusive, only a host who is present approves,
\* and nobody comes in unapproved or twice.
THEOREM FrontDoorImplementsAdmission == Spec => ImplementsAdmission
  <1>1. Init => Promise!Init /\ Registered
    BY InitRefines
  <1>2. IInv /\ Registered /\ [Next]_vars => Registered'
    BY StepRegistered
  <1>3. IInv /\ Registered /\ [Next]_vars
        => [Promise!Next]_<<owner, Closing, [c \in Conns |-> Seat(c)], username>>
    BY StepRefines DEF AbstractStep, SeatMap
  <1>4. QED
    BY <1>1, <1>2, <1>3, Invariance, PTL DEF Spec, ImplementsAdmission, Promise!Spec
=============================================================================
