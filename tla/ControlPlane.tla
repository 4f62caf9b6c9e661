---------------------------- MODULE ControlPlane ----------------------------
(***************************************************************************)
(* The owner's control plane, internal/control/control.go: a Bubble Tea    *)
(* program whose one goroutine, Update, takes key presses, refreshes and   *)
(* the quit message in turn.  A command it returns (the event wait, the    *)
(* quit) runs in a goroutine of its own and sends its message when done.   *)
(*                                                                         *)
(* Between two of its calls on the registry the front door's handlers go   *)
(* on.  They are represented by Admission, which FrontDoor implements: a   *)
(* waiting seat is a pending request, a guest who is in has an active      *)
(* session, the host's presence is the owner flag, and the session is      *)
(* closing once the owner has gone or the root context is done.  A guest   *)
(* asks under a name of its own: names are shown and not acted upon, like  *)
(* the uptime and model.ownerPresent.  prevWaiting and waiting always have *)
(* the same value, modelled once.                                          *)
(***************************************************************************)
EXTENDS Naturals, Sequences, Subsequences

CONSTANTS Guests, NoName

ASSUME ControlPlaneAssumption == NoName \notin Guests

VARIABLES
    host,       \* OwnerPresent
    closing,    \* the session is on its way to its end
    seat,       \* where each guest is
    name,       \* the name each guest asked under
    asked,      \* guests in the order of their requests' CreatedAt
    entered,    \* guests in the order of their sessions' ConnectedAt
    rows,       \* model.rows: what the owner sees
    cursor,     \* model.cursor
    waiting,    \* model.prevWaiting
    confirming, \* model.confirmingQuit
    ui,         \* where Update is
    trigger,    \* what Update is answering
    got,        \* the pending requests read by the refresh under way
    bell,       \* the refresh that has just ended rang the bell
    waiters,    \* goroutines in waitForEvent
    refreshes,  \* refreshMsgs sent and not yet taken
    quitting,   \* a quit message is on its way
    program,    \* the goroutine of Start: Run, then quit, then done is closed
    stop        \* the teardown's Stop

houseVars == <<host, closing, seat, name>>
orderVars == <<asked, entered>>
modelVars == <<rows, cursor, waiting, confirming, ui, trigger, got, bell>>
tickVars == <<waiters, refreshes>>
endVars == <<quitting, program, stop>>
vars == <<houseVars, orderVars, modelVars, tickVars, endVars>>

House == INSTANCE Admission WITH Names <- Guests

\* Variant of Pending for mutation: an accepted request stays until its guest comes in.
PendingWithAccepted == {g \in Guests : seat[g] \in {"waiting", "approved"}}

Pending == {g \in Guests : seat[g] = "waiting"}
Active == {g \in Guests : seat[g] = "in"}

Row == [pending : BOOLEAN, id : Guests]

TypeOK ==
    /\ host \in BOOLEAN
    /\ closing \in BOOLEAN
    /\ seat \in [Guests -> House!Seats]
    /\ name \in [Guests -> Guests \cup {NoName}]
    /\ asked \in Seq(Guests)
    /\ entered \in Seq(Guests)
    /\ rows \in Seq(Row)
    /\ cursor \in Nat
    /\ waiting \in Nat
    /\ confirming \in BOOLEAN
    /\ ui \in {"idle", "deciding", "readPending", "readActive"}
    /\ trigger \in {"start", "tick", "key", "none"}
    /\ got \in Seq(Guests)
    /\ bell \in BOOLEAN
    /\ waiters \in Nat
    /\ refreshes \in Nat
    /\ quitting \in BOOLEAN
    /\ program \in {"running", "returned", "done"}
    /\ stop \in {"no", "waiting", "stopped"}

\* newModel is about to populate its rows; the front door serves already.
Init ==
    /\ House!Init
    /\ asked = <<>>
    /\ entered = <<>>
    /\ rows = <<>>
    /\ cursor = 0
    /\ waiting = 0
    /\ confirming = FALSE
    /\ ui = "readPending"
    /\ trigger = "start"
    /\ got = <<>>
    /\ bell = FALSE
    /\ waiters = 0
    /\ refreshes = 0
    /\ quitting = FALSE
    /\ program = "running"
    /\ stop = "no"

-----------------------------------------------------------------------------
(* The handlers, as long as somebody looks.                                *)

\* A list of the registry, oldest first.
Snapshot(order, S) == Among(order, S)

GuestMoves(g) ==
    /\ program = "running"
    /\ \/ House!Ask(g, g) /\ asked' = Append(Snapshot(asked, Pending), g) /\ UNCHANGED entered
       \/ House!ComeIn(g) /\ entered' = Append(Snapshot(entered, Active), g) /\ UNCHANGED asked
       \/ (House!Refuse(g) \/ House!Forfeit(g) \/ House!Leave(g)) /\ UNCHANGED orderVars
    /\ UNCHANGED <<modelVars, tickVars, endVars>>

OwnerMoves ==
    /\ House!HostArrives \/ House!HostLeaves
    /\ UNCHANGED <<orderVars, modelVars, tickVars, endVars>>

SignalComes ==
    /\ ~closing
    /\ House!Close
    /\ UNCHANGED <<orderVars, modelVars, tickVars, endVars>>

-----------------------------------------------------------------------------
(* refresh: the registry's lock is taken once for each list.               *)

RowsOf(isPending, ids) == [i \in DOMAIN ids |-> [pending |-> isPending, id |-> ids[i]]]

Refresh(why) == ui' = "readPending" /\ trigger' = why /\ bell' = FALSE

ReadPending ==
    /\ ui = "readPending"
    /\ ui' = "readActive"
    /\ got' = Snapshot(asked, Pending)
    /\ UNCHANGED <<houseVars, orderVars, rows, cursor, waiting, confirming,
                   trigger, bell, tickVars, endVars>>

\* Variant of ReadActive for mutation: the cursor stays where it is.
ReadActiveNoClamp ==
    /\ ui = "readActive"
    /\ ui' = "idle"
    /\ rows' = RowsOf(TRUE, got) \o RowsOf(FALSE, Snapshot(entered, Active))
    /\ waiting' = Len(got)
    /\ bell' = (trigger = "tick" /\ Len(got) > waiting)
    /\ waiters' = IF trigger = "key" THEN waiters ELSE waiters + 1
    /\ trigger' = "none"
    /\ got' = <<>>
    /\ UNCHANGED <<houseVars, orderVars, cursor, confirming, refreshes, endVars>>

\* Variant of ReadActive for mutation: prevWaiting follows growth only.
ReadActiveHighWater ==
    /\ ui = "readActive"
    /\ ui' = "idle"
    /\ rows' = RowsOf(TRUE, got) \o RowsOf(FALSE, Snapshot(entered, Active))
    /\ cursor' = IF cursor < Len(rows') THEN cursor
                 ELSE IF rows' = <<>> THEN 0 ELSE Len(rows') - 1
    /\ waiting' = IF Len(got) > waiting THEN Len(got) ELSE waiting
    /\ bell' = (trigger = "tick" /\ Len(got) > waiting)
    /\ waiters' = IF trigger = "key" THEN waiters ELSE waiters + 1
    /\ trigger' = "none"
    /\ got' = <<>>
    /\ UNCHANGED <<houseVars, orderVars, confirming, refreshes, endVars>>

\* Variant of ReadActive for mutation: a tick waits for the next event only when it
\* found somebody new.
ReadActiveWaitOnNews ==
    /\ ui = "readActive"
    /\ ui' = "idle"
    /\ rows' = RowsOf(TRUE, got) \o RowsOf(FALSE, Snapshot(entered, Active))
    /\ cursor' = IF cursor < Len(rows') THEN cursor
                 ELSE IF rows' = <<>> THEN 0 ELSE Len(rows') - 1
    /\ waiting' = Len(got)
    /\ bell' = (trigger = "tick" /\ Len(got) > waiting)
    /\ waiters' = IF trigger = "start" \/ bell' THEN waiters + 1 ELSE waiters
    /\ trigger' = "none"
    /\ got' = <<>>
    /\ UNCHANGED <<houseVars, orderVars, confirming, refreshes, endVars>>

\* The rows are replaced and the cursor is clamped to them.  Only the refresh of a
\* tick rings, and it waits for the next event; the first wait is Init's.
ReadActive ==
    /\ ui = "readActive"
    /\ ui' = "idle"
    /\ rows' = RowsOf(TRUE, got) \o RowsOf(FALSE, Snapshot(entered, Active))
    /\ cursor' = IF cursor < Len(rows') THEN cursor
                 ELSE IF rows' = <<>> THEN 0 ELSE Len(rows') - 1
    /\ waiting' = Len(got)
    /\ bell' = (trigger = "tick" /\ Len(got) > waiting)
    /\ waiters' = IF trigger = "key" THEN waiters ELSE waiters + 1
    /\ trigger' = "none"
    /\ got' = <<>>
    /\ UNCHANGED <<houseVars, orderVars, confirming, refreshes, endVars>>

-----------------------------------------------------------------------------
(* waitForEvent and the refresh it asks for.                               *)

WaitEnds ==
    /\ waiters > 0
    /\ waiters' = waiters - 1
    /\ refreshes' = refreshes + 1
    /\ UNCHANGED <<houseVars, orderVars, modelVars, endVars>>

Idle == program = "running" /\ ui = "idle"

UpdateOnRefresh ==
    /\ Idle
    /\ refreshes > 0
    /\ refreshes' = refreshes - 1
    /\ Refresh("tick")
    /\ UNCHANGED <<houseVars, orderVars, rows, cursor, waiting, confirming, got, waiters, endVars>>

-----------------------------------------------------------------------------
(* handleKey.                                                              *)

KeyRead == Idle /\ ~confirming

\* The row under the cursor, if there is one.
Selected == {rows[i] : i \in DOMAIN rows \cap {cursor + 1}}

\* Variant of MoveCursor for mutation: it goes up from the first row too.
MoveCursorPastTop ==
    /\ KeyRead
    /\ \/ cursor' = cursor - 1
       \/ cursor + 1 < Len(rows) /\ cursor' = cursor + 1
    /\ Refresh("key")
    /\ UNCHANGED <<houseVars, orderVars, rows, waiting, confirming, got,
                   tickVars, endVars>>

MoveCursor ==
    /\ KeyRead
    /\ \/ cursor > 0 /\ cursor' = cursor - 1
       \/ cursor + 1 < Len(rows) /\ cursor' = cursor + 1
    /\ Refresh("key")
    /\ UNCHANGED <<houseVars, orderVars, rows, waiting, confirming, got,
                   tickVars, endVars>>

\* What Resolve does to the request: the registry refuses an accept when the owner
\* has gone, and a request it no longer knows.
Resolve(g, d) == IF d = "accept" THEN House!Approve(g) ELSE House!Refuse(g)

Resolvable(g, d) == g \in Pending /\ (d = "accept" => host)

\* Variant of Deliver for mutation: the cursor indexes the requests of the moment.
DeliverByPosition(d) ==
    LET now == Snapshot(asked, Pending) IN
    IF cursor < Len(now) /\ Resolvable(now[cursor + 1], d)
    THEN Resolve(now[cursor + 1], d)
    ELSE UNCHANGED houseVars

\* Resolve is called for the row under the cursor if it is a request.
Deliver(d) ==
    \/ \E r \in Selected : r.pending /\ Resolvable(r.id, d) /\ Resolve(r.id, d)
    \/ /\ \A r \in Selected : r.pending => ~Resolvable(r.id, d)
       /\ UNCHANGED houseVars

\* The pre-gate of an accept is a call of its own, before that of Resolve.
PressAccept ==
    /\ KeyRead
    /\ IF host THEN ui' = "deciding" /\ trigger' = "key" /\ bell' = FALSE
             ELSE Refresh("key")
    /\ UNCHANGED <<houseVars, orderVars, rows, cursor, waiting, confirming, got, tickVars, endVars>>

AcceptSelected ==
    /\ ui = "deciding"
    /\ Deliver("accept")
    /\ Refresh("key")
    /\ UNCHANGED <<orderVars, rows, cursor, waiting, confirming, got, tickVars,
                   endVars>>

PressDecline ==
    /\ KeyRead
    /\ Deliver("decline")
    /\ Refresh("key")
    /\ UNCHANGED <<orderVars, rows, cursor, waiting, confirming, got, tickVars,
                   endVars>>

\* Variant of PressOther for mutation: it waits for an event as a tick does.
PressOtherAndWait ==
    /\ KeyRead
    /\ Refresh("key")
    /\ waiters' = waiters + 1
    /\ UNCHANGED <<houseVars, orderVars, rows, cursor, waiting, confirming, got, refreshes, endVars>>

\* A move that finds no row to go to, a key that means nothing, or a kick: Kick only
\* closes the guest's channel, upon which the guest leaves when it pleases.
PressOther ==
    /\ KeyRead
    /\ Refresh("key")
    /\ UNCHANGED <<houseVars, orderVars, rows, cursor, waiting, confirming, got, tickVars, endVars>>

\* Only sessions in the active list are counted.
PressQuit ==
    /\ KeyRead
    /\ IF Active = {} THEN quitting' = TRUE /\ UNCHANGED confirming
                      ELSE confirming' = TRUE /\ UNCHANGED quitting
    /\ UNCHANGED <<houseVars, orderVars, rows, cursor, waiting, ui, trigger, got,
                   bell, tickVars, program, stop>>

PressCtrlC ==
    /\ KeyRead
    /\ quitting' = TRUE
    /\ UNCHANGED <<houseVars, orderVars, modelVars, tickVars, program, stop>>

\* At the prompt any key but y, Ctrl+C too, only leaves it.  No refresh follows.
AnswerPrompt ==
    /\ Idle
    /\ confirming
    /\ \/ quitting' = TRUE /\ UNCHANGED confirming
       \/ confirming' = FALSE /\ UNCHANGED quitting
    /\ UNCHANGED <<houseVars, orderVars, rows, cursor, waiting, ui, trigger, got,
                   bell, tickVars, program, stop>>

-----------------------------------------------------------------------------
(* The end of the program, and Stop.                                       *)

\* Update finishes what it is doing before the quit message is taken, and takes
\* other messages that come before it.  The terminal may fail at any time.
ProgramReturns ==
    /\ Idle
    /\ program' = "returned"
    /\ UNCHANGED <<houseVars, orderVars, modelVars, tickVars, quitting, stop>>

\* Variant of CallQuit for mutation: done is closed and quit is not called.
CloseDoneOnly ==
    /\ program = "returned"
    /\ program' = "done"
    /\ UNCHANGED <<houseVars, orderVars, modelVars, tickVars, quitting, stop>>

CallQuit ==
    /\ program = "returned"
    /\ program' = "done"
    /\ House!Close
    /\ UNCHANGED <<orderVars, modelVars, tickVars, quitting, stop>>

StopSendsQuit ==
    /\ closing
    /\ stop = "no"
    /\ trigger # "start"
    /\ stop' = "waiting"
    /\ quitting' = TRUE
    /\ UNCHANGED <<houseVars, orderVars, modelVars, tickVars, program>>

StopReturns ==
    /\ stop = "waiting"
    /\ program = "done"
    /\ stop' = "stopped"
    /\ UNCHANGED <<houseVars, orderVars, modelVars, tickVars, quitting, program>>

-----------------------------------------------------------------------------
Press ==
    \/ MoveCursor \/ PressAccept \/ PressDecline \/ PressOther
    \/ PressQuit \/ PressCtrlC \/ AnswerPrompt

UpdateGoesOn == AcceptSelected \/ ReadPending \/ ReadActive

Next ==
    \/ \E g \in Guests : GuestMoves(g)
    \/ OwnerMoves
    \/ SignalComes
    \/ WaitEnds \/ UpdateOnRefresh
    \/ Press \/ UpdateGoesOn
    \/ ProgramReturns \/ CallQuit
    \/ StopSendsQuit \/ StopReturns

Spec == Init /\ [][Next]_vars

\* Every goroutine that can run does.  Messages are taken from one queue in the order
\* in which they come, so that neither keys nor ticks keep a refresh or the quit
\* message waiting for ever; the owner need not press anything.
Fairness ==
    /\ WF_vars(WaitEnds)
    /\ SF_vars(UpdateOnRefresh)
    /\ WF_vars(UpdateGoesOn)
    /\ SF_vars(quitting /\ ProgramReturns)
    /\ WF_vars(CallQuit)
    /\ WF_vars(StopSendsQuit)
    /\ WF_vars(StopReturns)

FairSpec == Spec /\ Fairness

-----------------------------------------------------------------------------
(* Properties.                                                             *)

ShownPending == {rows[i].id : i \in {j \in DOMAIN rows : rows[j].pending}}

\* There is a row under the cursor whenever there are rows, although rows come and go
\* between the key presses that move it: no key is lost on an empty place.
CursorOnRow == IF rows = <<>> THEN cursor = 0 ELSE cursor < Len(rows)

\* The owner never sees one guest twice, as a request and as a session or in two rows,
\* although the two lists are read under two acquisitions of the lock: accepts come
\* from the goroutine that reads.
RowsAreDistinct ==
    \A i, j \in DOMAIN rows : rows[i].id = rows[j].id => i = j

\* One wait for an event is under way at any time, as a goroutine, as its message or
\* as the refresh that answers it: keys in between neither multiply the refreshes of
\* every second nor end them.
OneWait ==
    program = "running" /\ trigger # "start" =>
        waiters + refreshes + (IF trigger = "tick" THEN 1 ELSE 0) = 1

\* What the bell can be relied upon for: it tells of somebody new, and a tick that brings
\* a new request onto the screen is silent only when another has gone.  The count that a
\* tick compares with is in step with the screen, although keys refresh it in between.
\* A request that a key's refresh shows first, or that comes in place of one that has
\* gone, is told of by no bell (NewRequestsRing).
BellTellsOfNewRequests ==
    [][ui = "readActive" /\ ui' = "idle" =>
          /\ bell' => ~(ShownPending' \subseteq ShownPending)
          /\ trigger = "tick" /\ ~(ShownPending' \subseteq ShownPending) /\ ~bell'
                => ~(ShownPending \subseteq ShownPending')]_vars

\* Lines 233-234 of DESIGN.md and control_test.go:178: a request that arrives is shown
\* with a soft bell.  The refresh that brings it onto the screen, the one that newModel
\* makes before the program runs aside, rings.
NewRequestsRing ==
    [][ui = "readActive" /\ ui' = "idle" /\ trigger # "start"
          /\ ~(ShownPending' \subseteq ShownPending) => bell']_vars

\* A key decides the request the owner has under the cursor and no other, though the
\* registry's lists have changed since; and an accept finds the owner in the session,
\* though the owner may have gone since the pre-gate.
KeysDecideWhatIsShown ==
    [][\A g \in Guests :
          /\ seat[g] = "waiting" /\ seat'[g] = "approved" => host
          /\ seat[g] = "waiting" /\ seat'[g] # "waiting"
                /\ (seat'[g] = "approved" \/ trigger # trigger')
                => \E r \in Selected : r.pending /\ r.id = g]_vars

\* A request that stays pending comes onto the owner's screen: a token that went to
\* the writer is made good by the timer.
RequestsAreShown ==
    \A g \in Guests :
        g \in Pending ~> (g \in ShownPending \/ g \notin Pending \/ program # "running")

\* However the session ends (a quit, the terminal, a signal, the owner leaving), the
\* root context is cancelled and the control plane's Stop returns, whichever of the
\* program and the teardown comes first.
QuitEndsSession ==
    (quitting \/ program # "running" \/ closing) ~> (closing /\ stop = "stopped")
=============================================================================
