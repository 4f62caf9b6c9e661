------------------------------ MODULE Watchers ------------------------------
(***************************************************************************)
(* The co-author writer, internal/coauthor/writer.go: the goroutine that   *)
(* mirrors the active usernames into the file the commit helper reads.  It *)
(* is woken through the registry's one events channel, which holds one     *)
(* token, and the control plane's waitForEvent receives from the same      *)
(* channel: a token goes to whichever of the two takes it.                 *)
(*                                                                         *)
(* The owner is in the session throughout, so that guests may be accepted; *)
(* what the control plane does with its token is ControlPlane's subject.   *)
(***************************************************************************)
EXTENDS Registry

CONSTANT WritesMayFail      \* TRUE to let a write of the connected file fail

ASSUME WatchersAssumption == WritesMayFail \in BOOLEAN

VARIABLES
    at,         \* how far each connection has come
    writer,     \* Writer.loop
    listed,     \* the usernames read by the write in progress
    file,       \* the usernames in the connected file of the share
    missed,     \* the writer's last wake-up was lost or its last write failed
    armed,      \* the control plane's waitForEvent is waiting
    life        \* how far the teardown has come for the writer and the share

connectionVars == <<registryVars, at>>
writerVars == <<writer, listed, file>>
vars == <<connectionVars, writerVars, missed, armed, life>>

UsernamesOf(S) == {username[c] : c \in S}

TypeOK ==
    /\ RegistryTypeOK
    /\ at \in [Conns -> {"new", "queued", "accepted", "inside", "gone"}]
    /\ writer \in {"selecting", "woken", "writing", "returned"}
    /\ listed \subseteq Names
    /\ file \subseteq Names
    /\ missed \in BOOLEAN
    /\ armed \in BOOLEAN
    /\ life \in {"running", "stopping", "stopped", "shareRemoved"}

\* The owner has come in.  Writer.Start wrote the empty set before any connection
\* was served.
Init ==
    /\ RegistryInit(TRUE)
    /\ at = [c \in Conns |-> "new"]
    /\ writer = "selecting"
    /\ listed = {}
    /\ file = {}
    /\ missed = FALSE
    /\ armed = TRUE
    /\ life = "running"

-----------------------------------------------------------------------------
(* The connections call the registry in the order in which FrontDoor shows *)
(* that their handlers do; the owner decides until the control plane is    *)
(* stopped, which is before the writer is.                                 *)

Becomes(c, from, to) ==
    /\ c \notin signals
    /\ at[c] = from
    /\ at' = [at EXCEPT ![c] = to]
    /\ UNCHANGED <<writerVars, missed, armed, life>>

Asks(c) == Becomes(c, "new", "queued") /\ \E n \in Names : AddPending(c, n)

Accepted(c) == Becomes(c, "queued", "accepted") /\ ReceiveDecision(c, "accept")

Declined(c) == Becomes(c, "queued", "gone") /\ ReceiveDecision(c, "decline")

Withdraws(c) == Becomes(c, "queued", "gone") /\ CancelPending(c)

Enters(c) == Becomes(c, "accepted", "inside") /\ Activate(c)

Leaves(c) == Becomes(c, "inside", "gone") /\ RemoveActive(c)

Guest(c) ==
    Asks(c) \/ Accepted(c) \/ Declined(c) \/ Withdraws(c) \/ Enters(c) \/ Leaves(c)

Decides(c, d) ==
    /\ life = "running"
    /\ Console \notin signals
    /\ Resolve(Console, c, d)
    /\ UNCHANGED <<at, writerVars, missed, armed, life>>

SendEvent(g) == Notify(g) /\ UNCHANGED <<at, writerVars, missed, armed, life>>

-----------------------------------------------------------------------------
(* Writer.loop, Start and Stop.                                            *)

WriterWakes ==
    /\ writer = "selecting"
    /\ TakeEvent
    /\ writer' = "woken"
    /\ UNCHANGED <<at, listed, file, missed, armed, life>>

\* Variant of WriterReads for mutation: it lists the sessions, not their usernames.
WriterReadsSessions ==
    /\ writer = "woken"
    /\ writer' = "writing"
    /\ listed' = active
    /\ missed' = FALSE
    /\ UNCHANGED <<connectionVars, file, armed, life>>

WriterReads ==
    /\ writer = "woken"
    /\ writer' = "writing"
    /\ listed' = UsernamesOf(active)
    /\ missed' = FALSE
    /\ UNCHANGED <<connectionVars, file, armed, life>>

\* Variant of WriterPublishes for mutation: the loop returns after its first write.
WriterPublishesOnce ==
    /\ writer = "writing"
    /\ writer' = "returned"
    /\ file' = listed
    /\ UNCHANGED <<connectionVars, listed, missed, armed, life>>

\* writeList renames a complete file into place.
WriterPublishes ==
    /\ writer = "writing"
    /\ writer' = "selecting"
    /\ file' = listed
    /\ UNCHANGED <<connectionVars, listed, missed, armed, life>>

\* A write that fails is logged and not tried again.
WriteFails ==
    /\ WritesMayFail
    /\ writer = "writing"
    /\ writer' = "selecting"
    /\ missed' = TRUE
    /\ UNCHANGED <<connectionVars, listed, file, armed, life>>

WriterReturns ==
    /\ writer = "selecting"
    /\ life = "stopping"
    /\ writer' = "returned"
    /\ UNCHANGED <<connectionVars, listed, file, missed, armed, life>>

\* Stop closes the stop channel, then waits for the loop to return; only then
\* does the teardown go on to the VM, which removes the share.
StopBegins ==
    /\ life = "running"
    /\ life' = "stopping"
    /\ UNCHANGED <<connectionVars, writerVars, missed, armed>>

\* Variant of StopReturns for mutation: it does not wait for the loop.
StopReturnsAtOnce ==
    /\ life = "stopping"
    /\ life' = "stopped"
    /\ UNCHANGED <<connectionVars, writerVars, missed, armed>>

StopReturns ==
    /\ life = "stopping"
    /\ writer = "returned"
    /\ life' = "stopped"
    /\ UNCHANGED <<connectionVars, writerVars, missed, armed>>

RemoveShare ==
    /\ life = "stopped"
    /\ life' = "shareRemoved"
    /\ UNCHANGED <<connectionVars, writerVars, missed, armed>>

-----------------------------------------------------------------------------
(* The other receiver: waitForEvent, a goroutine of its own, which outlives *)
(* the program that started it.                                            *)

ConsoleTakesEvent ==
    /\ armed
    /\ TakeEvent
    /\ armed' = FALSE
    /\ missed' = TRUE
    /\ UNCHANGED <<at, writerVars, life>>

\* The refresh of a tick waits for the next event.
ConsoleWaitsAgain ==
    /\ life = "running"
    /\ ~armed
    /\ armed' = TRUE
    /\ UNCHANGED <<connectionVars, writerVars, missed, life>>

-----------------------------------------------------------------------------
Writer ==
    WriterWakes \/ WriterReads \/ WriterPublishes \/ WriteFails \/ WriterReturns

Rival == ConsoleTakesEvent \/ ConsoleWaitsAgain

Next ==
    \/ \E c \in Conns : Guest(c) \/ \E d \in Decisions : Decides(c, d)
    \/ \E g \in Goroutines : SendEvent(g)
    \/ Writer
    \/ Rival
    \/ StopBegins \/ StopReturns \/ RemoveShare

Spec == Init /\ [][Next]_vars

\* Every goroutine that can run does, a connection finishes the call it is in and
\* takes its decision, and a write succeeds unless it fails for good.  The token is
\* contended: strong fairness gives the writer its share of the wake-ups.  The other
\* receiver may stop for ever.
Fairness ==
    /\ \A g \in Goroutines : WF_vars(SendEvent(g))
    /\ \A c \in Conns : WF_vars(Accepted(c) \/ Declined(c) \/ Enters(c))
    /\ SF_vars(WriterWakes)
    /\ WF_vars(WriterReads)
    /\ SF_vars(WriterPublishes)
    /\ SF_vars(WriterReturns)
    /\ WF_vars(StopReturns)
    /\ WF_vars(RemoveShare)

FairSpec == Spec /\ Fairness

-----------------------------------------------------------------------------
(* Properties.                                                             *)

\* The file can differ from the active set only while a wake-up for the writer is
\* on its way: a goroutine has yet to send, the token is in the channel, the
\* writer is between its wake-up and its rename, or the wake-up was lost to the
\* other watcher or to a failed write.  No change slips between the writer's read
\* and its next select.
StaleFileMeansWakeUp ==
    file # UsernamesOf(active) =>
        signals # {} \/ events \/ writer # "selecting" \/ missed \/ life # "running"

\* Nothing writes to the share once the VM has removed it.
NoWriteAfterRemoval == life = "shareRemoved" => writer = "returned"

\* The writer catches up with every change it is woken for, and it can always be
\* stopped: the share goes only after it, so a loop that did not return would keep
\* the sandbox up.
WriterKeepsUp ==
    /\ (file # UsernamesOf(active))
          ~> (file = UsernamesOf(active) \/ missed \/ life # "running")
    /\ (life = "stopping") ~> (life = "shareRemoved")

\* writer.go lines 24-26 and registry.go lines 99-101: the file is refreshed on
\* every registry change, and a receiver that misses a signal sees the latest state
\* on its next read.  So a guest that stays in the session gets into the file.
GuestsAreListed ==
    \A c \in Conns :
        c \in active ~> (username[c] \in file \/ c \notin active \/ life # "running")
=============================================================================
