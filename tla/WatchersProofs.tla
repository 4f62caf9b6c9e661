--------------------------- MODULE WatchersProofs ---------------------------
(***************************************************************************)
(* Proofs about Watchers, for any number of connections and names: no      *)
(* change of the active set slips past the writer, and the writer is gone  *)
(* before the share is.                                                    *)
(***************************************************************************)
EXTENDS Watchers, TLAPS

\* A wake-up has yet to reach the writer, or will never do so.
Due == signals # {} \/ events \/ missed \/ life # "running"

\* An active session is inside, and has had a name since it asked.
PlaceInv ==
    /\ \A c \in active : at[c] = "inside"
    /\ \A c \in Conns : at[c] # "new" => username[c] \in Names

\* The write in progress needs watching too: what it was given may have changed since.
FileInv ==
    /\ file # UsernamesOf(active) => Due \/ writer # "selecting"
    /\ writer = "writing" /\ listed # UsernamesOf(active) => Due

StopInv ==
    /\ writer = "returned" => life # "running"
    /\ life \in {"stopped", "shareRemoved"} => writer = "returned"

-----------------------------------------------------------------------------
\* Every step keeps the state well typed.
LEMMA StepTyped == TypeOK /\ PlaceInv /\ [Next]_vars => TypeOK'
  <1> SUFFICES ASSUME TypeOK, PlaceInv, [Next]_vars PROVE TypeOK'
    OBVIOUS
  <1> USE RegistryAssumption DEF TypeOK, RegistryTypeOK, Goroutines, Decisions, NoDecision,
          registryVars, connectionVars, writerVars, UsernamesOf
  <1>1. ASSUME NEW c \in Conns, NEW n \in Names, Becomes(c, "new", "queued"), AddPending(c, n)
        PROVE  TypeOK'
    BY <1>1 DEF Becomes, AddPending
  <1>2. ASSUME NEW c \in Conns, Accepted(c) \/ Declined(c) PROVE TypeOK'
    BY <1>2 DEF Accepted, Declined, Becomes, ReceiveDecision
  <1>3. ASSUME NEW c \in Conns, Withdraws(c) PROVE TypeOK'
    BY <1>3 DEF Withdraws, Becomes, CancelPending
  <1>4. ASSUME NEW c \in Conns, Enters(c) PROVE TypeOK'
    BY <1>4 DEF Enters, Becomes, Activate
  <1>5. ASSUME NEW c \in Conns, Leaves(c) PROVE TypeOK'
    <2>1. at' \in [Conns -> {"new", "queued", "accepted", "inside", "gone"}]
      BY <1>5 DEF Leaves, Becomes
    <2>2. active' \subseteq Conns /\ names' \subseteq Names /\ signals' \subseteq Goroutines
      BY <1>5 DEF Leaves, RemoveActive
    <2>3. UNCHANGED <<pending, owner, decision, username, events, writer, listed, file,
                      missed, armed, life>>
      BY <1>5 DEF Leaves, Becomes, RemoveActive
    <2>4. QED
      BY <2>1, <2>2, <2>3
  <1>6. ASSUME NEW c \in Conns, NEW d \in Decisions, Decides(c, d) PROVE TypeOK'
    BY <1>6 DEF Decides, Resolve
  <1>7. ASSUME NEW g \in Goroutines, SendEvent(g) PROVE TypeOK'
    BY <1>7 DEF SendEvent, Notify
  <1>8. CASE Writer
    <2>1. UsernamesOf(active) \subseteq Names
      BY DEF PlaceInv
    <2>2. QED
      BY <1>8, <2>1 DEF Writer, WriterWakes, TakeEvent, WriterReads, WriterPublishes,
                        WriteFails, WriterReturns
  <1>9. CASE Rival
    BY <1>9 DEF Rival, ConsoleTakesEvent, TakeEvent, ConsoleWaitsAgain
  <1>10. CASE StopBegins \/ StopReturns \/ RemoveShare
    BY <1>10 DEF StopBegins, StopReturns, RemoveShare
  <1>11. CASE UNCHANGED vars
    BY <1>11 DEF vars
  <1>12. QED
    BY <1>1, <1>2, <1>3, <1>4, <1>5, <1>6, <1>7, <1>8, <1>9, <1>10, <1>11
       DEF Next, Guest, Asks

-----------------------------------------------------------------------------
\* Whoever changes the active set, or a name in it, has a signal to send.
LEMMA ChangesAreSignalled ==
    ASSUME TypeOK, PlaceInv, NEW c \in Conns,
           Guest(c) \/ \E d \in Decisions : Decides(c, d)
    PROVE  /\ PlaceInv'
           /\ signals \subseteq signals'
           /\ signals' # {} \/ UsernamesOf(active)' = UsernamesOf(active)
           /\ UNCHANGED <<writerVars, missed, life, events>>
  <1> USE DEF PlaceInv, TypeOK, RegistryTypeOK, UsernamesOf, Becomes
  <1>1. CASE Asks(c)
    BY <1>1 DEF Asks, AddPending
  <1>2. CASE Accepted(c) \/ Declined(c)
    BY <1>2 DEF Accepted, Declined, ReceiveDecision
  <1>3. CASE Withdraws(c)
    BY <1>3 DEF Withdraws, CancelPending
  <1>4. CASE Enters(c)
    BY <1>4 DEF Enters, Activate
  <1>5. CASE Leaves(c)
    BY <1>5 DEF Leaves, RemoveActive
  <1>6. CASE \E d \in Decisions : Decides(c, d)
    BY <1>6 DEF Decides, Resolve
  <1>7. QED
    BY <1>1, <1>2, <1>3, <1>4, <1>5, <1>6 DEF Guest

\* Every step keeps the sessions in their places.
LEMMA StepPlace == TypeOK /\ PlaceInv /\ [Next]_vars => PlaceInv'
  <1> SUFFICES ASSUME TypeOK, PlaceInv, [Next]_vars PROVE PlaceInv'
    OBVIOUS
  <1>1. ASSUME NEW c \in Conns, Guest(c) \/ \E d \in Decisions : Decides(c, d)
        PROVE  PlaceInv'
    BY <1>1, ChangesAreSignalled
  <1>2. UNCHANGED <<active, at, username>> => PlaceInv'
    BY DEF PlaceInv
  <1>3. ASSUME NEW g \in Goroutines, SendEvent(g) PROVE PlaceInv'
    BY <1>2, <1>3 DEF SendEvent, Notify
  <1>4. CASE Writer \/ Rival
    BY <1>2, <1>4 DEF Writer, WriterWakes, WriterReads, WriterPublishes, WriteFails,
       WriterReturns, Rival, ConsoleTakesEvent, ConsoleWaitsAgain, TakeEvent,
       connectionVars, registryVars
  <1>5. CASE StopBegins \/ StopReturns \/ RemoveShare \/ UNCHANGED vars
    BY <1>2, <1>5 DEF StopBegins, StopReturns, RemoveShare, vars, connectionVars, registryVars
  <1>6. QED
    BY <1>1, <1>3, <1>4, <1>5 DEF Next

\* Every step keeps the file up to date or the writer due.
LEMMA StepFile == TypeOK /\ PlaceInv /\ FileInv /\ [Next]_vars => FileInv'
  <1> SUFFICES ASSUME TypeOK, PlaceInv, FileInv, [Next]_vars PROVE FileInv'
    OBVIOUS
  <1>1. ASSUME NEW c \in Conns, Guest(c) \/ \E d \in Decisions : Decides(c, d)
        PROVE  FileInv'
    <2>1. /\ signals \subseteq signals'
          /\ signals' # {} \/ UsernamesOf(active)' = UsernamesOf(active)
          /\ UNCHANGED <<writerVars, missed, life, events>>
      BY <1>1, ChangesAreSignalled
    <2>2. QED
      BY <2>1 DEF FileInv, Due, writerVars
  <1> USE DEF FileInv, Due, registryVars, connectionVars, writerVars, UsernamesOf
  <1>2. ASSUME NEW g \in Goroutines, SendEvent(g) PROVE FileInv'
    BY <1>2 DEF SendEvent, Notify
  <1>3. CASE WriterWakes
    BY <1>3 DEF WriterWakes, TakeEvent
  <1>4. CASE WriterReads
    BY <1>4 DEF WriterReads
  <1>5. CASE WriterPublishes \/ WriteFails \/ WriterReturns
    BY <1>5 DEF WriterPublishes, WriteFails, WriterReturns
  <1>6. CASE Rival
    BY <1>6 DEF Rival, ConsoleTakesEvent, TakeEvent, ConsoleWaitsAgain
  <1>7. CASE StopBegins \/ StopReturns \/ RemoveShare
    BY <1>7 DEF StopBegins, StopReturns, RemoveShare
  <1>8. CASE UNCHANGED vars
    BY <1>8 DEF vars
  <1>9. QED
    BY <1>1, <1>2, <1>3, <1>4, <1>5, <1>6, <1>7, <1>8 DEF Next, Writer

\* Every step keeps Stop waiting for the loop.
LEMMA StepStop == StopInv /\ [Next]_vars => StopInv'
  <1> SUFFICES ASSUME StopInv, [Next]_vars PROVE StopInv'
    OBVIOUS
  <1> USE DEF StopInv, writerVars
  <1>1. ASSUME NEW c \in Conns, Guest(c) \/ \E d \in Decisions : Decides(c, d)
        PROVE  StopInv'
    BY <1>1 DEF Guest, Asks, Accepted, Declined, Withdraws, Enters, Leaves, Becomes, Decides
  <1>2. ASSUME NEW g \in Goroutines, SendEvent(g) PROVE StopInv'
    BY <1>2 DEF SendEvent
  <1>3. CASE Writer
    BY <1>3 DEF Writer, WriterWakes, WriterReads, WriterPublishes, WriteFails, WriterReturns
  <1>4. CASE Rival
    BY <1>4 DEF Rival, ConsoleTakesEvent, ConsoleWaitsAgain
  <1>5. CASE StopBegins \/ StopReturns \/ RemoveShare
    BY <1>5 DEF StopBegins, StopReturns, RemoveShare
  <1>6. CASE UNCHANGED vars
    BY <1>6 DEF vars
  <1>7. QED
    BY <1>1, <1>2, <1>3, <1>4, <1>5, <1>6 DEF Next

-----------------------------------------------------------------------------
IInv == TypeOK /\ PlaceInv /\ FileInv /\ StopInv

\* The strengthened invariant holds throughout.
THEOREM Invariance == Spec => []IInv
  <1>1. Init => IInv
    <2> SUFFICES ASSUME Init PROVE IInv
      OBVIOUS
    <2>1. TypeOK
      BY DEF Init, RegistryInit, TypeOK, RegistryTypeOK
    <2>2. PlaceInv /\ FileInv /\ StopInv
      BY DEF Init, RegistryInit, PlaceInv, FileInv, StopInv, UsernamesOf
    <2>3. QED
      BY <2>1, <2>2 DEF IInv
  <1>2. IInv /\ [Next]_vars => IInv'
    BY StepTyped, StepPlace, StepFile, StepStop DEF IInv
  <1>3. QED
    BY <1>1, <1>2, PTL DEF Spec

\* The registry, the writer and its rival are well typed.
THEOREM TypeCorrect == Spec => []TypeOK
  <1>1. IInv => TypeOK
    BY DEF IInv
  <1>2. QED
    BY <1>1, Invariance, PTL

\* A file that differs from the active set has a wake-up on its way or lost one: no
\* change slips between the writer's read and its next select.
THEOREM NoChangeSlips == Spec => []StaleFileMeansWakeUp
  <1>1. IInv => StaleFileMeansWakeUp
    BY DEF IInv, FileInv, Due, StaleFileMeansWakeUp
  <1>2. QED
    BY <1>1, Invariance, PTL

\* The share is removed only after the writer's loop has returned.
THEOREM WriterGoesFirst == Spec => []NoWriteAfterRemoval
  <1>1. IInv => NoWriteAfterRemoval
    BY DEF IInv, StopInv, NoWriteAfterRemoval
  <1>2. QED
    BY <1>1, Invariance, PTL
=============================================================================
