------------------------- MODULE ControlPlaneProofs -------------------------
(***************************************************************************)
(* Proofs about ControlPlane, for any set of guests: the chain of event    *)
(* waits is one, the owner's screen is consistent, the bell tells of new    *)
(* requests, and keys act on what the owner sees.                          *)
(***************************************************************************)
EXTENDS ControlPlane, SubsequencesProofs

\* What Update answers goes with where it is.
UpdateInv ==
    /\ ui \in {"idle", "deciding", "readPending", "readActive"}
    /\ trigger \in {"start", "tick", "key", "none"}
    /\ trigger = "none" <=> ui = "idle"
    /\ ui = "deciding" => trigger = "key"
    /\ program # "running" => ui = "idle"

\* The first wait is made when the rows have been populated; each is then passed on from
\* goroutine to message to refresh.
WaitInv ==
    /\ waiters \in Nat
    /\ refreshes \in Nat
    /\ trigger = "start" => waiters = 0 /\ refreshes = 0
    /\ trigger = "tick" => waiters = 0 /\ refreshes = 0
    /\ trigger \in {"key", "none"} => waiters + refreshes = 1

SeatInv == seat \in [Guests -> House!Seats]

\* The registry's lists: no duplicates, and nobody missing.
ListInv ==
    /\ asked \in Seq(Guests) /\ IsInjective(asked)
    /\ entered \in Seq(Guests) /\ IsInjective(entered)
    /\ Pending \subseteq Range(asked)
    /\ Active \subseteq Range(entered)

\* Between the two reads of a refresh nobody in the first list can have come in, and
\* the count the bell goes by is that of the screen.
ScreenInv ==
    /\ got \in Seq(Guests) /\ IsInjective(got)
    /\ ui = "readActive" => \A i \in DOMAIN got : seat[got[i]] \in {"waiting", "gone"}
    /\ rows \in Seq(Row) /\ RowsAreDistinct
    /\ cursor \in Nat /\ CursorOnRow
    /\ waiting \in Nat /\ waiting = Cardinality(ShownPending)

\* The types that say nothing else.
FlagInv ==
    /\ host \in BOOLEAN
    /\ closing \in BOOLEAN
    /\ name \in [Guests -> Guests \cup {NoName}]
    /\ confirming \in BOOLEAN
    /\ bell \in BOOLEAN
    /\ quitting \in BOOLEAN
    /\ program \in {"running", "returned", "done"}
    /\ stop \in {"no", "waiting", "stopped"}

CInv == UpdateInv /\ WaitInv /\ SeatInv /\ ListInv /\ ScreenInv /\ FlagInv

-----------------------------------------------------------------------------
\* Each step keeps Update where what it answers says.
LEMMA StepUpdate == UpdateInv /\ [Next]_vars => UpdateInv'
  <1> SUFFICES ASSUME UpdateInv, [Next]_vars PROVE UpdateInv'
    OBVIOUS
  <1> USE DEF UpdateInv, modelVars, endVars
  <1>1. ASSUME NEW g \in Guests, GuestMoves(g) PROVE UpdateInv'
    BY <1>1 DEF GuestMoves
  <1>2. CASE OwnerMoves \/ SignalComes \/ WaitEnds
    BY <1>2 DEF OwnerMoves, SignalComes, WaitEnds
  <1>3. CASE UpdateOnRefresh
    BY <1>3 DEF UpdateOnRefresh, Refresh, Idle, endVars
  <1>4. CASE MoveCursor \/ PressAccept \/ PressDecline \/ PressOther
    BY <1>4 DEF MoveCursor, PressAccept, PressDecline, PressOther, Refresh, KeyRead, Idle
  <1>5. CASE PressQuit \/ PressCtrlC \/ AnswerPrompt
    BY <1>5 DEF PressQuit, PressCtrlC, AnswerPrompt
  <1>6. CASE UpdateGoesOn
    BY <1>6 DEF UpdateGoesOn, AcceptSelected, ReadPending, ReadActive, Refresh
  <1>7. CASE ProgramReturns \/ CallQuit \/ StopSendsQuit \/ StopReturns
    BY <1>7 DEF ProgramReturns, CallQuit, StopSendsQuit, StopReturns, Idle
  <1>8. CASE UNCHANGED vars
    BY <1>8 DEF vars
  <1>9. QED
    BY <1>1, <1>2, <1>3, <1>4, <1>5, <1>6, <1>7, <1>8 DEF Next, Press

\* Each step passes the one wait on.
LEMMA StepWait == UpdateInv /\ WaitInv /\ [Next]_vars => WaitInv'
  <1> SUFFICES ASSUME UpdateInv, WaitInv, [Next]_vars PROVE WaitInv'
    OBVIOUS
  <1> USE DEF UpdateInv, WaitInv, modelVars, tickVars
  <1>1. ASSUME NEW g \in Guests, GuestMoves(g) PROVE WaitInv'
    BY <1>1 DEF GuestMoves
  <1>2. CASE OwnerMoves \/ SignalComes \/ WaitEnds
    BY <1>2 DEF OwnerMoves, SignalComes, WaitEnds
  <1>3. CASE UpdateOnRefresh
    BY <1>3 DEF UpdateOnRefresh, Refresh, Idle
  <1>4. CASE MoveCursor \/ PressAccept \/ PressDecline \/ PressOther
    BY <1>4 DEF MoveCursor, PressAccept, PressDecline, PressOther, Refresh, KeyRead, Idle
  <1>5. CASE PressQuit \/ PressCtrlC \/ AnswerPrompt
    BY <1>5 DEF PressQuit, PressCtrlC, AnswerPrompt
  <1>6. CASE AcceptSelected \/ ReadPending
    BY <1>6 DEF AcceptSelected, ReadPending, Refresh
  <1>7. CASE ReadActive
    BY <1>7 DEF ReadActive
  <1>8. CASE ProgramReturns \/ CallQuit \/ StopSendsQuit \/ StopReturns
    BY <1>8 DEF ProgramReturns, CallQuit, StopSendsQuit, StopReturns
  <1>9. CASE UNCHANGED vars
    BY <1>9 DEF vars
  <1>10. QED
    BY <1>1, <1>2, <1>3, <1>4, <1>5, <1>6, <1>7, <1>8, <1>9 DEF Next, Press, UpdateGoesOn

\* What a decision does to the seats.
LEMMA DeliverSeats ==
    ASSUME SeatInv, NEW d \in {"accept", "decline"}, Deliver(d)
    PROVE  \/ seat' = seat
           \/ \E r \in Selected :
                 /\ r.pending
                 /\ seat[r.id] = "waiting"
                 /\ d = "accept" => host
                 /\ seat' = [seat EXCEPT ![r.id] = IF d = "accept" THEN "approved" ELSE "gone"]
  BY DEF Deliver, Resolve, Resolvable, House!Approve, House!Refuse, House!Move, houseVars

\* What any other step does to them.
LEMMA OtherSeats ==
    ASSUME SeatInv, [Next]_vars, ~AcceptSelected, ~PressDecline
    PROVE  /\ seat' \in [Guests -> House!Seats]
           /\ \A g \in Guests : seat[g] = "waiting" => seat'[g] \in {"waiting", "gone"}
           /\ \A g \in Guests : seat[g] = "gone" => seat'[g] = "gone"
           /\ seat' # seat => trigger' = trigger
  <1> USE DEF SeatInv, houseVars, modelVars
  <1>1. ASSUME NEW h \in Guests, GuestMoves(h)
        PROVE  /\ seat' \in [Guests -> House!Seats]
               /\ \A g \in Guests : seat[g] = "waiting" => seat'[g] \in {"waiting", "gone"}
               /\ \A g \in Guests : seat[g] = "gone" => seat'[g] = "gone"
               /\ trigger' = trigger
    BY <1>1 DEF GuestMoves, House!Ask, House!ComeIn, House!Refuse, House!Forfeit,
                House!Leave, House!Move, House!Seats
  <1>2. CASE seat' = seat
    BY <1>2
  <1>3. OwnerMoves \/ SignalComes \/ WaitEnds => seat' = seat
    BY DEF OwnerMoves, SignalComes, WaitEnds, House!HostArrives, House!HostLeaves,
           House!Close
  <1>4. UpdateOnRefresh \/ MoveCursor \/ PressAccept \/ PressOther => seat' = seat
    BY DEF UpdateOnRefresh, MoveCursor, PressAccept, PressOther
  <1>5. PressQuit \/ PressCtrlC \/ AnswerPrompt \/ ReadPending \/ ReadActive => seat' = seat
    BY DEF PressQuit, PressCtrlC, AnswerPrompt, ReadPending, ReadActive
  <1>6. ProgramReturns \/ CallQuit \/ StopSendsQuit \/ StopReturns => seat' = seat
    BY DEF ProgramReturns, CallQuit, StopSendsQuit, StopReturns, House!Close
  <1>7. UNCHANGED vars => seat' = seat
    BY DEF vars
  <1>8. QED
    BY <1>1, <1>2, <1>3, <1>4, <1>5, <1>6, <1>7 DEF Next, Press, UpdateGoesOn

\* Each step keeps every seat one of the seats.
LEMMA StepSeats == SeatInv /\ [Next]_vars => SeatInv'
  <1> SUFFICES ASSUME SeatInv, [Next]_vars PROVE SeatInv'
    OBVIOUS
  <1>1. CASE AcceptSelected
    <2>1. Deliver("accept")
      BY <1>1 DEF AcceptSelected
    <2>2. QED
      BY <2>1, DeliverSeats DEF SeatInv, House!Seats
  <1>2. CASE PressDecline
    <2>1. Deliver("decline")
      BY <1>2 DEF PressDecline
    <2>2. QED
      BY <2>1, DeliverSeats DEF SeatInv, House!Seats
  <1>3. CASE ~AcceptSelected /\ ~PressDecline
    BY <1>3, OtherSeats DEF SeatInv
  <1>4. QED
    BY <1>1, <1>2, <1>3

-----------------------------------------------------------------------------
\* The house as it moves: a request is put at the end of the one list, a session at the
\* end of the other, and otherwise nobody begins to wait or comes in.
LEMMA ListSteps ==
    ASSUME SeatInv, [Next]_vars
    PROVE  \/ \E g \in Guests : /\ House!Ask(g, g)
                               /\ asked' = Append(Snapshot(asked, Pending), g)
                               /\ UNCHANGED entered
           \/ \E g \in Guests : /\ House!ComeIn(g)
                               /\ entered' = Append(Snapshot(entered, Active), g)
                               /\ UNCHANGED asked
           \/ /\ UNCHANGED orderVars
              /\ Pending' \subseteq Pending
              /\ Active' \subseteq Active
  <1> DEFINE Same == /\ UNCHANGED orderVars
                     /\ Pending' \subseteq Pending
                     /\ Active' \subseteq Active
  <1> USE DEF SeatInv, houseVars, orderVars, Pending, Active
  <1>1. ASSUME NEW g \in Guests, GuestMoves(g)
        PROVE  \/ House!Ask(g, g) /\ asked' = Append(Snapshot(asked, Pending), g) /\ UNCHANGED entered
               \/ House!ComeIn(g) /\ entered' = Append(Snapshot(entered, Active), g) /\ UNCHANGED asked
               \/ Same
    BY <1>1 DEF GuestMoves, House!Refuse, House!Forfeit, House!Leave, House!Move
  <1>2. AcceptSelected \/ PressDecline => Same
    <2>1. ASSUME NEW d \in {"accept", "decline"}, Deliver(d), UNCHANGED orderVars PROVE Same
      BY <2>1, DeliverSeats DEF Selected
    <2>2. QED
      BY <2>1 DEF AcceptSelected, PressDecline
  <1>3. OwnerMoves \/ SignalComes \/ WaitEnds => Same
    BY DEF OwnerMoves, SignalComes, WaitEnds, House!HostArrives, House!HostLeaves,
           House!Close
  <1>4. UpdateOnRefresh \/ MoveCursor \/ PressAccept \/ PressOther => Same
    BY DEF UpdateOnRefresh, MoveCursor, PressAccept, PressOther
  <1>5. PressQuit \/ PressCtrlC \/ AnswerPrompt \/ ReadPending \/ ReadActive => Same
    BY DEF PressQuit, PressCtrlC, AnswerPrompt, ReadPending, ReadActive
  <1>6. ProgramReturns \/ CallQuit \/ StopSendsQuit \/ StopReturns => Same
    BY DEF ProgramReturns, CallQuit, StopSendsQuit, StopReturns, House!Close
  <1>7. UNCHANGED vars => Same
    BY DEF vars
  <1>8. QED
    BY <1>1, <1>2, <1>3, <1>4, <1>5, <1>6, <1>7 DEF Next, Press, UpdateGoesOn

\* What a list of the registry is when it is read.
LEMMA SnapshotProperties ==
    ASSUME NEW order \in Seq(Guests), IsInjective(order), NEW S
    PROVE  /\ Snapshot(order, S) \in Seq(Guests)
           /\ IsInjective(Snapshot(order, S))
           /\ Range(Snapshot(order, S)) = Range(order) \cap S
  BY AmongProperties DEF Snapshot

\* What a list is when somebody is put at its end.
LEMMA AppendToSnapshot ==
    ASSUME NEW order \in Seq(Guests), IsInjective(order), NEW S, NEW g \in Guests, g \notin S
    PROVE  /\ Append(Snapshot(order, S), g) \in Seq(Guests)
           /\ IsInjective(Append(Snapshot(order, S), g))
           /\ Range(Append(Snapshot(order, S), g)) = (Range(order) \cap S) \cup {g}
  <1> DEFINE list == Snapshot(order, S)
  <1>1. list \in Seq(Guests) /\ IsInjective(list) /\ Range(list) = Range(order) \cap S
    BY SnapshotProperties
  <1> HIDE DEF list
  <1>2. \A i \in 1..Len(list) : list[i] # g
    BY <1>1 DEF Range
  <1>3. /\ Append(list, g) \in Seq(Guests)
        /\ DOMAIN Append(list, g) = 1..Len(list) + 1
        /\ \A i \in 1..Len(list) : Append(list, g)[i] = list[i]
        /\ Append(list, g)[Len(list) + 1] = g
    BY <1>1
  <1>4. IsInjective(Append(list, g))
    BY <1>1, <1>2, <1>3 DEF IsInjective
  <1>5. Range(Append(list, g)) = Range(list) \cup {g}
    BY <1>1, <1>3 DEF Range
  <1>6. QED
    BY <1>1, <1>3, <1>4, <1>5 DEF list

\* Each step keeps the registry's lists.
LEMMA StepLists == SeatInv /\ ListInv /\ [Next]_vars => ListInv'
  <1> SUFFICES ASSUME SeatInv, ListInv, [Next]_vars PROVE ListInv'
    OBVIOUS
  <1>1. ASSUME NEW g \in Guests, House!Ask(g, g),
               asked' = Append(Snapshot(asked, Pending), g), UNCHANGED entered
        PROVE  ListInv'
    <2>1. g \notin Pending /\ Pending' \subseteq Pending \cup {g} /\ Active' \subseteq Active
      BY <1>1 DEF SeatInv, Pending, Active, House!Ask, House!Move
    <2>2. /\ asked' \in Seq(Guests)
          /\ IsInjective(asked')
          /\ Range(asked') = (Range(asked) \cap Pending) \cup {g}
      BY <1>1, <2>1, AppendToSnapshot DEF ListInv
    <2>3. QED
      BY <1>1, <2>1, <2>2 DEF ListInv
  <1>2. ASSUME NEW g \in Guests, House!ComeIn(g),
               entered' = Append(Snapshot(entered, Active), g), UNCHANGED asked
        PROVE  ListInv'
    <2>1. g \notin Active /\ Active' \subseteq Active \cup {g} /\ Pending' \subseteq Pending
      BY <1>2 DEF SeatInv, Pending, Active, House!ComeIn, House!Move
    <2>2. /\ entered' \in Seq(Guests)
          /\ IsInjective(entered')
          /\ Range(entered') = (Range(entered) \cap Active) \cup {g}
      BY <1>2, <2>1, AppendToSnapshot DEF ListInv
    <2>3. QED
      BY <1>2, <2>1, <2>2 DEF ListInv
  <1>3. ASSUME UNCHANGED orderVars, Pending' \subseteq Pending, Active' \subseteq Active
        PROVE  ListInv'
    BY <1>3 DEF ListInv, orderVars
  <1>4. QED
    BY <1>1, <1>2, <1>3, ListSteps

-----------------------------------------------------------------------------
\* A row for each guest of a list.
LEMMA RowsOfProperties ==
    ASSUME NEW p \in BOOLEAN, NEW ids \in Seq(Guests)
    PROVE  /\ RowsOf(p, ids) \in Seq(Row)
           /\ Len(RowsOf(p, ids)) = Len(ids)
           /\ \A i \in 1..Len(ids) : RowsOf(p, ids)[i] = [pending |-> p, id |-> ids[i]]
  <1>1. Len(ids) \in Nat /\ DOMAIN ids = 1..Len(ids)
    OBVIOUS
  <1>2. RowsOf(p, ids) = [i \in 1..Len(ids) |-> [pending |-> p, id |-> ids[i]]]
    BY <1>1 DEF RowsOf
  <1>3. \A i \in 1..Len(ids) : [pending |-> p, id |-> ids[i]] \in Row
    BY DEF Row
  <1>4. RowsOf(p, ids) \in [1..Len(ids) -> Row]
    BY <1>2, <1>3
  <1>5. RowsOf(p, ids) \in Seq(Row) /\ Len(RowsOf(p, ids)) = Len(ids)
    BY <1>1, <1>4
  <1>6. QED
    BY <1>2, <1>5

\* The rows of a refresh: the requests read first, then the sessions.
LEMMA NewRows ==
    ASSUME ListInv, ScreenInv, ReadActive
    PROVE  /\ rows' \in Seq(Row)
           /\ RowsAreDistinct'
           /\ ShownPending' = Range(got)
  <1> DEFINE ins == Snapshot(entered, Active)
             m == Len(got)
             n == Len(ins)
  <1>1. ui = "readActive" /\ rows' = RowsOf(TRUE, got) \o RowsOf(FALSE, ins)
    BY DEF ReadActive
  <1>2. /\ ins \in Seq(Guests) /\ IsInjective(ins)
        /\ \A j \in DOMAIN ins : seat[ins[j]] = "in"
    <2>1. ins \in Seq(Guests) /\ IsInjective(ins) /\ Range(ins) \subseteq Active
      BY SnapshotProperties DEF ListInv
    <2>2. QED
      BY <2>1 DEF Range, Active
  <1>3. /\ got \in Seq(Guests) /\ IsInjective(got)
        /\ \A i \in DOMAIN got : seat[got[i]] # "in"
    BY <1>1 DEF ScreenInv
  <1> HIDE DEF ins
  <1>4. /\ DOMAIN got = 1..m /\ DOMAIN ins = 1..n
        /\ m \in Nat /\ n \in Nat
    BY <1>2, <1>3
  <1> HIDE DEF m, n
  <1> DEFINE above == RowsOf(TRUE, got)
             below == RowsOf(FALSE, ins)
  <1>5. /\ above \in Seq(Row) /\ Len(above) = m
        /\ below \in Seq(Row) /\ Len(below) = n
        /\ \A i \in 1..m : above[i] = [pending |-> TRUE, id |-> got[i]]
        /\ \A i \in 1..n : below[i] = [pending |-> FALSE, id |-> ins[i]]
    BY <1>2, <1>3, RowsOfProperties DEF m, n
  <1> HIDE DEF above, below
  <1>6. /\ rows' \in Seq(Row)
        /\ DOMAIN rows' = 1..m + n
        /\ \A i \in 1..m : rows'[i].pending /\ rows'[i].id = got[i]
        /\ \A i \in m + 1..m + n : ~rows'[i].pending /\ rows'[i].id = ins[i - m]
    <2>1. rows' = above \o below
      BY <1>1 DEF above, below
    <2>2. rows' \in Seq(Row) /\ DOMAIN rows' = 1..m + n
      <3>1. above \o below \in Seq(Row) /\ Len(above \o below) = m + n
        BY <1>5, ConcatProperties, Zenon
      <3>2. DOMAIN (above \o below) = 1..m + n
        BY <3>1
      <3>3. QED
        BY <2>1, <3>1, <3>2
    <2>3. ASSUME NEW i \in 1..m PROVE rows'[i].pending /\ rows'[i].id = got[i]
      <3>1. i \in 1..m + n /\ i <= m
        BY <1>4
      <3>2. rows'[i] = above[i]
        BY <1>5, <2>1, <3>1, ConcatProperties
      <3>3. rows'[i] = [pending |-> TRUE, id |-> got[i]]
        BY <1>5, <3>2
      <3>4. QED
        BY <3>3
    <2>4. ASSUME NEW i \in m + 1..m + n PROVE ~rows'[i].pending /\ rows'[i].id = ins[i - m]
      <3>1. i - m \in 1..n /\ i \in 1..m + n /\ ~(i <= m)
        BY <1>4
      <3>2. rows'[i] = below[i - m]
        BY <1>5, <2>1, <3>1, ConcatProperties
      <3>3. rows'[i] = [pending |-> FALSE, id |-> ins[i - m]]
        BY <1>5, <3>1, <3>2
      <3>4. QED
        BY <3>3
    <2>5. QED
      BY <2>2, <2>3, <2>4
  <1>7. RowsAreDistinct'
    <2> SUFFICES ASSUME NEW i \in 1..m + n, NEW j \in 1..m + n, rows'[i].id = rows'[j].id
                 PROVE  i = j
      BY <1>6 DEF RowsAreDistinct
    <2>1. CASE i \in 1..m /\ j \in 1..m
      <3>1. got[i] = got[j]
        BY <1>6, <2>1
      <3>2. QED
        BY <1>3, <1>4, <2>1, <3>1 DEF IsInjective
    <2>2. CASE i \in m + 1..m + n /\ j \in m + 1..m + n
      <3>1. i - m \in 1..n /\ j - m \in 1..n /\ ins[i - m] = ins[j - m]
        BY <1>4, <1>6, <2>2
      <3>2. i - m = j - m
        BY <1>2, <1>4, <3>1 DEF IsInjective
      <3>3. QED
        BY <1>4, <3>2
    <2>3. ASSUME NEW k \in 1..m, NEW l \in m + 1..m + n PROVE rows'[k].id # rows'[l].id
      <3>1. l - m \in 1..n
        BY <1>4
      <3>2. seat[got[k]] # "in" /\ seat[ins[l - m]] = "in"
        BY <1>2, <1>3, <1>4, <3>1
      <3>3. QED
        BY <1>6, <3>2
    <2>4. \A k \in 1..m + n : k \in 1..m \/ k \in m + 1..m + n
      BY <1>4
    <2>5. QED
      BY <2>1, <2>2, <2>3, <2>4
  <1>8. ShownPending' = Range(got)
    <2>1. {j \in DOMAIN rows' : rows'[j].pending} = 1..m
      <3>1. \A j \in 1..m : rows'[j].pending /\ j \in 1..m + n
        BY <1>4, <1>6
      <3>2. \A j \in m + 1..m + n : ~rows'[j].pending
        BY <1>6
      <3>3. \A k \in 1..m + n : k \in 1..m \/ k \in m + 1..m + n
        BY <1>4
      <3>4. QED
        BY <1>6, <3>1, <3>2, <3>3
    <2>2. ShownPending' = {rows'[i].id : i \in 1..m}
      BY <2>1 DEF ShownPending
    <2>3. \A i \in 1..m : rows'[i].id = got[i]
      BY <1>6
    <2>4. QED
      BY <1>4, <2>2, <2>3 DEF Range
  <1>9. QED
    BY <1>6, <1>7, <1>8

\* A cursor on a row moves to a row.
LEMMA CursorMoves ==
    ASSUME ScreenInv, MoveCursor
    PROVE  cursor' \in Nat /\ CursorOnRow'
  <1>1. rows' = rows /\ rows \in Seq(Row) /\ cursor \in Nat
    BY DEF ScreenInv, MoveCursor
  <1>2. CASE cursor > 0 /\ cursor' = cursor - 1
    BY <1>1, <1>2 DEF ScreenInv, CursorOnRow
  <1>3. CASE cursor + 1 < Len(rows) /\ cursor' = cursor + 1
    BY <1>1, <1>3 DEF ScreenInv, CursorOnRow
  <1>4. QED
    BY <1>2, <1>3 DEF MoveCursor

\* Each step keeps the screen consistent.
LEMMA StepScreen ==
    UpdateInv /\ SeatInv /\ ListInv /\ ScreenInv /\ [Next]_vars => ScreenInv'
  <1> SUFFICES ASSUME UpdateInv, SeatInv, ListInv, ScreenInv, [Next]_vars PROVE ScreenInv'
    OBVIOUS
  <1> DEFINE Same == UNCHANGED <<rows, waiting, got>>
  <1>1. CASE ReadActive
    <2>1. rows' \in Seq(Row) /\ RowsAreDistinct' /\ ShownPending' = Range(got)
      BY <1>1, NewRows
    <2>2. got' = <<>> /\ ui' = "idle" /\ waiting' = Len(got)
      BY <1>1 DEF ReadActive
    <2>3. waiting' \in Nat /\ waiting' = Cardinality(ShownPending')
      BY <2>1, <2>2, RangeCardinality DEF ScreenInv
    <2>4. cursor' \in Nat /\ CursorOnRow'
      <3>1. cursor' = IF cursor < Len(rows') THEN cursor
                      ELSE IF rows' = <<>> THEN 0 ELSE Len(rows') - 1
        BY <1>1 DEF ReadActive
      <3>2. Len(rows') \in Nat /\ (rows' = <<>> <=> Len(rows') = 0)
        BY <2>1
      <3>3. QED
        BY <3>1, <3>2 DEF ScreenInv, CursorOnRow
    <2>5. got' \in Seq(Guests) /\ IsInjective(got')
      BY <2>2 DEF IsInjective
    <2>6. QED
      BY <2>1, <2>2, <2>3, <2>4, <2>5 DEF ScreenInv
  <1>2. CASE ReadPending
    <2>1. got' = Snapshot(asked, Pending) /\ UNCHANGED <<seat, rows, cursor, waiting>>
      BY <1>2 DEF ReadPending, houseVars
    <2>2. got' \in Seq(Guests) /\ IsInjective(got') /\ Range(got') \subseteq Pending
      BY <2>1, SnapshotProperties DEF ListInv
    <2>3. \A i \in DOMAIN got' : seat'[got'[i]] = "waiting"
      BY <2>1, <2>2 DEF Range, Pending
    <2>4. QED
      BY <2>1, <2>2, <2>3 DEF ScreenInv, RowsAreDistinct, CursorOnRow, ShownPending
  <1>3. CASE MoveCursor
    <2>1. Same /\ ui' = "readPending"
      BY <1>3 DEF MoveCursor, Refresh
    <2>2. cursor' \in Nat /\ CursorOnRow'
      BY <1>3, CursorMoves
    <2>3. QED
      BY <2>1, <2>2 DEF ScreenInv, RowsAreDistinct, ShownPending
  <1>4. ASSUME Same, cursor' = cursor, ui' # "readActive" PROVE ScreenInv'
    BY <1>4 DEF ScreenInv, RowsAreDistinct, CursorOnRow, ShownPending
  <1>5. ASSUME Same, cursor' = cursor, ui' = ui, ~AcceptSelected, ~PressDecline PROVE ScreenInv'
    <2>1. \A g \in Guests : seat[g] \in {"waiting", "gone"} => seat'[g] \in {"waiting", "gone"}
      BY <1>5, OtherSeats
    <2>2. QED
      BY <1>5, <2>1 DEF ScreenInv, RowsAreDistinct, CursorOnRow, ShownPending
  <1>6. CASE AcceptSelected \/ PressDecline
    BY <1>4, <1>6 DEF AcceptSelected, PressDecline, Refresh
  <1>7. CASE UpdateOnRefresh \/ PressAccept \/ PressOther
    BY <1>4, <1>7 DEF UpdateOnRefresh, PressAccept, PressOther, Refresh
  <1>8. ASSUME ~AcceptSelected, ~PressDecline, UNCHANGED modelVars PROVE ScreenInv'
    BY <1>5, <1>8 DEF modelVars
  <1>9. CASE PressQuit \/ AnswerPrompt
    <2>1. Same /\ cursor' = cursor /\ ui = "idle" /\ ui' = ui
      BY <1>9 DEF PressQuit, AnswerPrompt, KeyRead, Idle
    <2>2. QED
      BY <1>4, <2>1
  <1>10. CASE PressCtrlC \/ ProgramReturns \/ CallQuit \/ StopSendsQuit \/ StopReturns
    BY <1>6, <1>8, <1>10 DEF PressCtrlC, ProgramReturns, CallQuit, StopSendsQuit, StopReturns
  <1>11. CASE OwnerMoves \/ SignalComes \/ WaitEnds \/ \E g \in Guests : GuestMoves(g)
    BY <1>6, <1>8, <1>11 DEF OwnerMoves, SignalComes, WaitEnds, GuestMoves
  <1>12. CASE UNCHANGED vars
    BY <1>6, <1>8, <1>12 DEF vars
  <1>13. QED
    BY <1>1, <1>2, <1>3, <1>6, <1>7, <1>9, <1>10, <1>11, <1>12 DEF Next, Press, UpdateGoesOn

\* A refresh ends by ReadActive and by nothing else.
LEMMA ReadActiveEndsRefresh ==
    ASSUME [Next]_vars, ui = "readActive", ui' = "idle"
    PROVE  ReadActive
  <1> USE DEF modelVars
  <1>1. \A g \in Guests : ~GuestMoves(g)
    BY DEF GuestMoves
  <1>2. ~OwnerMoves /\ ~SignalComes /\ ~WaitEnds
    BY DEF OwnerMoves, SignalComes, WaitEnds
  <1>3. ~UpdateOnRefresh /\ ~Press /\ ~ProgramReturns
    BY DEF UpdateOnRefresh, Press, MoveCursor, PressAccept, PressDecline, PressOther,
           PressQuit, PressCtrlC, AnswerPrompt, ProgramReturns, KeyRead, Idle
  <1>4. ~AcceptSelected /\ ~ReadPending
    BY DEF AcceptSelected, ReadPending
  <1>5. ~CallQuit /\ ~StopSendsQuit /\ ~StopReturns
    BY DEF CallQuit, StopSendsQuit, StopReturns
  <1>6. ui' # ui
    OBVIOUS
  <1>7. QED
    BY <1>1, <1>2, <1>3, <1>4, <1>5, <1>6 DEF Next, UpdateGoesOn, vars

\* The owner sees finitely many requests.
LEMMA ShownIsFinite == ASSUME ScreenInv PROVE IsFiniteSet(ShownPending)
  <1> DEFINE at == {j \in DOMAIN rows : rows[j].pending}
             ids == [i \in at |-> rows[i].id]
  <1>1. IsFiniteSet(at)
    <2>1. Len(rows) \in Nat /\ at \in SUBSET (1..Len(rows))
      BY DEF ScreenInv
    <2>2. IsFiniteSet(1..Len(rows))
      BY <2>1, FS_Interval
    <2>3. QED
      BY <2>1, <2>2, FS_Subset
  <1>2. ids \in Surjection(at, ShownPending)
    BY DEF Surjection, ShownPending
  <1>3. QED
    BY <1>1, <1>2, FS_Surjection

\* Each step keeps the rest of the state well typed.
LEMMA StepFlags == SeatInv /\ FlagInv /\ [Next]_vars => FlagInv'
  <1> SUFFICES ASSUME SeatInv, FlagInv, [Next]_vars PROVE FlagInv'
    OBVIOUS
  <1> USE DEF FlagInv, houseVars, modelVars, endVars
  <1>1. ASSUME NEW g \in Guests, GuestMoves(g) PROVE FlagInv'
    BY <1>1 DEF GuestMoves, House!Ask, House!ComeIn, House!Refuse, House!Forfeit, House!Leave
  <1>2. CASE OwnerMoves \/ SignalComes \/ WaitEnds
    BY <1>2 DEF OwnerMoves, SignalComes, WaitEnds, House!HostArrives, House!HostLeaves,
                House!Close
  <1>3. CASE UpdateOnRefresh \/ MoveCursor \/ PressAccept \/ PressOther
    BY <1>3 DEF UpdateOnRefresh, MoveCursor, PressAccept, PressOther, Refresh
  <1>4. CASE AcceptSelected \/ PressDecline
    <2>1. ASSUME NEW d \in {"accept", "decline"}, Deliver(d) PROVE UNCHANGED <<host, closing, name>>
      BY <2>1 DEF Deliver, Resolve, House!Approve, House!Refuse
    <2>2. QED
      BY <1>4, <2>1 DEF AcceptSelected, PressDecline, Refresh
  <1>5. CASE PressQuit \/ PressCtrlC \/ AnswerPrompt
    BY <1>5 DEF PressQuit, PressCtrlC, AnswerPrompt
  <1>6. CASE ReadPending \/ ReadActive
    BY <1>6 DEF ReadPending, ReadActive
  <1>7. CASE ProgramReturns \/ CallQuit \/ StopSendsQuit \/ StopReturns
    BY <1>7 DEF ProgramReturns, CallQuit, StopSendsQuit, StopReturns, House!Close
  <1>8. CASE UNCHANGED vars
    BY <1>8 DEF vars
  <1>9. QED
    BY <1>1, <1>2, <1>3, <1>4, <1>5, <1>6, <1>7, <1>8 DEF Next, Press, UpdateGoesOn

-----------------------------------------------------------------------------
\* The strengthened invariant holds throughout.
THEOREM Invariance == Spec => []CInv
  <1>1. Init => CInv
    <2> SUFFICES ASSUME Init PROVE CInv
      OBVIOUS
    <2> USE DEF Init, House!Init
    <2>1. UpdateInv /\ WaitInv /\ SeatInv
      BY DEF UpdateInv, WaitInv, SeatInv, House!Seats
    <2>2. ListInv
      BY DEF ListInv, IsInjective, Pending, Active
    <2>3. ScreenInv
      <3>1. ShownPending = {}
        BY DEF ShownPending
      <3>2. QED
        BY <3>1, FS_EmptySet DEF ScreenInv, IsInjective, RowsAreDistinct, CursorOnRow
    <2>4. FlagInv
      BY DEF FlagInv
    <2>5. QED
      BY <2>1, <2>2, <2>3, <2>4 DEF CInv
  <1>2. CInv /\ [Next]_vars => CInv'
    BY StepUpdate, StepWait, StepSeats, StepLists, StepScreen, StepFlags DEF CInv
  <1>3. QED
    BY <1>1, <1>2, PTL DEF Spec

\* The control plane's state is well typed.
THEOREM TypeCorrect == Spec => []TypeOK
  <1>1. CInv => TypeOK
    BY DEF CInv, UpdateInv, WaitInv, SeatInv, ListInv, ScreenInv, FlagInv, TypeOK
  <1>2. QED
    BY <1>1, Invariance, PTL

\* The cursor is on a row whenever there is one.
THEOREM CursorStaysOnRow == Spec => []CursorOnRow
  <1>1. CInv => CursorOnRow
    BY DEF CInv, ScreenInv
  <1>2. QED
    BY <1>1, Invariance, PTL

\* The owner never sees one guest twice.
THEOREM NobodyTwice == Spec => []RowsAreDistinct
  <1>1. CInv => RowsAreDistinct
    BY DEF CInv, ScreenInv
  <1>2. QED
    BY <1>1, Invariance, PTL

\* Keys, ticks and quits in any order neither multiply the waits for an event nor end
\* them.
THEOREM WaitsAreOne == Spec => []OneWait
  <1>1. CInv => OneWait
    BY DEF CInv, UpdateInv, WaitInv, OneWait
  <1>2. QED
    BY <1>1, Invariance, PTL

\* A key decides the request under the cursor and no other, and an accept finds the
\* owner in the session.
THEOREM KeysDecide == Spec => KeysDecideWhatIsShown
  <1> DEFINE Decided(g) ==
        /\ seat[g] = "waiting" /\ seat'[g] = "approved" => host
        /\ seat[g] = "waiting" /\ seat'[g] # "waiting"
              /\ (seat'[g] = "approved" \/ trigger # trigger')
              => \E r \in Selected : r.pending /\ r.id = g
  <1>1. CInv /\ [Next]_vars => [\A g \in Guests : Decided(g)]_vars
    <2> SUFFICES ASSUME CInv, [Next]_vars, NEW g \in Guests PROVE Decided(g)
      OBVIOUS
    <2> USE DEF CInv
    <2>1. CASE AcceptSelected
      <3>1. Deliver("accept")
        BY <2>1 DEF AcceptSelected
      <3>2. QED
        BY <3>1, DeliverSeats DEF SeatInv
    <2>2. CASE PressDecline
      <3>1. Deliver("decline")
        BY <2>2 DEF PressDecline
      <3>2. QED
        BY <3>1, DeliverSeats DEF SeatInv
    <2>3. CASE ~AcceptSelected /\ ~PressDecline
      BY <2>3, OtherSeats DEF SeatInv
    <2>4. QED
      BY <2>1, <2>2, <2>3
  <1>2. QED
    BY <1>1, Invariance, PTL DEF Spec, KeysDecideWhatIsShown

\* The bell tells of somebody new, and a tick that brings somebody new onto the screen
\* is silent only when another request has gone.
THEOREM BellTells == Spec => BellTellsOfNewRequests
  <1> DEFINE Told == ui = "readActive" /\ ui' = "idle" =>
                /\ bell' => ~(ShownPending' \subseteq ShownPending)
                /\ trigger = "tick" /\ ~(ShownPending' \subseteq ShownPending) /\ ~bell'
                      => ~(ShownPending \subseteq ShownPending')
  <1>1. CInv /\ [Next]_vars => [Told]_vars
    <2> SUFFICES ASSUME CInv, [Next]_vars, ui = "readActive", ui' = "idle" PROVE Told
      BY DEF UpdateInv
    <2>1. ReadActive
      BY ReadActiveEndsRefresh DEF CInv
    <2>2. ShownPending' = Range(got)
      BY <2>1, NewRows DEF CInv
    <2>3. bell' = (trigger = "tick" /\ Len(got) > waiting)
      BY <2>1 DEF ReadActive
    <2>4. /\ IsFiniteSet(ShownPending') /\ Cardinality(ShownPending') = Len(got)
          /\ Len(got) \in Nat
      BY <2>2, RangeCardinality DEF CInv, ScreenInv
    <2>5. /\ IsFiniteSet(ShownPending) /\ Cardinality(ShownPending) = waiting
          /\ waiting \in Nat
      BY ShownIsFinite DEF CInv, ScreenInv
    <2>6. ShownPending' \subseteq ShownPending => Len(got) <= waiting
      BY <2>4, <2>5, FS_Subset
    <2>7. ShownPending \subseteq ShownPending' /\ ~(ShownPending' \subseteq ShownPending)
             => waiting < Len(got)
      <3>1. ShownPending \subseteq ShownPending' => waiting <= Len(got)
        BY <2>4, <2>5, FS_Subset
      <3>2. ShownPending \subseteq ShownPending' /\ waiting = Len(got) => ShownPending' = ShownPending
        BY <2>4, <2>5, FS_Subset
      <3>3. QED
        BY <2>4, <2>5, <3>1, <3>2
    <2>8. bell' => ~(ShownPending' \subseteq ShownPending)
      <3>1. bell' => Len(got) > waiting
        BY <2>3
      <3>2. QED
        BY <2>4, <2>5, <2>6, <3>1
    <2>9. trigger = "tick" /\ ~(ShownPending' \subseteq ShownPending) /\ ~bell'
             => ~(ShownPending \subseteq ShownPending')
      <3>1. trigger = "tick" /\ ~bell' => ~(Len(got) > waiting)
        BY <2>3
      <3>2. QED
        BY <2>4, <2>5, <2>7, <3>1
    <2>10. QED
      BY <2>8, <2>9
  <1>2. QED
    BY <1>1, Invariance, PTL DEF Spec, BellTellsOfNewRequests

\* What the owner decides and what becomes of the guests is what the house promises.
THEOREM ControlPlaneKeepsHouse == Spec => House!Spec
  <1>1. Init => House!Init
    BY DEF Init
  <1>2. [Next]_vars => [House!Next]_<<host, closing, seat, name>>
    <2> SUFFICES ASSUME [Next]_vars PROVE House!Next \/ UNCHANGED houseVars
      BY DEF houseVars
    <2>1. ASSUME NEW g \in Guests, GuestMoves(g) PROVE House!Next
      BY <2>1 DEF GuestMoves, House!Next
    <2>2. CASE OwnerMoves \/ SignalComes \/ CallQuit
      BY <2>2 DEF OwnerMoves, SignalComes, CallQuit, House!Next
    <2>3. CASE WaitEnds \/ UpdateOnRefresh \/ MoveCursor \/ PressAccept \/ PressOther
      BY <2>3 DEF WaitEnds, UpdateOnRefresh, MoveCursor, PressAccept, PressOther
    <2>4. CASE AcceptSelected \/ PressDecline
      <3>1. ASSUME NEW r \in Selected, NEW d \in {"accept", "decline"},
                   Resolvable(r.id, d), Resolve(r.id, d)
            PROVE  House!Next
        BY <3>1 DEF Resolvable, Resolve, Pending, House!Next
      <3>2. ASSUME NEW d \in {"accept", "decline"}, Deliver(d)
            PROVE  House!Next \/ UNCHANGED houseVars
        BY <3>1, <3>2 DEF Deliver
      <3>3. QED
        BY <2>4, <3>2 DEF AcceptSelected, PressDecline
    <2>5. CASE PressQuit \/ PressCtrlC \/ AnswerPrompt \/ ReadPending \/ ReadActive
      BY <2>5 DEF PressQuit, PressCtrlC, AnswerPrompt, ReadPending, ReadActive
    <2>6. CASE ProgramReturns \/ StopSendsQuit \/ StopReturns \/ UNCHANGED vars
      BY <2>6 DEF ProgramReturns, StopSendsQuit, StopReturns, vars
    <2>7. QED
      BY <2>1, <2>2, <2>3, <2>4, <2>5, <2>6 DEF Next, Press, UpdateGoesOn
  <1>3. QED
    BY <1>1, <1>2, PTL DEF Spec, House!Spec
=============================================================================
