# Verification of social-security (`sssh`)

TLA+ models of `sssh`, the program that shares one sandboxed tmux session between an
owner and the guests the owner lets in, with TLC configurations that check them and
TLAPS proofs that lift the safety results to every instance. Paths below are those of the repository.

## The system

`sssh` is one Go process on the owner's host and one helper binary inside a QEMU
sandbox.

| part | code | state it keeps | operations | talks to |
| --- | --- | --- | --- | --- |
| session registry | `internal/registry` | claimed usernames, pending requests, active sessions with kick callbacks, owner flag, one-token events channel | AddPending, Resolve, CancelPending, Activate, RemoveActive, Kick, ClaimOwner, ReleaseOwner, snapshots | called by everything below |
| front door | `internal/frontdoor` | an ssh server over a LAN and a tunnel listener; one goroutine per session, and a second that pumps a guest's input | owner and guest handlers, join ceremony, the wait for a decision | registry, VM target, bridge, `endSession` |
| control plane | `internal/control` | rows, cursor, bell count, quit confirmation | accept, decline, kick, quit; refresh on an event or once a second | registry, `quit` |
| co-author writer | `internal/coauthor/writer.go` | the connected file in the VM share | rewrite on each event | registry events, VM share |
| co-author algorithms | `internal/coauthor/coauthor.go` | the identity store | Order, Render, Learn, Load, Save | commit helper |
| commit helper | `cmd/sssh/commit.go` | none of its own: two processes per commit | `prepare`, `record` | connected file, identity store, git |
| lifecycle | `cmd/sssh/main.go`, `internal/lifecycle` | the managers that started, the root context | start in order, stop in reverse | every manager |
| VM | `internal/vm` | QEMU, runtime directory, port and key | Start in stages, Stop, Target | writer, front door |
| tunnel | `internal/tunnel` | ngrok agent and endpoint | Start, Stop | front door's guest listener |
| bridge | `internal/bridge` | one ssh connection to the sandbox per session | Run | front door, VM |
| sandbox image | `sandbox/*.nix`, `embed.go` | declarative | none | VM |

What is hard here, and so what the models are about:

- A guest's handler waits in a `select` for a decision, a Ctrl+C, a timer or the end of
  its connection, while the owner decides from another goroutine and the registry must
  free the username once. Handlers outlive the server's `Close`.
- The owner's departure releases the slot and only then ends the session.
- Registry calls notify after the unlock, through a channel that holds one token and
  has two receivers.
- The helper's two processes agree on who a line belongs to by position alone, and
  recompute the positions from live state.
- A boot may fail, and a signal may come, at any step of any manager's Start.
- The owner's screen shows rows that may be gone when a key decides about them.
- Bridged handlers run on while the VM below them is taken apart, and wait for a sandbox
  or a client that may have stopped.

`PROJECT.json` lists every hazard at its line, with the properties that cover it.

## Modules

| module | models | checked by |
| --- | --- | --- |
| `Registry` | the registry's methods as operators over its state | `FrontDoor`, `Watchers` |
| `FrontDoor` | the handlers, pumps, control-plane decisions, clients and teardown over `Registry` | `MCFrontDoor` |
| `Admission` | what the two promise, without goroutines or locks | implemented by `FrontDoor`, used by `ControlPlane` |
| `Watchers` | the co-author writer over `Registry`, with a rival for its events | itself |
| `ControlPlane` | the owner's Bubble Tea program over `Admission` | itself |
| `CoAuthors` | Order, Render, Learn and the template split as operators | `CommitHelper` |
| `Subsequences` | filtering a list, as the loops of `coauthor.go` and the registry's snapshots do | `ControlPlane`, `CoAuthors` |
| `CommitHelper` | the hook processes over `CoAuthors` | `MCCommitHelper` |
| `Lifecycle` | `run`, `startManagers`, `teardown`, and the VM's Start and teardown | itself, and through `Sessions` |
| `Sessions` | bridged connections, `bridge.Run` and its helpers over `Lifecycle` | itself |
| `FrontDoorProofs`, `FrontDoorRefinement`, `WatchersProofs`, `ControlPlaneProofs`, `SubsequencesProofs`, `CommitHelperProofs`, `LifecycleProofs`, `SessionsProofs` | theorems | `tlapm` |

Operators commented as a *variant for mutation* are no part of the specifications: each
is a mapped definition with one plausible mistake. Putting it in place of the
definition it precedes makes TLC find a named property violated, which shows that the
property depends on that code. `PROJECT.json` pairs them.

### Registry and FrontDoor

A registry method is its critical section followed by a non-blocking send. It is
modelled in two steps: the operator of its name, which is the critical section and adds
the goroutine to `signals`, and `Notify`, which every goroutine must do before it goes
on (`Goto` and `ConsoleReady` ask for it). A request, the session it becomes and its
kick callback are indexed by the connection, because a handler registers at most one
request and identifiers are never used twice. `Resolve` sends the decision with the lock
held; its conjunct `decision[c] = NoDecision` is that send, and `ResolveNeverBlocks`
says that it is never what keeps `Resolve` from going on.

In `FrontDoor`, `pc[c]` is the handler's place in `joinMiddleware`, `serveOwner` or
`serveGuest`; each action goes from one point where other goroutines can intervene to
the next. The four cases of the `select` are the actions of `Select`. `pump`, `waiting`
and `interrupt` are `pumpInput` and what it shares with the handler; its load of the flag
and its send on the channel are one step, since nobody reads the channel after the
select. `link` is the ssh session as the server sees it: `closed` after a kick has closed
the channel, `gone` when the connection's context is done. `stage` follows the teardown.
The write of the waiting line (`frontdoor.go:310`), between the registration and the
`select`, is taken to return: a client that lets its window fill up keeps its handler, and
its row, until the connection ends. A kick closes the guest's channel and no more, so
nothing makes the bridge or the client end after it.
The control plane may decide any pending request and kick any active session: what the
owner's screen shows at that moment is `ControlPlane`'s subject, and keys that find nothing
to do change nothing.

Left out: SSN, address, timestamps, messages, the username prompt's repetitions (a taken
name leaves the state as it is), what is typed or copied through a bridge.

### Admission

A guest asks under a name nobody bears, a host who is present approves, the guest comes
in or forfeits, and leaves; a host who leaves closes the session. `FrontDoor!Seat` maps a
connection to its seat. The `forfeited` seat is the code's behaviour made explicit: a
guest whose accept raced its departure keeps its name claimed.

### Watchers

Connections are the environment, calling the registry in the order `FrontDoor` shows;
the owner is present throughout. The writer's loop is wake, read the usernames, rename
the file into place; a write may fail. The control plane is here only as a rival:
`armed` says that its `waitForEvent` is receiving from the same channel. `missed` is a
history variable: the last wake-up went to the rival, or the last write failed. `life`
follows Stop, which closes the stop channel and waits for the loop, and the VM's teardown,
which removes the share. `StaleFileMeansWakeUp` says when the file may differ from the
active set at all; `GuestsAreListed`, which the code does not give, is what one would
want to follow from it.

### ControlPlane

`Update` is one goroutine, so a key's handler is interrupted by nobody's key, but between
two of its calls on the registry (OwnerPresent, Resolve, Pending, Active) the handlers of
the front door go on. These are represented by `Admission`, which `FrontDoor` is proved
to implement: `Pending` and `Active` are the guests whose seats are `waiting` and `in`,
ordered by the time they asked and came in. `ui` is where `Update` is, `trigger` what it
answers: the first population of the rows, a refresh message (`tick`) or a key. `waiters`
and `refreshes` count the goroutines in `waitForEvent` and the messages they have sent.
`prevWaiting` and `waiting` always agree and are one variable. A guest's name is its
own; names are shown and not acted upon. A kick is a key that refreshes: it closes the
guest's channel, and a guest may leave at any time. The refresh that follows a key
drops its bell, as the code does: a request first shown by it never rings, which
`new_requests_ring` holds against `DESIGN.md`. `BellTellsOfNewRequests` is what is left of
the promise: the bell rings for nobody who was on the screen, and a tick is silent about a
new request only when another has gone. The program may also return because the
terminal fails. `quit` is the root context's cancel; Stop sends the quit message and waits
for `done`.

### CoAuthors and CommitHelper

A message is a sequence of lines; a git name and an address are represented by the user
whose they are, so that a credit shows whose identity it carries. A user fills in the
address on the line that bears its own name, which is what the ceremony asks of it.
`os.WriteFile` is two steps, the truncation and the write, so that overlapping hooks
see each other's, and a hook that is killed or whose write fails in between leaves what it
had written (`SaveFails`). The write overwrites bytes and not lines: beyond its end, and at
the point where it broke off, a line may be cut anywhere, and `Load` takes the rest of it
for a user with whatever fields are left. `CutLines` are the entries that such a rest can
read as: a name that is nobody's or somebody's, with a name and an address that are
nobody's. Spelling being abstracted, which of two stores is the longer is left open, unless
one continues the other.

`remembered` and `disturbances` are history variables: the usernames of the last complete
store, and whether users came or went, a credit was struck out, commits overlapped, or a
save broke off. Each property says which disturbances it excludes; `Intact` excludes the
last two. The code has no defence against these: it takes no lock, and it replaces the
store in place. After a save that broke off the store may be empty, and the next commit
orders everybody anew, so `PositionsKept` is stated of intact histories, and so is the part
of `PreparedMessage` that counts credits, since a torn store may hold a user twice.

### Subsequences

`Pick(s, S)` is what a loop that copies some elements of a list builds: the elements of `s`
at the positions in `S`, the kth being at the position that has k positions of `S` up to
it. It has the values of `SelectSeq` with the test in place of the set, but no recursion,
and so can be reasoned about. `Learn` is written in the same way: each entry of the store
takes its values from the last line that is its own, in place of a pass over the lines.

### Lifecycle

`at` walks over the managers in the order of `main.go`, up and then down from the last
one that started. `live` is what the process holds, `vm` how far the VM manager has come
and `target` which of the two fields that Target reads are set. The VM's Start has a
step for each thing that it acquires or that may fail: the flake's copy, the build and
the runtime directory, the keys, the share and the port, QEMU, the wait for the guest's
sshd. Its deferred teardown and its Stop are the same steps: QEMU is ended, the directory
removed, the port cleared, then the signer. A port that another process has taken in
the meantime shows as QEMU's exit. Two things may outlive the process: a QEMU that was sent
SIGKILL and is still dying (`dyingQemu`), for which nobody waits, and what `os.RemoveAll`
could not remove of the runtime directory (`leftovers`), because its error is dropped and
the manager forgets the directory. The removal of the flake's copy, which nobody else uses,
is taken to succeed. `Wedge` is a Stop that waits for something that does
not come; `MayWedge` names the managers whose Stop waits. Neither the wait's context nor
its deadline (`Expire`) ends it, which is what `teardown_is_bounded` shows.

### Sessions

`Sessions` composes `Lifecycle` with the last part of every handler: Target, `bridge.Run`
and its return. `run[c]` is the handler's place from Target's check through its two reads
(`CopyPort`, `CopySigner`), the dial, the handshake, the session, the start of the remote
command, Wait, and the wait for the copiers; `helpers` are Run's two goroutines, `pump` is
`pumpInput`, and `output` and `feeder` are the ssh library's copiers, external and modelled
from what Run hands to them. The front door's Stop closes every connection and waits for
no handler (`HostNext`), so that handlers run on while the VM is taken apart. A client may
hang up, be kicked, or stop reading for a while or for ever; the sandbox may hang, or
close the session; QEMU may die. The owner's return cancels the root context
(`HandlerReturns`), which begins the teardown.

A QEMU that was sent SIGKILL runs no more, but until it is dead its sockets take a
connection, so a dial may succeed and then hang (`Answers`, `Gone`): `BridgedWithWholeTarget`
is about handshakes that a running QEMU can answer.

Two exceptions are stated in the properties, because the code makes them: Run waits for a
sandbox that accepts a connection and never answers (`dialTimeout` bounds only the TCP
connect, and neither the handshake nor the requests look at a context) and for a client
that does not read. `InputIsTaken` is about a bridge that is attached. A chunk that the
pump reads before the attach or after a dial that failed is written to a pipe that nobody
reads or closes, and that pump never returns, although `frontdoor.go:358` says that it does
when the guest's input closes; it holds a goroutine and harms nobody else.

## Runs

| run | instance | shows |
| --- | --- | --- |
| `front_door_safety` | 2 LAN connections, 1 of the tunnel, 2 names; symmetry, view | the safety invariants below and the refinement of `Admission`, with teardown at any point (152,064 states) |
| `front_door_live` | 1 LAN, 1 tunnel, 1 name | requests are settled, the owner's leaving ends the process, and a bridged guest is heard unless its Ctrl+C raced the accept (26,810 states) |
| `watchers_file` | 2 guests, 2 names, failing writes | a stale file has a wake-up on its way or lost one, the writer catches up with each one it gets and can be stopped, and does not write after the share is removed (176,531 states) |
| `control_plane_keys` | 2 guests | the cursor is on a row, no guest is shown twice, one event wait is under way, the bell, keys decide what is shown, requests come onto the screen, and every end of the program ends the session (92,972 states) |
| `commit_helper_safety` | 3 users, 2 commits; symmetry, at most one kind of disturbance | what is learned is the user's own, positions are kept, the message is prepared right, each as far as the disturbances allow (1,660,689 states) |
| `sessions_end` | all managers, of which the control plane may wedge; one connection, the owner's or a guest's | nothing is left at exit, nothing runs without what it depends on, a signal ends the process unless a Stop wedges, a bridge has its whole target, ends with its connection and with QEMU, leaves no helper and takes the guest's input, and the owner's leaving ends the process (97,780 states) |

Six runs check a statement of the repository's and find it does not hold:

- `names_freed`: `registry.go:107` says that a claimed name belongs to a request or a
  session. An accept that races the guest's departure leaves it claimed by neither, for
  the rest of the session.
- `kicked_session_ends`: `bridge.go:109-110` and `DESIGN.md:284-285` say that a kick
  cancels the connection, so that the bridge cannot block on a dead client. The callback is
  `s.Close()`, which closes the channel; the goroutine that would end the bridge waits for
  the context of a connection that the client may keep, and the session stays active.
- `guests_are_listed`: `writer.go:25-26` and `registry.go:99-100` say that every change
  gets into the file and that a receiver that misses a signal catches up. The control
  plane may take the one token, and the writer has no timer.
- `prepare_and_record_agree`: `coauthor.go:101-103` says that prepare and record agree on
  the order. They do not when a user leaves or comes in between.
- `new_requests_ring`: `DESIGN.md:233-234` and `control_test.go:178` say that a request
  that arrives rings the bell. The refresh after a key shows it and drops the bell, and the
  next tick finds nothing new.
- `teardown_is_bounded`: `main.go:25-26` says that the timeout bounds teardown. No Stop
  looks at the context.

Two more disagreements with comments of the code have no run of their own, because the
properties that run into them name them as exceptions: the guest whose Ctrl+C raced the
accept and who is then in the session without input (`AdmittedGuestHasInput`, against
`frontdoor.go:302-303`), and the pump that never returns (`InputIsTaken`, above).

**Why the bounds are enough.** Two connections are needed for two handlers to contend
for one name or for the owner slot, a third for a guest next to two would-be owners; one
name makes contention certain and two tell a freed name from another's. Every registry
operation touches one connection and one name, and the proofs lift these bounds for the
safety invariants. In `commit_helper_safety`, three users give a store in which the ones
credited are neither the first nor contiguous, and two commits give one that learns and
one that reads what was learned. Each commit runs its hooks once, each connection
one session: a handler keeps nothing between sessions. Two guests in
`control_plane_keys` give rows of both kinds, rows that move under the cursor and a
request that takes the place of another. In `sessions_end` one connection stands for any:
connections have no state in common there but the root context, which `Cancel` may end at
any moment, and the theorems hold for any number of them. The control plane is the only
manager that may wedge in this run, because it comes first in the teardown, so that
everything below is held; the theorems hold for every `MayWedge`, and
`teardown_is_bounded` has a wedge of its own. `OneKindOfDisturbance` bounds
`commit_helper_safety` to histories with one kind of disturbance; the properties
distinguish kinds and hold under unions only when stated so.

**Symmetry and view.** Connections of one listener, names, users and commits are
interchangeable; runs of liveness properties use no symmetry. `SafetyView` drops the
events token, which no handler reads, and, except before and at the `select`, the
connection's `link`, `pump`, `waiting` and `interrupt`: no safety property mentions them
and no action that changes the rest of the state reads them anywhere else, so two states
with one view have the same futures under it.

**Deadlock** is not checked: every model stops when its session or its commits have ended.

## Fairness

`FrontDoor!Fairness`: a goroutine that can run does; the `select` has a timer, so it
leaves eventually; a bridge ends once its connection's context is done or the sandbox is
gone (`Sessions` has the cases); and the teardown's Stops return (`Lifecycle` has the one
that does not). It is strong for `StopControl`: the quit message is taken in its turn, as
in `ControlPlane`, although the owner may go on pressing keys. Nothing makes a guest type, an owner decide or a client leave, one whose
channel a kick has closed included.

`Watchers!Fairness`: the same for its goroutines. It is strong for the writer's receive,
which the rival can disable again and again: Go serves waiting receivers in the order in
which they came. It is strong for `WriterPublishes` too, a write that is tried again and
again succeeds at last, and for `WriterReturns`, because a `select` with two ready cases
picks either with equal probability. The rival may stop for ever.

`ControlPlane!Fairness`: messages are taken from one queue in the order in which they
come, so a refresh and the quit message are taken although keys are pressed in between
(strong fairness for the two); `waitForEvent` ends by itself after a second; the goroutine
of Start and the teardown's Stop go on. The owner need not press anything, and the owner
and guests need not move.

`Lifecycle!FairSpec`: main's goroutine goes on, since each Start is bounded by a timeout
or the context. `Sessions!FairSessionsSpec`: the same, and each handler, copier and helper
that can go on does; a sandbox that has not hung answers a request and a close, and a
connection to a QEMU that is dead breaks. Nothing
makes tmux end by itself, a client hang up, read or type.

## Proofs

`FrontDoorProofs` proves, for every `Conns`, `Lan`, `Names`, and from
`RegistryAssumption` and `FrontDoorAssumption` alone:

| theorem | property |
| --- | --- |
| `TypeCorrect` | `TypeOK` |
| `Invariance` | `IInv`, the conjunction of all that follow |
| `UsernamesAreUnique` | `UniqueUsernames` |
| `ResolveCannotBlock` | `ResolveNeverBlocks` |
| `NoRequestIsOrphaned` | `NoOrphanRequest` |
| `RegistryMirrorsHandlers` | `ActiveMeansServed` |
| `OneOwner` | `OwnerSlot` |
| `NoGuestsWithoutOwner` | `OwnerGoneMeansEnding` |
| `AdmittedGuestIsHeard` | `AdmittedGuestHasInput` |

`FrontDoorRefinement`, from the same assumptions, and the other proof modules, each
from the assumptions that its module states:

| module | theorem | property |
| --- | --- | --- |
| `FrontDoorRefinement` | `FrontDoorImplementsAdmission` | `ImplementsAdmission` |
| `WatchersProofs` | `TypeCorrect` | `TypeOK` |
| | `NoChangeSlips` | `StaleFileMeansWakeUp` |
| | `WriterGoesFirst` | `NoWriteAfterRemoval` |
| `ControlPlaneProofs` | `Invariance` | `CInv`, the conjunction that the others rest on |
| | `TypeCorrect` | `TypeOK` |
| | `CursorStaysOnRow` | `CursorOnRow` |
| | `NobodyTwice` | `RowsAreDistinct` |
| | `WaitsAreOne` | `OneWait` |
| | `KeysDecide` | `KeysDecideWhatIsShown` |
| | `BellTells` | `BellTellsOfNewRequests` |
| | `ControlPlaneKeepsHouse` | `Spec` implies the `Spec` of `Admission` |
| `SubsequencesProofs` | `PickProperties`, `AmongProperties` | what `Pick` and `Among` return, for every list |
| `CommitHelperProofs` | `Invariance` | `HInv`, the conjunction that the others rest on |
| | `TypeCorrect` | `TypeOK` |
| | `IdentitiesAreOwn` | `LearnedIsOwn` |
| | `LinesKeepPositions` | `PositionsKept` |
| | `MessageIsPrepared` | `PreparedMessage` |
| | `RenderIsIdempotent` | rendering again changes nothing (`coauthor.go:139-142`) |
| | `LearningReadsBack` | learning from an unedited message changes nothing |
| `LifecycleProofs` | `TypeCorrect` | `TypeOK` |
| | `NothingIsLeft` | `NothingLeftBehind` |
| | `DependenciesAreUp` | `RunsOverItsDependencies` |
| `SessionsProofs` | `SessionsKeepLifecycle` | `SessionsSpec => Spec` of `Lifecycle` |
| | `SessionsTypeCorrect` | `SessionsTypeOK` |
| | `BridgesHaveTheTarget` | `BridgedWithWholeTarget` |

### FrontDoor

The invariants are inductive together and not one by one. That freeing a name frees
nobody else's needs that it is borne once (`UniqueUsernames`); that a cancel does not
free a name still borne needs to know that the request is pending only while no decision
is in its channel and its handler has not left the select (`ResolveNeverBlocks`,
`NoOrphanRequest`); that a session's end frees it needs that it is active only between
Activate and RemoveActive (`ActiveMeansServed`); and `OwnerGoneMeansEnding` needs that an
accept happens only with a handler in `serveOwner` (`OwnerSlot`). `StepTyped`, `StepLocal`,
`StepUnique` and `StepOwner` are four parts of the inductive step; each has a case per
action. `StepInput` is a fifth, for `InputFlows`: from the start of the wait on the pump
reads unless its guest is gone or has interrupted it. `StepUnique` singles out the five
actions that change a name or who bears it, and shows for all others that the bearers stay
the same.

The refinement rests on `IInv` and on one more invariant, `Registered`: a connection
bears a name only from AddPending on. `SeatsFollow` turns what the invariants say of
where a handler is into its seat, and there is one lemma for each group of actions: an
action either moves one seat as a step of `Admission` does, or moves the host or the
closing flag, or is a stutter. `CASE` in `Seat` chooses freely among guards that hold
together, so the proof also shows that they exclude one another wherever it matters.

### Watchers

A write in progress must be watched as well as a finished one. `FileInv` says that the
file, or the list about to become the file, is the active set's unless a wake-up is due,
which needs that names of active sessions no longer change (`PlaceInv`: an active session
is inside and has had its name since it asked). `ChangesAreSignalled` shows once that
whoever changes the active set has a signal to send; the other steps move that signal
along.

### ControlPlane

`UpdateInv` ties what `Update` answers to where it is, so that `WaitInv` can count: while a
tick is being answered there is no other wait, and while a key is or nothing there is
exactly one. For the keys, `DeliverSeats` says what a decision does to the seats and
`OtherSeats` that no other step approves anybody or removes a request in answer to a key.

The rows are snapshots of lists that go on changing. `ListInv` says that each list has its
guests once and has every guest that is pending, or active. `ScreenInv` is about what is
shown: rows are distinct, the cursor is on one, and `waiting` is the number of pending
rows. The delicate moment is between the two reads of a refresh. A guest in `got`, the
pending ones just read, may be accepted and come in before the active ones are read, and
would be shown in both parts; but its handler has to come in after the accept, which only
a key of the same goroutine gives. So while `Update` is between the reads, a guest of
`got` is still waiting or gone (part of `ScreenInv`), and the two parts are disjoint
(`NewRows`). For the
bell, `waiting` is the size of the set of guests that are shown as pending, so that the
comparison of numbers that the code makes is one of sets (`BellTells`).

### CoAuthors and CommitHelper

`SubsequencesProofs` shows that rank and position are inverse to each other and that
picking keeps order, and derives what a picked list has in common with the list it is
from. `RememberedNames` and `OrderProperties` say whom Order remembers and credits. A
message is cut where its first comment is (`Cut`); `BodyOfJoin` and `CreditsOfJoin` say
that a message put together from other lines, credits and block is taken apart into the
same. `RenderProperties` and `LearnProperties` follow, and from them what the two do one
after the other: `RenderFits`, `LearnFits`.

For the hooks, `HInv` has four parts. `Shape` is `TypeOK` without what depends on
`Intact`, and says besides that a credit shows a user's name. `HookInv`: only an edited
message goes to `record`. `SoloInv` is what there is as long as no saves have overlapped
or broken off (`Intact`): one commit is under way at most, its copy continues what is
remembered, each user once, and the store holds that or is, between truncation and write,
empty. Without the last part `PositionsKept` would not follow from an inductive invariant,
because a load would be allowed to see the truncated store; and with a save that breaks
off there it is false, which is why `Intact` excludes it. `Shape` needs none of this: it
holds of every store that overlapping or broken saves can leave, cut lines included
(`PiecesOfStores`). `CalmInv` is about commits that nothing has disturbed: identities are
their users' own, the hook's users are those connected, and from the prepare of a commit
to its record the message `Fits` the store: its credits are, one by one, in the order that
the store gives the connected users. It is this that carries the agreement from one
process to the other, through the save, the edits and the second load. `CalmOfOne` uses
`SoloInv` to reduce each step to the commit that takes it.

### Lifecycle and Sessions

`Up(i)` says that the i-th manager has started and not stopped. `MainInv` ties it to the
stages of the VM, `VMInv` and `HeldInv` say what is held at each stage and by each
manager; what is left at exit and what depends on what are read off them.

`HostStep` shows that a step of a connection is no step of main's, or is the cancellation
that the owner's return is: hence the simulation. For the target the argument is about
order. From the first connection on nothing below the front door is started again
(`Served`, `ServedStays`): the VM only comes apart, QEMU before the port and the port before
the signer. So a field that a handler missed was cleared, QEMU ran no more by then, and the
handshake cannot get through, dead or dying as QEMU may be (`AimInv`, `HandlerMoves`).

### Only model-checked

Liveness under fairness, which is out of the prover's reach: `RequestsAreSettled`,
`OwnerLeavingEndsSession`, `WriterKeepsUp`, `RequestsAreShown`,
`QuitEndsSession`, and of `Sessions` `CancelLeadsToExit`, `BridgeEndsWithConnection`,
`BridgeEndsWithSandbox`, `HelpersEndWithRun`, `InputIsTaken` and
`OwnerLeavingEndsProcess`. Every safety property of the passing runs is proved.

## Not modelled

The sandbox image (declarative). ngrok, QEMU, git, the editor and the ssh clients are the
environment, and so is ngrok's own reconnection. Of the modelled parts:

- `frontdoor.go:191`: a serve goroutine that has not run once before an early Stop sets the
  server handle to nil. It would have to sleep through the whole of the control plane's
  failing Start.
- `vm.go:224`: an ssh server of somebody else's that answers on the reserved port in QEMU's
  place; a port that is taken is QEMU's exit.
- A client that lets the write at `frontdoor.go:310` block, and a flake's copy that cannot
  be removed: both are taken to succeed.
- The control plane's `View`, its labels and its log; the spelling of trailers, of the
  store's lines and of the join prompts; what is typed or copied through a bridge.
- `waitForSSH`'s probes one by one, and the staging of the git identity file by file: each is a step
  that succeeds or fails.

## Plan

What could still be added: two bridged connections in one instance of `Sessions`, which
needs a coarser bridge to stay checkable; a specification of the commit helper as its user
sees it, one memory and no files, for `CommitHelper` to implement while commits do not
overlap; and the front door's two listeners with the tag of tunnel connections, should
they ever be closed separately.
