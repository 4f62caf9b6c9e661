------------------------------ MODULE Registry ------------------------------
(***************************************************************************)
(* The session registry, internal/registry/registry.go: the one store of   *)
(* who is waiting, who is connected and whether the owner is there, guarded *)
(* by one mutex.  Every method is a critical section followed, after the   *)
(* unlock, by a non-blocking send on the events channel, so a method is    *)
(* modelled in two atomic steps: the operator below that is its critical   *)
(* section, which adds the calling goroutine to `signals', and Notify.     *)
(*                                                                         *)
(* A connection's handler registers at most one request, so a request, the *)
(* session it becomes and its kick callback are all indexed by the         *)
(* connection: nextID only ever hands out fresh identifiers.  SSN, remote  *)
(* address and timestamps are data no property tells apart.                *)
(***************************************************************************)
EXTENDS FiniteSets

CONSTANTS
    Conns,      \* ssh sessions, each served by a goroutine of its own
    Names,      \* usernames a guest may type
    NoName,     \* the username of a connection that has registered none
    Console     \* the goroutine of the owner's control plane

ASSUME RegistryAssumption ==
    /\ Console \notin Conns
    /\ NoName \notin Names

VARIABLES
    names,      \* usernames claimed
    pending,    \* requests awaiting a decision
    active,     \* accepted sessions, each with its kick callback
    owner,      \* TRUE once a connection has claimed the owner slot
    decision,   \* content of each request's decision channel, capacity 1
    username,   \* the name each request was registered under
    events,     \* TRUE when the events channel, capacity 1, holds its token
    signals     \* goroutines past their critical section, notify still to do

registryVars ==
    <<names, pending, active, owner, decision, username, events, signals>>

Goroutines == Conns \cup {Console}

Decisions == {"accept", "decline"}
NoDecision == "none"

RegistryTypeOK ==
    /\ names \subseteq Names
    /\ pending \subseteq Conns
    /\ active \subseteq Conns
    /\ owner \in BOOLEAN
    /\ decision \in [Conns -> Decisions \cup {NoDecision}]
    /\ username \in [Conns -> Names \cup {NoName}]
    /\ events \in BOOLEAN
    /\ signals \subseteq Goroutines

RegistryInit(ownerPresent) ==
    /\ names = {}
    /\ pending = {}
    /\ active = {}
    /\ owner = ownerPresent
    /\ decision = [c \in Conns |-> NoDecision]
    /\ username = [c \in Conns |-> NoName]
    /\ events = FALSE
    /\ signals = {}

-----------------------------------------------------------------------------
(* Requests.                                                               *)

\* A free username is claimed and the request filed.  ErrUsernameTaken, the
\* other outcome, changes nothing: the caller asks for another name.
AddPending(c, n) ==
    /\ n \notin names
    /\ names' = names \cup {n}
    /\ pending' = pending \cup {c}
    /\ username' = [username EXCEPT ![c] = n]
    /\ signals' = signals \cup {c}
    /\ UNCHANGED <<active, owner, decision, events>>

\* Variant of Resolve for mutation: the request is not deleted.
ResolveLeavingRequest(g, c, d) ==
    /\ c \in pending
    /\ d = "accept" => owner
    /\ decision[c] = NoDecision
    /\ decision' = [decision EXCEPT ![c] = d]
    /\ signals' = signals \cup {g}
    /\ UNCHANGED <<names, pending, active, owner, username, events>>

\* Variant of Resolve for mutation: an accept does not ask for the owner.
ResolveWithoutOwner(g, c, d) ==
    /\ c \in pending
    /\ decision[c] = NoDecision
    /\ decision' = [decision EXCEPT ![c] = d]
    /\ pending' = pending \ {c}
    /\ names' = IF d = "decline" THEN names \ {username[c]} ELSE names
    /\ signals' = signals \cup {g}
    /\ UNCHANGED <<active, owner, username, events>>

\* The decision is sent under the lock, so the send must find the channel empty:
\* the conjunct on decision[c] is the buffered send, which blocks when it is not.
\* The two error returns (unknown id, accept while the owner is absent) change
\* nothing.
Resolve(g, c, d) ==
    /\ c \in pending
    /\ d = "accept" => owner
    /\ decision[c] = NoDecision
    /\ decision' = [decision EXCEPT ![c] = d]
    /\ pending' = pending \ {c}
    /\ names' = IF d = "decline" THEN names \ {username[c]} ELSE names
    /\ signals' = signals \cup {g}
    /\ UNCHANGED <<active, owner, username, events>>

\* Variant of CancelPending for mutation: the username stays claimed.
CancelPendingKeepingName(c) ==
    /\ pending' = pending \ {c}
    /\ signals' = IF c \in pending THEN signals \cup {c} ELSE signals
    /\ UNCHANGED <<names, active, owner, decision, username, events>>

\* Drops the request if it is still pending, and does nothing otherwise.
CancelPending(c) ==
    /\ pending' = pending \ {c}
    /\ names' = IF c \in pending THEN names \ {username[c]} ELSE names
    /\ signals' = IF c \in pending THEN signals \cup {c} ELSE signals
    /\ UNCHANGED <<active, owner, decision, username, events>>

-----------------------------------------------------------------------------
(* Sessions.                                                               *)

Activate(c) ==
    /\ active' = active \cup {c}
    /\ signals' = signals \cup {c}
    /\ UNCHANGED <<names, pending, owner, decision, username, events>>

\* Variant of RemoveActive for mutation: watchers are not notified.
RemoveActiveSilently(c) ==
    /\ active' = active \ {c}
    /\ names' = IF c \in active THEN names \ {username[c]} ELSE names
    /\ UNCHANGED <<pending, owner, decision, username, events, signals>>

RemoveActive(c) ==
    /\ active' = active \ {c}
    /\ names' = IF c \in active THEN names \ {username[c]} ELSE names
    /\ signals' = IF c \in active THEN signals \cup {c} ELSE signals
    /\ UNCHANGED <<pending, owner, decision, username, events>>

-----------------------------------------------------------------------------
(* The owner slot.                                                         *)

\* Variant of ClaimOwner for mutation: the slot may be taken already.
ClaimOwnerAlways(c) ==
    /\ owner' = TRUE
    /\ signals' = signals \cup {c}
    /\ UNCHANGED <<names, pending, active, decision, username, events>>

ClaimOwner(c) ==
    /\ ~owner
    /\ owner' = TRUE
    /\ signals' = signals \cup {c}
    /\ UNCHANGED <<names, pending, active, decision, username, events>>

ReleaseOwner(c) ==
    /\ owner' = FALSE
    /\ signals' = signals \cup {c}
    /\ UNCHANGED <<names, pending, active, decision, username, events>>

-----------------------------------------------------------------------------
(* The decision channel and the events channel.                            *)

\* The handler of c takes the decision out of its request's channel.
ReceiveDecision(c, d) ==
    /\ decision[c] = d
    /\ decision' = [decision EXCEPT ![c] = NoDecision]
    /\ UNCHANGED <<names, pending, active, owner, username, events, signals>>

\* A send that finds the token already there is dropped.
Notify(g) ==
    /\ g \in signals
    /\ events' = TRUE
    /\ signals' = signals \ {g}
    /\ UNCHANGED <<names, pending, active, owner, decision, username>>

\* Whoever selects on Events() takes the token.
TakeEvent ==
    /\ events
    /\ events' = FALSE
    /\ UNCHANGED <<names, pending, active, owner, decision, username, signals>>
=============================================================================
