----------------------------- MODULE Admission -----------------------------
(***************************************************************************)
(* What the front door and the registry together promise, said without     *)
(* goroutines, channels or locks: a guest asks under a name nobody bears,  *)
(* the host decides, and only a host who is there can let a guest in.      *)
(*                                                                         *)
(* One thing is weaker than one would like and is as the code has it: a    *)
(* guest may give up after its approval and before it comes in, and then   *)
(* its name is forfeited, lost to later guests for the rest of the session.*)
(***************************************************************************)
CONSTANTS Guests, Names, NoName

VARIABLES
    host,       \* the host is present
    closing,    \* the session is on its way to its end
    seat,       \* where each guest is
    name        \* the name each guest asked under

Seats == {"out", "waiting", "approved", "in", "gone", "forfeited"}

\* Guests whose name no one else may take.
Bearers == {g \in Guests : seat[g] \in {"waiting", "approved", "in", "forfeited"}}

Init ==
    /\ host = FALSE
    /\ closing = FALSE
    /\ seat = [g \in Guests |-> "out"]
    /\ name = [g \in Guests |-> NoName]

Move(g, from, to) == seat[g] = from /\ seat' = [seat EXCEPT ![g] = to]

HostArrives == ~host /\ host' = TRUE /\ UNCHANGED <<closing, seat, name>>

\* A host who leaves takes the session along.
HostLeaves == host /\ host' = FALSE /\ closing' = TRUE /\ UNCHANGED <<seat, name>>

Close == closing' = TRUE /\ UNCHANGED <<host, seat, name>>

Ask(g, n) ==
    /\ \A b \in Bearers : name[b] # n
    /\ Move(g, "out", "waiting")
    /\ name' = [name EXCEPT ![g] = n]
    /\ UNCHANGED <<host, closing>>

Approve(g) == host /\ Move(g, "waiting", "approved") /\ UNCHANGED <<host, closing, name>>

\* The host refuses, or the guest gives up.
Refuse(g) == Move(g, "waiting", "gone") /\ UNCHANGED <<host, closing, name>>

Forfeit(g) == Move(g, "approved", "forfeited") /\ UNCHANGED <<host, closing, name>>

ComeIn(g) == Move(g, "approved", "in") /\ UNCHANGED <<host, closing, name>>

Leave(g) == Move(g, "in", "gone") /\ UNCHANGED <<host, closing, name>>

Next ==
    \/ HostArrives \/ HostLeaves \/ Close
    \/ \E g \in Guests :
          \/ \E n \in Names : Ask(g, n)
          \/ Approve(g) \/ Refuse(g) \/ Forfeit(g) \/ ComeIn(g) \/ Leave(g)

Spec == Init /\ [][Next]_<<host, closing, seat, name>>
=============================================================================
