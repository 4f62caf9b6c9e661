---------------------------- MODULE MCFrontDoor ----------------------------
(* FrontDoor on small sets of connections and names.                       *)
EXTENDS FrontDoor, TLC

\* The connections of one listener, and the names, are interchangeable.
ConnSymmetry ==
    Permutations(Lan) \cup Permutations(Conns \ Lan) \cup Permutations(Names)

\* What decides the future of the safety properties.  No handler reads the events
\* token; a handler's select is the last to read how its connection went, what the
\* pump does and whether it has interrupted, and before the select only the first
\* of these can have changed.
BeforeSelect(c) == pc[c] \in {"joining", "registered", "waiting"}
SafetyView ==
    <<names, pending, active, owner, decision, username, signals, pc, kicking, stage,
      [c \in Conns |-> IF BeforeSelect(c) THEN link[c] ELSE "up"],
      {c \in Conns : pc[c] = "waiting" /\ pump[c] = "reading"},
      {c \in Conns : pc[c] = "waiting" /\ interrupt[c]}>>
=============================================================================
