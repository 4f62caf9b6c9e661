---------------------------- MODULE CommitHelper ----------------------------
(***************************************************************************)
(* The git hook helper of cmd/sssh/commit.go: `prepare' runs before the    *)
(* editor and puts the connected users into the message, `record' runs     *)
(* after it and learns their identities from what was saved.  The two are  *)
(* processes of their own, which share only the connected file and the     *)
(* identity store; between them a user edits for as long as it likes, users *)
(* come and go, and another commit may run its own hooks.                  *)
(***************************************************************************)
EXTENDS CoAuthors

CONSTANT Commits    \* the commits made; each runs its hooks once

VARIABLES
    connected,      \* the connected file, oldest session first
    store,          \* the identity store, as its file reads at this moment
    hook,           \* which hook a commit is in
    pc,             \* where in it
    users,          \* the connected users the hook has read
    entries,        \* the store the hook has loaded and works on
    msg,            \* the commit message
    remembered,     \* history: the usernames of the last complete store
    disturbances    \* history: what has happened to commits under way

vars == <<connected, store, hook, pc, users, entries, msg, remembered, disturbances>>

Templates ==
    {<<Text>>, <<Text, Comment, Text>>}
    \cup {<<Text, Credit(u, u), Comment>> : u \in Users}

\* Each save so far was alone and complete.
Intact == disturbances \subseteq {"churn", "edit"}

TypeOK ==
    /\ connected \in Seq(Users)
    /\ store \in Seq(Entry)
    /\ hook \in [Commits -> {"prepare", "record"}]
    /\ pc \in [Commits -> {"idle", "read", "load", "apply", "save", "write", "edit", "done"}]
    /\ users \in [Commits -> Seq(Users)]
    /\ entries \in [Commits -> Seq(Entry)]
    /\ msg \in [Commits -> Seq(Line)]
    /\ IsInjective(connected)
    /\ Intact => IsInjective(Usernames(store))
    /\ disturbances \subseteq {"churn", "edit", "overlap", "failure"}

Init ==
    /\ connected = <<>>
    /\ store = <<>>
    /\ hook = [k \in Commits |-> "prepare"]
    /\ pc = [k \in Commits |-> "idle"]
    /\ users = [k \in Commits |-> <<>>]
    /\ entries = [k \in Commits |-> <<>>]
    /\ msg = [k \in Commits |-> <<>>]
    /\ remembered = <<>>
    /\ disturbances = {}

UnderWay == {k \in Commits : pc[k] \notin {"idle", "done"}}

Disturbed(how, when) ==
    disturbances' = IF when THEN disturbances \cup {how} ELSE disturbances

Goto(k, from, to) == pc[k] = from /\ pc' = [pc EXCEPT ![k] = to]

\* What a hook has in memory goes with its process.
Forgets(k) ==
    /\ users' = [users EXCEPT ![k] = <<>>]
    /\ entries' = [entries EXCEPT ![k] = <<>>]

-----------------------------------------------------------------------------
(* The sessions, as coauthor.Writer publishes them.                        *)

Connect(u) ==
    /\ u \notin ToSet(connected)
    /\ connected' = Append(connected, u)
    /\ Disturbed("churn", UnderWay # {})
    /\ UNCHANGED <<store, hook, pc, users, entries, msg, remembered>>

Disconnect(u) ==
    /\ u \in ToSet(connected)
    /\ connected' = Without(connected, {u})
    /\ Disturbed("churn", UnderWay # {})
    /\ UNCHANGED <<store, hook, pc, users, entries, msg, remembered>>

-----------------------------------------------------------------------------
(* git: a message template, the editor, the end.                           *)

Begin(k, template) ==
    /\ Goto(k, "idle", "read")
    /\ msg' = [msg EXCEPT ![k] = template]
    /\ Disturbed("overlap", UnderWay # {})
    /\ UNCHANGED <<connected, store, hook, users, entries, remembered>>

\* A user completes the line that shows its name.
FillEmail(k) ==
    /\ pc[k] = "edit"
    /\ \E i \in DOMAIN Body(msg[k]) :
          /\ msg[k][i].kind = "credit"
          /\ msg' = [msg EXCEPT ![k][i].email = msg[k][i].name]
    /\ UNCHANGED <<connected, store, hook, pc, users, entries, remembered, disturbances>>

\* A user strikes a credit out.
DropCredit(k) ==
    /\ pc[k] = "edit"
    /\ \E i \in DOMAIN Body(msg[k]) :
          /\ msg[k][i].kind = "credit"
          /\ msg' = [msg EXCEPT ![k] = RemoveAt(@, i)]
    /\ Disturbed("edit", TRUE)
    /\ UNCHANGED <<connected, store, hook, pc, users, entries, remembered>>

SaveMessage(k) ==
    /\ Goto(k, "edit", "read")
    /\ hook' = [hook EXCEPT ![k] = "record"]
    /\ UNCHANGED <<connected, store, users, entries, msg, remembered, disturbances>>

\* The user gives the commit up, the hook is killed, or it cannot read, write the
\* message or open the store: the store is as it was.
Abort(k) ==
    /\ pc[k] \in {"read", "load", "apply", "save", "edit"}
    /\ pc' = [pc EXCEPT ![k] = "done"]
    /\ Forgets(k)
    /\ msg' = [msg EXCEPT ![k] = <<>>]
    /\ UNCHANGED <<connected, store, hook, remembered, disturbances>>

-----------------------------------------------------------------------------
(* A hook: commitState, commitPrepare or commitRecord, Save.               *)

ReadConnected(k) ==
    /\ Goto(k, "read", "load")
    /\ users' = [users EXCEPT ![k] = connected]
    /\ UNCHANGED <<connected, store, hook, entries, msg, remembered, disturbances>>

LoadStore(k) ==
    /\ Goto(k, "load", "apply")
    /\ entries' = [entries EXCEPT ![k] = store]
    /\ UNCHANGED <<connected, store, hook, users, msg, remembered, disturbances>>

Prepare(k) ==
    LET all == Remembering(entries[k], users[k])
    IN  /\ hook[k] = "prepare"
        /\ Goto(k, "apply", "save")
        /\ entries' = [entries EXCEPT ![k] = all]
        /\ msg' = [msg EXCEPT ![k] = Render(all, Order(entries[k], users[k]), @)]
        /\ UNCHANGED <<connected, store, hook, users, remembered, disturbances>>

\* Variant of Record for mutation: the lines are those of every remembered user.
RecordInStoreOrder(k) ==
    LET all == Remembering(entries[k], users[k])
    IN  /\ hook[k] = "record"
        /\ Goto(k, "apply", "save")
        /\ entries' = [entries EXCEPT ![k] = Learn(all, Usernames(all), msg[k])]
        /\ UNCHANGED <<connected, store, hook, users, msg, remembered, disturbances>>

Record(k) ==
    LET all == Remembering(entries[k], users[k])
    IN  /\ hook[k] = "record"
        /\ Goto(k, "apply", "save")
        /\ entries' = [entries EXCEPT ![k] = Learn(all, Order(entries[k], users[k]), msg[k])]
        /\ UNCHANGED <<connected, store, hook, users, msg, remembered, disturbances>>

\* os.WriteFile opens the file, which empties it, and then writes.
EmptyStore(k) ==
    /\ Goto(k, "save", "write")
    /\ store' = <<>>
    /\ UNCHANGED <<connected, hook, users, entries, msg, remembered, disturbances>>

\* A line of the store that was cut where bytes and not lines end.  What is left of it
\* reads as somebody's, a user's even if the names happen to agree, with nobody's name
\* or, when only one word is left, that word for a name.
CutLines ==
    {[ssh |-> u, name |-> NoUser, email |-> NoUser] : u \in Identities}
    \cup {[ssh |-> u, name |-> u, email |-> NoUser] : u \in Identities}

\* What a save that did not come to its end may have written of a store.
Beginnings(s) ==
    {SubSeq(s, 1, n) : n \in 0 .. Len(s)}
    \cup UNION {{Append(SubSeq(s, 1, n - 1), cut) : cut \in CutLines} : n \in DOMAIN s}

\* What stays of a store when another has been written over its first bytes.
Endings(s) ==
    {SubSeq(s, n, Len(s)) : n \in 1 .. Len(s) + 1}
    \cup UNION {{<<cut>> \o SubSeq(s, n + 1, Len(s)) : cut \in CutLines} : n \in DOMAIN s}

\* What an overlapping save has written beyond the end of this one stays; which of the
\* two is longer depends on names and addresses, unless one continues the other.
WriteStore(k) ==
    /\ Goto(k, "write", IF hook[k] = "prepare" THEN "edit" ELSE "done")
    /\ \E rest \in IF IsPrefix(store, entries[k]) THEN {<<>>} ELSE Endings(store) :
          store' = entries[k] \o rest
    /\ remembered' = Usernames(store')
    /\ Forgets(k)
    /\ msg' = [msg EXCEPT ![k] = IF hook[k] = "prepare" THEN @ ELSE <<>>]
    /\ UNCHANGED <<connected, hook, disturbances>>

\* The hook is killed, or its write fails, when the store has been emptied.  What was
\* remembered is lost but for what the write had come to.
SaveFails(k) ==
    /\ Goto(k, "write", "done")
    /\ \E begun \in Beginnings(entries[k]), rest \in Endings(store) : store' = begun \o rest
    /\ Forgets(k)
    /\ msg' = [msg EXCEPT ![k] = <<>>]
    /\ Disturbed("failure", TRUE)
    /\ UNCHANGED <<connected, hook, remembered>>

Hook(k) ==
    \/ ReadConnected(k) \/ LoadStore(k) \/ Prepare(k) \/ Record(k)
    \/ EmptyStore(k) \/ WriteStore(k) \/ SaveFails(k)

Git(k) ==
    \/ \E template \in Templates : Begin(k, template)
    \/ FillEmail(k) \/ DropCredit(k) \/ SaveMessage(k) \/ Abort(k)

Next ==
    \/ \E u \in Users : Connect(u) \/ Disconnect(u)
    \/ \E k \in Commits : Git(k) \/ Hook(k)

Spec == Init /\ [][Next]_vars

-----------------------------------------------------------------------------
(* Properties.                                                             *)

OwnIdentity(e) == e.name = e.ssh /\ e.email \in {e.ssh, NoUser}

\* When nobody comes or goes during a commit, nobody strikes a credit out, commits do
\* not overlap and no save breaks off, what the helper has learned of a user is that user's own
\* name and address: the position at which `record' reads a line is the one at
\* which `prepare', another process with another copy of the store, put it, from
\* one commit to the next and with users coming and going in between.
LearnedIsOwn ==
    disturbances = {} => \A i \in DOMAIN store : OwnIdentity(store[i])

\* Lines 100-103 of coauthor.go: prepare and record agree on the order that maps
\* each line to a user.  The same as LearnedIsOwn, with users who come and go during
\* a commit as the live connected set has them do.
PrepareAndRecordAgree ==
    disturbances \subseteq {"churn"} => \A i \in DOMAIN store : OwnIdentity(store[i])

\* A user's line keeps its position across commits, which is what Store's comment
\* promises: a save only ever appends users to those remembered, whoever comes, goes or
\* edits, and wherever else a commit is given up or fails.  The code does not give it
\* when saves overlap, or when one breaks off between truncation and the end of the
\* write: the store is then short or empty, and the next commit orders everybody anew.
PositionsKept ==
    [][Intact' => IsPrefix(remembered, remembered')]_vars

\* A prepared message has a credit for each user connected when the hook read them,
\* in place of the credits that were there, and keeps every other line, git's comment
\* and diff block included, in order.  There is one for each unless saves overlap
\* or break off: what these leave in the store may remember a user twice, who is then
\* credited twice.  The credits show the users' own names as LearnedIsOwn has it.
PreparedMessage ==
    [][\A k \in Commits :
          pc[k] = "apply" /\ pc'[k] = "save" /\ hook[k] = "prepare" =>
              /\ Intact => Len(Credits(Body(msg'[k]))) = Len(users[k])
              /\ WithoutCredits(Body(msg'[k])) = WithoutCredits(Body(msg[k]))
              /\ GitBlock(msg'[k]) = GitBlock(msg[k])
              /\ disturbances = {} =>
                    {l.name : l \in ToSet(Credits(Body(msg'[k])))} = ToSet(users[k])]_vars
=============================================================================
