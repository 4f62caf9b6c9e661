----------------------------- MODULE CoAuthors -----------------------------
(***************************************************************************)
(* The algorithms of internal/coauthor/coauthor.go: in which order users   *)
(* are credited, how their lines are put into a commit message, and what    *)
(* is learned from the message the user saved.                             *)
(*                                                                         *)
(* A message is a sequence of lines: text, comments, and Co-authored-by     *)
(* lines carrying a git name and an email.  Blank lines and spelling are    *)
(* left out.  A git name is represented by the user it is the name of, and  *)
(* so is an address, so that a line says whose identity it shows.          *)
(***************************************************************************)
EXTENDS Naturals, SequencesExt, Subsequences

CONSTANTS
    Users,      \* SSH usernames
    NoUser      \* in place of an email: the placeholder, an address not yet known; in
                \* place of a username or a name: one that is no user's

ASSUME CoAuthorsAssumption == NoUser \notin Users

Identities == Users \cup {NoUser}

\* Order only remembers users, but Load takes a line as it comes.
Entry == [ssh : Identities, name : Identities, email : Identities]

Line == [kind : {"text", "comment", "credit"}, name : Identities, email : Identities]

Text == [kind |-> "text", name |-> NoUser, email |-> NoUser]
Comment == [kind |-> "comment", name |-> NoUser, email |-> NoUser]
Credit(name, email) == [kind |-> "credit", name |-> name, email |-> email]

Usernames(entries) == [i \in DOMAIN entries |-> entries[i].ssh]

\* get: the first entry of a user that has one.
Find(entries, u) == SelectInSeq(entries, LAMBDA e : e.ssh = u)
Get(entries, u) == entries[Find(entries, u)]

\* A list of users without some of them.
Without(users, some) == Among(users, Users \ some)

-----------------------------------------------------------------------------
(* Order: newly connected users join the memory in the order given, and the *)
(* connected ones are credited in remembered order.                        *)

\* Variant of Remembering for mutation: a user already known is remembered again.
RememberingAgain(entries, connected) ==
    entries \o [i \in DOMAIN connected |->
                   [ssh |-> connected[i], name |-> connected[i], email |-> NoUser]]

\* Variant of Remembering for mutation: new users go to the front.
RememberingFirst(entries, connected) ==
    LET new == Without(connected, ToSet(Usernames(entries)))
    IN  [i \in DOMAIN new |-> [ssh |-> new[i], name |-> new[i], email |-> NoUser]]
        \o entries

Remembering(entries, connected) ==
    LET new == Without(connected, ToSet(Usernames(entries)))
    IN  entries \o [i \in DOMAIN new |->
                       [ssh |-> new[i], name |-> new[i], email |-> NoUser]]

Order(entries, connected) ==
    Among(Usernames(Remembering(entries, connected)), ToSet(connected))

-----------------------------------------------------------------------------
(* splitTemplate: git's own block starts at the first comment line.        *)

FirstComment(msg) == SelectInSeq(msg, LAMBDA l : l.kind = "comment")

Body(msg) ==
    IF FirstComment(msg) = 0 THEN msg ELSE SubSeq(msg, 1, FirstComment(msg) - 1)

GitBlock(msg) ==
    IF FirstComment(msg) = 0 THEN <<>> ELSE SubSeq(msg, FirstComment(msg), Len(msg))

\* parseCoauthors and stripCoauthors, over a body.
Credits(body) == Pick(body, {i \in DOMAIN body : body[i].kind = "credit"})
WithoutCredits(body) == Pick(body, {i \in DOMAIN body : body[i].kind # "credit"})

-----------------------------------------------------------------------------
(* Render rewrites the block of credits, Learn reads it back by position.  *)

CreditOf(entries, u) == Credit(Get(entries, u).name, Get(entries, u).email)

\* Variant of Render for mutation: the credits that were there stay.
RenderBelowOld(entries, order, msg) ==
    Body(msg) \o [i \in DOMAIN order |-> CreditOf(entries, order[i])] \o GitBlock(msg)

Render(entries, order, msg) ==
    WithoutCredits(Body(msg))
    \o [i \in DOMAIN order |-> CreditOf(entries, order[i])]
    \o GitBlock(msg)

\* Each line is that of the user at its position in the order, when there is one.  It
\* replaces the user's name, and the email too unless it still has the placeholder;
\* of several lines of one user the last counts.  A name is never left blank in this
\* model.
Learn(entries, order, msg) ==
    LET lines == Credits(Body(msg))
        linesOf(i) == {k \in DOMAIN order \cap DOMAIN lines : Find(entries, order[k]) = i}
        addressed(i) == {k \in linesOf(i) : lines[k].email # NoUser}
    IN  [i \in DOMAIN entries |->
            [ssh |-> entries[i].ssh,
             name |-> IF linesOf(i) = {} THEN entries[i].name ELSE lines[Max(linesOf(i))].name,
             email |-> IF addressed(i) = {} THEN entries[i].email
                       ELSE lines[Max(addressed(i))].email]]
=============================================================================
