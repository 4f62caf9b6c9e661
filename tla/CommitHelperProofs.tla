------------------------- MODULE CommitHelperProofs -------------------------
(***************************************************************************)
(* Proofs about CommitHelper, for any users and commits: first about the   *)
(* algorithms of CoAuthors, then about the hooks that run them.             *)
(***************************************************************************)
EXTENDS CommitHelper, SubsequencesProofs

-----------------------------------------------------------------------------
(* The store.                                                              *)

\* A list of users is one of what can stand for a user.
LEMMA UsersAreIdentities == \A us \in Seq(Users) : us \in Seq(Identities)
  <1>1. \A us \in Seq(Users) : \A i \in DOMAIN us : us[i] \in Identities
    BY DEF Identities
  <1>2. QED
    BY <1>1

\* The usernames of a store.
LEMMA UsernamesProperties ==
    ASSUME NEW es \in Seq(Entry)
    PROVE  /\ Usernames(es) \in Seq(Identities)
           /\ Len(es) \in Nat
           /\ Len(Usernames(es)) = Len(es)
           /\ \A i \in 1..Len(es) : es[i] \in Entry /\ Usernames(es)[i] = es[i].ssh
  <1>1. Len(es) \in Nat /\ DOMAIN es = 1..Len(es) /\ \A i \in 1..Len(es) : es[i] \in Entry
    OBVIOUS
  <1>2. Usernames(es) = [i \in 1..Len(es) |-> es[i].ssh]
    BY <1>1 DEF Usernames
  <1>3. \A i \in 1..Len(es) : es[i].ssh \in Identities
    BY <1>1 DEF Entry
  <1>4. Usernames(es) \in Seq(Identities) /\ Len(Usernames(es)) = Len(es)
    BY <1>1, <1>2, <1>3
  <1>5. QED
    BY <1>1, <1>2, <1>4

\* A list of users without some of them.
LEMMA WithoutProperties ==
    ASSUME NEW us \in Seq(Users), NEW some
    PROVE  /\ Without(us, some) \in Seq(Users)
           /\ ToSet(Without(us, some)) = ToSet(us) \ some
           /\ IsInjective(us) => IsInjective(Without(us, some))
  <1>1. \A s : ToSet(s) = Range(s)
    BY DEF ToSet, Range
  <1>2. Range(us) \subseteq Users
    BY DEF Range
  <1>3. /\ Without(us, some) \in Seq(Users)
        /\ IsInjective(us) => IsInjective(Without(us, some))
        /\ Range(Without(us, some)) = Range(us) \cap (Users \ some)
    BY AmongProperties DEF Without
  <1>4. QED
    BY <1>1, <1>2, <1>3

\* New users join at the end, under their own names; those known stay as they are.
LEMMA RememberingProperties ==
    ASSUME NEW es \in Seq(Entry), NEW us \in Seq(Users)
    PROVE  LET all == Remembering(es, us)
               new == Without(us, ToSet(Usernames(es)))
           IN  /\ all \in Seq(Entry)
               /\ Usernames(all) = Usernames(es) \o new
               /\ \A i \in 1..Len(all) : (i <= Len(es) /\ all[i] = es[i]) \/ OwnIdentity(all[i])
  <1> DEFINE new == Without(us, ToSet(Usernames(es)))
             added == [i \in DOMAIN new |-> [ssh |-> new[i], name |-> new[i], email |-> NoUser]]
             all == Remembering(es, us)
  <1>1. all = es \o added
    BY DEF Remembering
  <1>2. new \in Seq(Users)
    BY UsernamesProperties, WithoutProperties
  <1> HIDE DEF new
  <1>3. /\ added \in Seq(Entry) /\ Len(added) = Len(new) /\ Len(new) \in Nat
        /\ \A i \in 1..Len(new) : added[i] = [ssh |-> new[i], name |-> new[i], email |-> NoUser]
    <2>1. Len(new) \in Nat /\ DOMAIN new = 1..Len(new) /\ \A i \in 1..Len(new) : new[i] \in Users
      BY <1>2
    <2>2. \A i \in 1..Len(new) : [ssh |-> new[i], name |-> new[i], email |-> NoUser] \in Entry
      BY <2>1 DEF Entry, Identities
    <2>3. added \in [1..Len(new) -> Entry]
      BY <2>1, <2>2
    <2>4. added \in Seq(Entry) /\ Len(added) = Len(new)
      BY <2>1, <2>3
    <2>5. QED
      BY <2>1, <2>4
  <1> HIDE DEF added, all
  <1>4. /\ all \in Seq(Entry)
        /\ Len(es) \in Nat
        /\ Len(all) = Len(es) + Len(new)
        /\ \A i \in 1..Len(es) : i \in 1..Len(all) /\ all[i] = es[i]
        /\ \A j \in 1..Len(new) : Len(es) + j \in 1..Len(all) /\ all[Len(es) + j] = added[j]
        /\ \A i \in 1..Len(all) : i \in 1..Len(es) \/ \E j \in 1..Len(new) : i = Len(es) + j
    <2>0. added \in Seq(Entry)
      BY <1>3
    <2>1. /\ all \in Seq(Entry)
          /\ Len(es) \in Nat
          /\ Len(all) = Len(es) + Len(added)
          /\ \A i \in 1..Len(es) : i \in 1..Len(all) /\ all[i] = es[i]
          /\ \A j \in 1..Len(added) : /\ Len(es) + j \in 1..Len(all)
                                      /\ all[Len(es) + j] = added[j]
          /\ \A i \in 1..Len(all) :
                i \in 1..Len(es) \/ \E j \in 1..Len(added) : i = Len(es) + j
      BY <1>1, <2>0, Halves
    <2>2. QED
      BY <1>3, <2>1
  <1>5. \A i \in 1..Len(all) : (i <= Len(es) /\ all[i] = es[i]) \/ OwnIdentity(all[i])
    <2> SUFFICES ASSUME NEW i \in 1..Len(all)
                 PROVE  (i <= Len(es) /\ all[i] = es[i]) \/ OwnIdentity(all[i])
      OBVIOUS
    <2>1. CASE i \in 1..Len(es)
      BY <1>4, <2>1
    <2>2. ASSUME NEW j \in 1..Len(new), i = Len(es) + j PROVE OwnIdentity(all[i])
      <3>1. all[i] = [ssh |-> new[j], name |-> new[j], email |-> NoUser]
        BY <1>3, <1>4, <2>2
      <3>2. QED
        BY <3>1 DEF OwnIdentity
    <2>3. QED
      BY <1>4, <2>1, <2>2
  <1>6. Usernames(all) = Usernames(es) \o new
    <2> DEFINE names == Usernames(es)
    <2>1. /\ names \in Seq(Identities) /\ Len(names) = Len(es)
          /\ \A i \in 1..Len(es) : names[i] = es[i].ssh
          /\ Usernames(all) \in Seq(Identities) /\ Len(Usernames(all)) = Len(all)
          /\ \A i \in 1..Len(all) : Usernames(all)[i] = all[i].ssh
      BY <1>4, UsernamesProperties
    <2> HIDE DEF names
    <2>2. /\ names \o new \in Seq(Identities)
          /\ Len(names \o new) = Len(all)
          /\ \A i \in 1..Len(es) : (names \o new)[i] = names[i]
          /\ \A j \in 1..Len(new) : (names \o new)[Len(es) + j] = new[j]
      <3>1. /\ names \o new \in Seq(Identities)
            /\ Len(names \o new) = Len(names) + Len(new)
            /\ \A i \in 1..Len(names) : (names \o new)[i] = names[i]
            /\ \A j \in 1..Len(new) : (names \o new)[Len(names) + j] = new[j]
        <4>1. names \in Seq(Identities) /\ new \in Seq(Identities)
          BY <1>2, <2>1, UsersAreIdentities
        <4>2. QED
          BY <4>1, Halves
      <3>2. QED
        BY <1>4, <2>1, <3>1
    <2>3. ASSUME NEW i \in 1..Len(all)
          PROVE  Usernames(all)[i] = (names \o new)[i]
      <3>1. CASE i \in 1..Len(es)
        <4>1. all[i] = es[i]
          BY <1>4, <3>1
        <4>2. Usernames(all)[i] = all[i].ssh /\ names[i] = es[i].ssh
          BY <2>1, <3>1
        <4>3. QED
          BY <2>2, <3>1, <4>1, <4>2
      <3>2. ASSUME NEW j \in 1..Len(new), i = Len(es) + j
            PROVE  Usernames(all)[i] = (names \o new)[i]
        <4>1. all[i] = [ssh |-> new[j], name |-> new[j], email |-> NoUser]
          BY <1>3, <1>4, <3>2
        <4>2. Usernames(all)[i] = new[j]
          BY <2>1, <4>1
        <4>3. QED
          BY <2>2, <3>2, <4>2
      <3>3. QED
        BY <1>4, <3>1, <3>2
    <2>4. QED
      BY <2>1, <2>2, <2>3, SeqEqual DEF names
  <1>7. QED
    BY <1>4, <1>5, <1>6 DEF all, new

\* A prefix agrees at each of its positions.
LEMMA PrefixProperties ==
    ASSUME NEW T, NEW s \in Seq(T), NEW t \in Seq(T)
    PROVE  IsPrefix(s, t) <=> Len(s) <= Len(t) /\ \A i \in 1..Len(s) : s[i] = t[i]
  <1>1. Len(s) \in Nat /\ Len(t) \in Nat
    OBVIOUS
  <1>2. SubSeq(s, 1, Len(s)) = s
    OBVIOUS
  <1>3. Len(s) <= Len(t) => SubSeq(t, 1, Len(s)) = [i \in 1..Len(s) |-> t[i]]
    BY <1>1
  <1>4. s = [i \in 1..Len(s) |-> s[i]]
    OBVIOUS
  <1>5. Len(s) <= Len(t) => (s = SubSeq(t, 1, Len(s)) <=> \A i \in 1..Len(s) : s[i] = t[i])
    BY <1>3, <1>4
  <1>6. QED
    BY <1>2, <1>5 DEF IsPrefix

\* What is put at the end of a list leaves its prefixes.
LEMMA PrefixOfJoin ==
    ASSUME NEW T, NEW r \in Seq(T), NEW s \in Seq(T), NEW t \in Seq(T), IsPrefix(r, s)
    PROVE  IsPrefix(r, s \o t)
  <1>1. /\ Len(s) \in Nat /\ Len(t) \in Nat
        /\ s \o t \in Seq(T) /\ Len(s \o t) = Len(s) + Len(t)
        /\ \A i \in 1..Len(s) : (s \o t)[i] = s[i]
    BY Halves
  <1>2. Len(r) \in Nat /\ Len(r) <= Len(s) /\ \A i \in 1..Len(r) : r[i] = s[i]
    BY PrefixProperties
  <1>3. Len(r) <= Len(s \o t)
    BY <1>1, <1>2
  <1>4. \A i \in 1..Len(r) : i \in 1..Len(s)
    BY <1>1, <1>2
  <1>5. \A i \in 1..Len(r) : r[i] = (s \o t)[i]
    BY <1>1, <1>2, <1>4
  <1>6. QED
    BY <1>1, <1>3, <1>5, PrefixProperties

\* Who is remembered after new users have joined.
LEMMA RememberedNames ==
    ASSUME NEW es \in Seq(Entry), NEW us \in Seq(Users)
    PROVE  LET names == Usernames(es)
               after == Usernames(Remembering(es, us))
           IN  /\ after \in Seq(Identities)
               /\ \A s \in Seq(Identities) : IsPrefix(s, names) => IsPrefix(s, after)
               /\ ToSet(after) = ToSet(names) \cup ToSet(us)
               /\ IsInjective(names) /\ IsInjective(us) => IsInjective(after)
               /\ ToSet(us) \subseteq ToSet(names) => after = names
  <1> DEFINE names == Usernames(es)
             new == Without(us, ToSet(names))
             after == Usernames(Remembering(es, us))
  <1>1. /\ names \in Seq(Identities)
        /\ new \in Seq(Identities)
        /\ ToSet(new) = ToSet(us) \ ToSet(names)
        /\ IsInjective(us) => IsInjective(new)
    BY UsernamesProperties, WithoutProperties, UsersAreIdentities
  <1>2. after = names \o new
    BY RememberingProperties
  <1> HIDE DEF names, new, after
  <1>3. \A s : ToSet(s) = Range(s)
    BY DEF ToSet, Range
  <1>4. names \o new \in Seq(Identities) /\ Range(names \o new) = Range(names) \cup Range(new)
    BY <1>1, ConcatProperties, RangeConcatenation
  <1>5. ASSUME NEW s \in Seq(Identities), IsPrefix(s, names) PROVE IsPrefix(s, after)
    BY <1>1, <1>2, <1>5, PrefixOfJoin
  <1>6. ToSet(after) = ToSet(names) \cup ToSet(us)
    BY <1>1, <1>2, <1>3, <1>4
  <1>7. ASSUME IsInjective(names), IsInjective(us) PROVE IsInjective(after)
    <2>1. Range(names) \cap Range(new) = {}
      BY <1>1, <1>3
    <2>2. QED
      BY <1>1, <1>2, <1>7, <2>1, JoinInjective
  <1>8. ASSUME ToSet(us) \subseteq ToSet(names) PROVE after = names
    <2>1. Range(new) = {}
      BY <1>1, <1>3, <1>8
    <2>2. new = <<>>
      <3>1. Len(new) \in Nat /\ DOMAIN new = 1..Len(new)
        BY <1>1
      <3>2. ~(1 \in DOMAIN new)
        BY <2>1 DEF Range
      <3>3. Len(new) = 0
        BY <3>1, <3>2
      <3>4. QED
        BY <1>1, <3>3, EmptySeq
    <2>3. QED
      BY <1>1, <1>2, <2>2
  <1>9. QED
    BY <1>2, <1>4, <1>5, <1>6, <1>7, <1>8 DEF names, after

\* The order in which users are credited: all of them, and each once when each is
\* remembered once.
LEMMA OrderProperties ==
    ASSUME NEW es \in Seq(Entry), NEW us \in Seq(Users)
    PROVE  /\ Order(es, us) \in Seq(Identities)
           /\ ToSet(Order(es, us)) = ToSet(us)
           /\ IsInjective(Usernames(es)) /\ IsInjective(us) => Len(Order(es, us)) = Len(us)
  <1> DEFINE after == Usernames(Remembering(es, us))
             order == Order(es, us)
  <1>1. \A s : ToSet(s) = Range(s)
    BY DEF ToSet, Range
  <1>2. /\ after \in Seq(Identities)
        /\ ToSet(us) \subseteq ToSet(after)
        /\ IsInjective(Usernames(es)) /\ IsInjective(us) => IsInjective(after)
    BY RememberedNames
  <1>3. order = Among(after, ToSet(us))
    BY DEF Order
  <1> HIDE DEF after, order
  <1>4. /\ order \in Seq(Identities)
        /\ Range(order) = Range(after) \cap ToSet(us)
        /\ IsInjective(after) => IsInjective(order)
    BY <1>2, <1>3, AmongProperties
  <1>5. Range(order) = Range(us)
    BY <1>1, <1>2, <1>4
  <1>6. ASSUME IsInjective(Usernames(es)), IsInjective(us) PROVE Len(order) = Len(us)
    <2>1. IsInjective(order)
      BY <1>2, <1>4, <1>6
    <2>2. Cardinality(Range(order)) = Len(order)
      BY <1>4, <2>1, RangeCardinality
    <2>3. Cardinality(Range(us)) = Len(us)
      BY <1>6, RangeCardinality
    <2>4. QED
      BY <1>5, <2>2, <2>3
  <1>7. QED
    BY <1>1, <1>4, <1>5, <1>6 DEF order

-----------------------------------------------------------------------------
(* A commit message and its parts.                                         *)

\* The least and the greatest of a set of positions are among them.
LEMMA MinMaxProperties ==
    ASSUME NEW S \in SUBSET Nat, IsFiniteSet(S), S # {}
    PROVE  /\ Min(S) \in S /\ \A y \in S : Min(S) <= y
           /\ Max(S) \in S
  <1>1. \A x, y \in S : x >= y <=> y <= x
    OBVIOUS
  <1>2. PICK x \in S : \A y \in S : x <= y
    BY FirstAndLast
  <1>3. PICK z \in S : \A y \in S : y <= z
    BY FirstAndLast
  <1>4. Min(S) \in S /\ \A y \in S : Min(S) <= y
    BY <1>2 DEF Min
  <1>5. \A y \in S : z >= y
    BY <1>1, <1>3
  <1>6. Max(S) \in S
    BY <1>5 DEF Max
  <1>7. QED
    BY <1>4, <1>6

\* What stands before, and what after, the place where two lists were joined.
LEMMA JoinSplits ==
    ASSUME NEW T, NEW s \in Seq(T), NEW t \in Seq(T)
    PROVE  /\ SubSeq(s \o t, 1, Len(s)) = s
           /\ SubSeq(s \o t, Len(s) + 1, Len(s \o t)) = t
  <1> DEFINE m == Len(s)
             n == Len(t)
             u == s \o t
             first == SubSeq(u, 1, m)
             second == SubSeq(u, m + 1, m + n)
  <1>1. /\ m \in Nat /\ n \in Nat /\ u \in Seq(T) /\ Len(u) = m + n
        /\ \A i \in 1..m : u[i] = s[i]
        /\ \A j \in 1..n : u[m + j] = t[j]
    BY Halves
  <1> HIDE DEF m, n, u
  <1>2. \A i \in 1..m + n : u[i] \in T
    BY <1>1
  <1>3. (\A i \in 1..m : u[i] \in T) /\ (\A i \in m + 1..m + n : u[i] \in T)
    BY <1>1, <1>2
  <1>4. /\ first \in Seq(T)
        /\ Len(first) = m
        /\ \A i \in 1..m : first[i] = u[i]
    <2>1. /\ first \in Seq(T)
          /\ Len(first) = IF 1 <= m THEN m - 1 + 1 ELSE 0
          /\ \A i \in 1..m - 1 + 1 : first[i] = u[1 + i - 1]
      <3>1. 1 \in Int /\ m \in Int
        BY <1>1
      <3>2. QED
        BY <1>3, <3>1, SubSeqProperties
    <2>2. Len(first) = m
      BY <1>1, <2>1
    <2>3. \A i \in 1..m : i \in 1..m - 1 + 1 /\ 1 + i - 1 = i
      BY <1>1
    <2>4. QED
      BY <2>1, <2>2, <2>3
  <1>5. /\ second \in Seq(T)
        /\ Len(second) = n
        /\ \A j \in 1..n : second[j] = u[m + j]
    <2> DEFINE lo == m + 1
               hi == m + n
    <2>1. lo \in Int /\ hi \in Int /\ \A i \in lo..hi : u[i] \in T
      BY <1>1, <1>3
    <2>2. second = SubSeq(u, lo, hi)
      OBVIOUS
    <2> HIDE DEF lo, hi, second
    <2>3. /\ second \in Seq(T)
          /\ Len(second) = IF lo <= hi THEN hi - lo + 1 ELSE 0
          /\ \A i \in 1..hi - lo + 1 : second[i] = u[lo + i - 1]
      BY <2>1, <2>2, SubSeqProperties
    <2>4. Len(second) = n
      BY <1>1, <2>3 DEF lo, hi
    <2>5. \A j \in 1..n : j \in 1..hi - lo + 1 /\ lo + j - 1 = m + j
      BY <1>1 DEF lo, hi
    <2>6. QED
      BY <2>3, <2>4, <2>5
  <1> HIDE DEF first, second
  <1>6. first = s
    <2>1. Len(s) = m
      BY DEF m
    <2>2. QED
      BY <1>1, <1>4, <2>1, SeqEqual
  <1>7. second = t
    <2>1. Len(t) = n
      BY DEF n
    <2>2. QED
      BY <1>1, <1>5, <2>1, SeqEqual
  <1>8. QED
    BY <1>1, <1>6, <1>7 DEF first, second, u, m

\* What the tests of FirstComment find.
LEMMA FirstCommentProperties ==
    ASSUME NEW T, NEW m \in Seq(T)
    PROVE  /\ FirstComment(m) \in 0..Len(m)
           /\ FirstComment(m) = 0 => \A i \in 1..Len(m) : m[i].kind # "comment"
           /\ FirstComment(m) # 0 =>
                 /\ m[FirstComment(m)].kind = "comment"
                 /\ \A i \in 1..FirstComment(m) - 1 : m[i].kind # "comment"
  <1> DEFINE at == {i \in 1..Len(m) : m[i].kind = "comment"}
  <1>1. FirstComment(m) = IF at # {} THEN Min(at) ELSE 0
    BY DEF FirstComment, SelectInSeq
  <1>2. Len(m) \in Nat
    OBVIOUS
  <1>3. at \in SUBSET Nat /\ IsFiniteSet(at)
    <2>1. at \in SUBSET (1..Len(m))
      OBVIOUS
    <2>2. IsFiniteSet(1..Len(m))
      BY <1>2, FS_Interval
    <2>3. QED
      BY <1>2, <2>1, <2>2, FS_Subset
  <1>4. CASE at = {}
    BY <1>1, <1>2, <1>4
  <1>5. CASE at # {}
    <2> DEFINE c == FirstComment(m)
    <2>1. c \in at /\ \A y \in at : c <= y
      <3> HIDE DEF at
      <3>1. QED
        BY <1>1, <1>3, <1>5, MinMaxProperties
    <2>2. c \in 1..Len(m) /\ m[c].kind = "comment"
      BY <2>1
    <2> HIDE DEF c
    <2>3. \A i \in 1..c - 1 : m[i].kind # "comment"
      <3> SUFFICES ASSUME NEW i \in 1..c - 1 PROVE ~(i \in at) /\ i \in 1..Len(m)
        OBVIOUS
      <3>1. i \in 1..Len(m) /\ ~(c <= i)
        BY <1>2, <2>2
      <3>2. QED
        BY <2>1, <3>1
    <2>4. c # 0 /\ c \in 0..Len(m)
      BY <1>2, <2>2
    <2>5. QED
      BY <2>2, <2>3, <2>4 DEF c
  <1>6. QED
    BY <1>4, <1>5

\* Where a message ends and git's block begins.
Cut(m, b) ==
    /\ b \in 0..Len(m)
    /\ \A i \in 1..b : m[i].kind # "comment"
    /\ b < Len(m) => m[b + 1].kind = "comment"

\* There is such a place.
LEMMA CutExists ==
    ASSUME NEW T, NEW m \in Seq(T)
    PROVE  \E b \in 0..Len(m) : Cut(m, b)
  <1> DEFINE c == FirstComment(m)
  <1>1. Len(m) \in Nat
    OBVIOUS
  <1>2. /\ c \in 0..Len(m)
        /\ c = 0 => \A i \in 1..Len(m) : m[i].kind # "comment"
        /\ c # 0 => m[c].kind = "comment" /\ \A i \in 1..c - 1 : m[i].kind # "comment"
    BY FirstCommentProperties
  <1> HIDE DEF c
  <1>3. CASE c = 0
    <2>1. Len(m) \in 0..Len(m) /\ ~(Len(m) < Len(m))
      BY <1>1
    <2>2. Cut(m, Len(m))
      BY <1>2, <1>3, <2>1 DEF Cut
    <2>3. QED
      BY <2>1, <2>2
  <1>4. CASE c # 0
    <2>1. c - 1 \in 0..Len(m) /\ c - 1 + 1 = c
      BY <1>1, <1>2, <1>4
    <2>2. Cut(m, c - 1)
      BY <1>2, <1>4, <2>1 DEF Cut
    <2>3. QED
      BY <2>1, <2>2
  <1>5. QED
    BY <1>3, <1>4

\* It is there that Body and GitBlock part.
LEMMA CutProperties ==
    ASSUME NEW T, NEW m \in Seq(T), NEW b, Cut(m, b)
    PROVE  Body(m) = SubSeq(m, 1, b) /\ GitBlock(m) = SubSeq(m, b + 1, Len(m))
  <1> DEFINE c == FirstComment(m)
  <1>1. Len(m) \in Nat
    OBVIOUS
  <1>2. /\ c \in 0..Len(m)
        /\ c = 0 => \A i \in 1..Len(m) : m[i].kind # "comment"
        /\ c # 0 => m[c].kind = "comment" /\ \A i \in 1..c - 1 : m[i].kind # "comment"
    BY FirstCommentProperties
  <1>3. /\ Body(m) = IF c = 0 THEN m ELSE SubSeq(m, 1, c - 1)
        /\ GitBlock(m) = IF c = 0 THEN <<>> ELSE SubSeq(m, c, Len(m))
    BY DEF Body, GitBlock
  <1> HIDE DEF c
  <1>4. /\ b \in 0..Len(m)
        /\ \A i \in 1..b : m[i].kind # "comment"
        /\ b < Len(m) => m[b + 1].kind = "comment"
    BY DEF Cut
  <1>5. CASE c = 0
    <2>1. b = Len(m)
      <3>1. b < Len(m) => b + 1 \in 1..Len(m)
        BY <1>1, <1>4
      <3>2. ~(b < Len(m))
        BY <1>2, <1>4, <1>5, <3>1
      <3>3. QED
        BY <1>1, <1>4, <3>2
    <2>2. SubSeq(m, 1, Len(m)) = m
      BY SubSeqFull
    <2>3. SubSeq(m, Len(m) + 1, Len(m)) = <<>>
      <3>1. Len(m) + 1 \in Int /\ Len(m) \in Int /\ Len(m) < Len(m) + 1
        BY <1>1
      <3>2. QED
        BY <3>1, SubSeqEmpty
    <2>4. QED
      BY <1>3, <1>5, <2>1, <2>2, <2>3
  <1>6. CASE c # 0
    <2>1. ~(c <= b)
      <3>1. c <= b => c \in 1..b
        BY <1>1, <1>2, <1>4, <1>6
      <3>2. QED
        BY <1>2, <1>4, <1>6, <3>1
    <2>2. ~(b + 1 < c)
      <3>1. b + 1 < c => b < Len(m) /\ b + 1 \in 1..c - 1
        BY <1>1, <1>2, <1>4, <1>6
      <3>2. QED
        BY <1>2, <1>4, <1>6, <3>1
    <2>3. b + 1 = c /\ c - 1 = b
      BY <1>1, <1>2, <1>4, <1>6, <2>1, <2>2
    <2>4. QED
      BY <1>3, <1>6, <2>3
  <1>7. QED
    BY <1>5, <1>6

\* The body is the beginning of a message, without comments; git's block is empty or
\* begins with one.
LEMMA BodyProperties ==
    ASSUME NEW T, NEW m \in Seq(T)
    PROVE  /\ Body(m) \in Seq(T)
           /\ \A i \in DOMAIN Body(m) : /\ i \in DOMAIN m
                                        /\ Body(m)[i] = m[i]
                                        /\ m[i].kind # "comment"
           /\ GitBlock(m) \in Seq(T)
           /\ 0 < Len(GitBlock(m)) => GitBlock(m)[1].kind = "comment"
  <1>1. Len(m) \in Nat /\ DOMAIN m = 1..Len(m) /\ \A i \in 1..Len(m) : m[i] \in T
    OBVIOUS
  <1>2. PICK b \in 0..Len(m) : Cut(m, b)
    BY CutExists
  <1> DEFINE n == Len(m)
             body == SubSeq(m, 1, b)
             block == SubSeq(m, b + 1, n)
  <1>3. Body(m) = body /\ GitBlock(m) = block
    BY <1>2, CutProperties
  <1>4. /\ b \in 0..n
        /\ \A i \in 1..b : m[i].kind # "comment"
        /\ b < n => m[b + 1].kind = "comment"
    BY <1>2 DEF Cut
  <1> HIDE DEF n
  <1>5. n \in Nat /\ b \in Int /\ b + 1 \in Int /\ n \in Int /\ 0 <= b /\ b <= n
    BY <1>1, <1>4 DEF n
  <1>6. \A i \in 1..n : m[i] \in T
    BY <1>1 DEF n
  <1>7. (\A i \in 1..b : i \in 1..n) /\ (\A i \in b + 1..n : i \in 1..n)
    BY <1>5
  <1>8. /\ body \in Seq(T)
        /\ Len(body) = IF 1 <= b THEN b - 1 + 1 ELSE 0
        /\ \A i \in 1..b - 1 + 1 : body[i] = m[1 + i - 1]
    BY <1>5, <1>6, <1>7, SubSeqProperties
  <1>9. /\ block \in Seq(T)
        /\ Len(block) = IF b + 1 <= n THEN n - (b + 1) + 1 ELSE 0
        /\ \A i \in 1..n - (b + 1) + 1 : block[i] = m[b + 1 + i - 1]
    BY <1>5, <1>6, <1>7, SubSeqProperties
  <1> HIDE DEF body, block
  <1>10. DOMAIN body = 1..b
    <2>1. Len(body) = b
      BY <1>5, <1>8
    <2>2. QED
      BY <1>8, <2>1
  <1>11. \A i \in 1..b : body[i] = m[i]
    <2>1. \A i \in 1..b : i \in 1..b - 1 + 1 /\ 1 + i - 1 = i
      BY <1>5
    <2>2. QED
      BY <1>8, <2>1
  <1>12. 0 < Len(block) => block[1].kind = "comment"
    <2> SUFFICES ASSUME 0 < Len(block) PROVE block[1].kind = "comment"
      OBVIOUS
    <2>1. b < n /\ 1 \in 1..n - (b + 1) + 1 /\ b + 1 + 1 - 1 = b + 1
      BY <1>5, <1>9
    <2>2. block[1] = m[b + 1]
      BY <1>9, <2>1
    <2>3. QED
      BY <1>4, <2>1, <2>2
  <1>13. QED
    BY <1>1, <1>3, <1>4, <1>7, <1>8, <1>9, <1>10, <1>11, <1>12 DEF n

\* The credits of a body, and the rest of it.
LEMMA CreditsProperties ==
    ASSUME NEW T, NEW body \in Seq(T)
    PROVE  /\ Credits(body) \in Seq(T)
           /\ \A i \in DOMAIN Credits(body) :
                 \E j \in DOMAIN body : Credits(body)[i] = body[j] /\ body[j].kind = "credit"
           /\ WithoutCredits(body) \in Seq(T)
           /\ \A i \in DOMAIN WithoutCredits(body) :
                 \E j \in DOMAIN body : /\ WithoutCredits(body)[i] = body[j]
                                        /\ body[j].kind # "credit"
  <1> DEFINE at == {i \in DOMAIN body : body[i].kind = "credit"}
             rest == {i \in DOMAIN body : body[i].kind # "credit"}
  <1>1. /\ at \in SUBSET (DOMAIN body)
        /\ rest \in SUBSET (DOMAIN body)
        /\ \A i \in at : i \in DOMAIN body /\ body[i].kind = "credit"
        /\ \A i \in rest : i \in DOMAIN body /\ body[i].kind # "credit"
    OBVIOUS
  <1>2. Credits(body) = Pick(body, at) /\ WithoutCredits(body) = Pick(body, rest)
    BY DEF Credits, WithoutCredits
  <1> HIDE DEF at, rest
  <1>3. /\ Pick(body, at) \in Seq(T)
        /\ \A i \in 1..Cardinality(at) : Nth(at, i) \in at /\ Pick(body, at)[i] = body[Nth(at, i)]
    BY <1>1, PickProperties
  <1>4. /\ Pick(body, rest) \in Seq(T)
        /\ \A i \in 1..Cardinality(rest) :
              Nth(rest, i) \in rest /\ Pick(body, rest)[i] = body[Nth(rest, i)]
    BY <1>1, PickProperties
  <1>5. DOMAIN Pick(body, at) = 1..Cardinality(at) /\ DOMAIN Pick(body, rest) = 1..Cardinality(rest)
    BY DEF Pick
  <1>6. QED
    BY <1>1, <1>2, <1>3, <1>4, <1>5

\* A message put together from a body and a block is taken apart into the two.
LEMMA BodyOfJoin ==
    ASSUME NEW T, NEW body \in Seq(T), NEW block \in Seq(T),
           \A i \in 1..Len(body) : body[i].kind # "comment",
           0 < Len(block) => block[1].kind = "comment"
    PROVE  Body(body \o block) = body /\ GitBlock(body \o block) = block
  <1> DEFINE b == Len(body)
             n == Len(block)
             m == body \o block
  <1>1. /\ b \in Nat /\ n \in Nat /\ m \in Seq(T) /\ Len(m) = b + n
        /\ \A i \in 1..b : m[i] = body[i]
        /\ \A j \in 1..n : m[b + j] = block[j]
    BY Halves
  <1>2. SubSeq(m, 1, b) = body /\ SubSeq(m, b + 1, Len(m)) = block
    BY JoinSplits
  <1>3. (\A i \in 1..b : body[i].kind # "comment") /\ (0 < n => block[1].kind = "comment")
    OBVIOUS
  <1> HIDE DEF b, n, m
  <1>4. Cut(m, b)
    <2>1. b \in 0..Len(m)
      BY <1>1
    <2>2. \A i \in 1..b : m[i].kind # "comment"
      BY <1>1, <1>3
    <2>3. ASSUME b < Len(m) PROVE m[b + 1].kind = "comment"
      <3>1. 0 < n /\ 1 \in 1..n
        BY <1>1, <2>3
      <3>2. QED
        BY <1>1, <1>3, <3>1
    <2>4. QED
      BY <2>1, <2>2, <2>3 DEF Cut
  <1>5. Body(m) = body /\ GitBlock(m) = block
    <2>1. m \in Seq(T)
      BY <1>1
    <2>2. Body(m) = SubSeq(m, 1, b) /\ GitBlock(m) = SubSeq(m, b + 1, Len(m))
      BY <1>4, <2>1, CutProperties
    <2>3. QED
      BY <1>2, <2>2
  <1>6. QED
    BY <1>5 DEF m

\* The credits of a body that has them all at its end.
LEMMA CreditsOfJoin ==
    ASSUME NEW T, NEW rest \in Seq(T), NEW lines \in Seq(T),
           \A i \in 1..Len(rest) : rest[i].kind # "credit",
           \A i \in 1..Len(lines) : lines[i].kind = "credit"
    PROVE  Credits(rest \o lines) = lines /\ WithoutCredits(rest \o lines) = rest
  <1> DEFINE a == Len(rest)
             n == Len(lines)
             u == rest \o lines
             at == {i \in DOMAIN u : u[i].kind = "credit"}
             others == {i \in DOMAIN u : u[i].kind # "credit"}
  <1>1. /\ a \in Nat /\ n \in Nat /\ u \in Seq(T) /\ Len(u) = a + n
        /\ \A i \in 1..a : u[i] = rest[i]
        /\ \A j \in 1..n : u[a + j] = lines[j]
    BY Halves
  <1>2. SubSeq(u, 1, a) = rest /\ SubSeq(u, a + 1, Len(u)) = lines
    BY JoinSplits
  <1>3. /\ \A i \in 1..a : rest[i].kind # "credit"
        /\ \A i \in 1..n : lines[i].kind = "credit"
    OBVIOUS
  <1>4. Credits(u) = Pick(u, at) /\ WithoutCredits(u) = Pick(u, others)
    BY DEF Credits, WithoutCredits
  <1> HIDE DEF a, n, u
  <1>5. DOMAIN u = 1..a + n
    BY <1>1
  <1>6. \A i \in 1..a : i \in 1..a + n /\ u[i].kind # "credit"
    <2>1. \A i \in 1..a : i \in 1..a + n
      BY <1>1
    <2>2. QED
      BY <1>1, <1>3, <2>1
  <1>7. \A i \in a + 1..a + n : i \in 1..a + n /\ u[i].kind = "credit"
    <2> SUFFICES ASSUME NEW i \in a + 1..a + n PROVE i \in 1..a + n /\ u[i].kind = "credit"
      OBVIOUS
    <2>1. i \in 1..a + n /\ i - a \in 1..n /\ i = a + (i - a)
      BY <1>1
    <2>2. u[a + (i - a)] = lines[i - a]
      BY <1>1, <2>1
    <2>3. QED
      BY <1>3, <2>1, <2>2
  <1>8. \A i \in 1..a + n : i \in 1..a \/ i \in a + 1..a + n
    BY <1>1
  <1>9. at = a + 1..Len(u)
    <2>1. at = a + 1..a + n
      BY <1>5, <1>6, <1>7, <1>8
    <2>2. QED
      BY <1>1, <2>1
  <1>10. others = 1..a
    BY <1>5, <1>6, <1>7, <1>8
  <1> HIDE DEF at, others
  <1>11. Pick(u, at) = SubSeq(u, a + 1, Len(u))
    <2>1. a + 1 \in 1..Len(u) + 1 /\ Len(u) \in a + 1 - 1..Len(u)
      BY <1>1
    <2>2. QED
      BY <1>1, <1>9, <2>1, PickInterval
  <1>12. Pick(u, others) = SubSeq(u, 1, a)
    <2>1. 1 \in 1..Len(u) + 1 /\ a \in 1 - 1..Len(u)
      BY <1>1
    <2>2. QED
      BY <1>1, <1>10, <2>1, PickInterval
  <1>13. QED
    BY <1>2, <1>4, <1>11, <1>12 DEF u

\* A user's entry is found where there is one.
LEMMA FindProperties ==
    ASSUME NEW es \in Seq(Entry), NEW u \in ToSet(Usernames(es))
    PROVE  Find(es, u) \in 1..Len(es) /\ Get(es, u) \in Entry /\ Get(es, u).ssh = u
  <1> DEFINE at == {i \in 1..Len(es) : es[i].ssh = u}
  <1>1. Find(es, u) = IF at # {} THEN Min(at) ELSE 0
    BY DEF Find, SelectInSeq
  <1>2. Len(es) \in Nat /\ DOMAIN es = 1..Len(es) /\ \A i \in 1..Len(es) : es[i] \in Entry
    OBVIOUS
  <1>3. at # {}
    <2>1. PICK i \in DOMAIN Usernames(es) : Usernames(es)[i] = u
      BY DEF ToSet
    <2>2. i \in DOMAIN es /\ es[i].ssh = u
      BY <2>1 DEF Usernames
    <2>3. QED
      BY <1>2, <2>2
  <1>4. at \in SUBSET Nat /\ IsFiniteSet(at)
    <2>1. at \in SUBSET (1..Len(es))
      OBVIOUS
    <2>2. IsFiniteSet(1..Len(es))
      BY <1>2, FS_Interval
    <2>3. QED
      BY <1>2, <2>1, <2>2, FS_Subset
  <1>5. Find(es, u) \in at
    <2> HIDE DEF at
    <2>1. QED
      BY <1>1, <1>3, <1>4, MinMaxProperties
  <1>6. QED
    BY <1>2, <1>5 DEF Get

-----------------------------------------------------------------------------
(* Rendering and learning.                                                 *)

\* The credits of some users, each under the name that is stored for it.
LEMMA CreditLines ==
    ASSUME NEW es \in Seq(Entry), NEW order \in Seq(Identities),
           ToSet(order) \subseteq ToSet(Usernames(es))
    PROVE  LET lines == [i \in DOMAIN order |-> CreditOf(es, order[i])]
           IN  /\ lines \in Seq(Line)
               /\ Len(lines) = Len(order)
               /\ \A i \in 1..Len(lines) : lines[i] = CreditOf(es, order[i])
               /\ \A i \in 1..Len(lines) : lines[i].kind = "credit"
  <1> DEFINE lines == [i \in DOMAIN order |-> CreditOf(es, order[i])]
  <1>1. Len(order) \in Nat /\ DOMAIN order = 1..Len(order)
    OBVIOUS
  <1>2. ASSUME NEW i \in 1..Len(order)
        PROVE  CreditOf(es, order[i]) \in Line /\ CreditOf(es, order[i]).kind = "credit"
    <2> DEFINE e == Get(es, order[i])
    <2>1. order[i] \in ToSet(Usernames(es))
      BY <1>1 DEF ToSet
    <2>2. e \in Entry
      BY <2>1, FindProperties
    <2>3. CreditOf(es, order[i]) = [kind |-> "credit", name |-> e.name, email |-> e.email]
      BY DEF CreditOf, Credit
    <2> HIDE DEF e
    <2>4. e.name \in Identities /\ e.email \in Identities
      BY <2>2 DEF Entry
    <2>5. [kind |-> "credit", name |-> e.name, email |-> e.email] \in Line
      BY <2>4 DEF Line
    <2>6. QED
      BY <2>3, <2>5
  <1>3. \A i \in 1..Len(order) : lines[i] = CreditOf(es, order[i])
    BY <1>1
  <1>4. lines \in Seq(Line) /\ Len(lines) = Len(order)
    <2>1. lines \in [1..Len(order) -> Line]
      BY <1>1, <1>2
    <2> HIDE DEF lines
    <2>2. QED
      BY <1>1, <2>1
  <1>5. QED
    BY <1>2, <1>3, <1>4

\* Rendering replaces the credits of a message and leaves the rest, git's block too.
THEOREM RenderProperties ==
    ASSUME NEW es \in Seq(Entry), NEW order \in Seq(Identities), NEW m \in Seq(Line),
           ToSet(order) \subseteq ToSet(Usernames(es))
    PROVE  /\ Render(es, order, m) \in Seq(Line)
           /\ Credits(Body(Render(es, order, m))) = [i \in DOMAIN order |-> CreditOf(es, order[i])]
           /\ WithoutCredits(Body(Render(es, order, m))) = WithoutCredits(Body(m))
           /\ GitBlock(Render(es, order, m)) = GitBlock(m)
  <1> DEFINE rest == WithoutCredits(Body(m))
             lines == [i \in DOMAIN order |-> CreditOf(es, order[i])]
             block == GitBlock(m)
  <1>1. Render(es, order, m) = (rest \o lines) \o block
    BY DEF Render
  <1>2. /\ Body(m) \in Seq(Line)
        /\ \A i \in DOMAIN Body(m) : Body(m)[i].kind # "comment"
        /\ block \in Seq(Line)
        /\ 0 < Len(block) => block[1].kind = "comment"
    BY BodyProperties
  <1>3. /\ rest \in Seq(Line)
        /\ \A i \in DOMAIN rest : \E j \in DOMAIN Body(m) :
              rest[i] = Body(m)[j] /\ Body(m)[j].kind # "credit"
    BY <1>2, CreditsProperties
  <1>4. /\ lines \in Seq(Line)
        /\ \A i \in 1..Len(lines) : lines[i].kind = "credit"
    BY CreditLines
  <1> HIDE DEF rest, lines, block
  <1>5. \A i \in 1..Len(rest) : rest[i].kind # "credit" /\ rest[i].kind # "comment"
    <2>1. DOMAIN rest = 1..Len(rest)
      BY <1>3
    <2>2. QED
      BY <1>2, <1>3, <2>1
  <1> DEFINE body == rest \o lines
  <1>6. body \in Seq(Line) /\ body \o block \in Seq(Line)
    BY <1>2, <1>3, <1>4, ConcatProperties
  <1>7. \A i \in 1..Len(body) : body[i].kind # "comment"
    <2>1. /\ \A i \in 1..Len(rest) : body[i] = rest[i]
          /\ \A j \in 1..Len(lines) : body[Len(rest) + j] = lines[j]
          /\ \A i \in 1..Len(body) :
                i \in 1..Len(rest) \/ \E j \in 1..Len(lines) : i = Len(rest) + j
      BY <1>3, <1>4, Halves
    <2> HIDE DEF body
    <2>2. QED
      BY <1>4, <1>5, <2>1
  <1>8. Credits(body) = lines /\ WithoutCredits(body) = rest
    BY <1>3, <1>4, <1>5, CreditsOfJoin
  <1> HIDE DEF body
  <1>9. Body(body \o block) = body /\ GitBlock(body \o block) = block
    BY <1>2, <1>6, <1>7, BodyOfJoin
  <1>10. Render(es, order, m) = body \o block
    BY <1>1 DEF body
  <1>11. QED
    BY <1>6, <1>8, <1>9, <1>10 DEF rest, lines, block

\* Learning keeps who is remembered, in the same order, and what it takes over from
\* a line that shows its user's own name and address is that user's own.
THEOREM LearnProperties ==
    ASSUME NEW es \in Seq(Entry), NEW order \in Seq(Identities), NEW m \in Seq(Line)
    PROVE  /\ Learn(es, order, m) \in Seq(Entry)
           /\ Usernames(Learn(es, order, m)) = Usernames(es)
           /\ /\ \A i \in DOMAIN es : OwnIdentity(es[i])
              /\ \A k \in DOMAIN Credits(Body(m)) :
                    /\ Credits(Body(m))[k].name = order[k]
                    /\ Credits(Body(m))[k].email \in {order[k], NoUser}
              /\ ToSet(order) \subseteq ToSet(Usernames(es))
              => \A i \in DOMAIN Learn(es, order, m) : OwnIdentity(Learn(es, order, m)[i])
  <1> DEFINE lines == Credits(Body(m))
             linesOf(i) == {k \in DOMAIN order \cap DOMAIN lines : Find(es, order[k]) = i}
             addressed(i) == {k \in linesOf(i) : lines[k].email # NoUser}
             name(i) == IF linesOf(i) = {} THEN es[i].name ELSE lines[Max(linesOf(i))].name
             email(i) == IF addressed(i) = {} THEN es[i].email
                         ELSE lines[Max(addressed(i))].email
             learned == Learn(es, order, m)
  <1>1. learned = [i \in DOMAIN es |-> [ssh |-> es[i].ssh, name |-> name(i), email |-> email(i)]]
    BY DEF Learn
  <1>2. lines \in Seq(Line) /\ \A k \in DOMAIN lines : lines[k].kind = "credit"
    BY BodyProperties, CreditsProperties
  <1>3. /\ Len(es) \in Nat /\ DOMAIN es = 1..Len(es) /\ \A i \in 1..Len(es) : es[i] \in Entry
        /\ Len(order) \in Nat /\ DOMAIN order = 1..Len(order)
    OBVIOUS
  <1> HIDE DEF lines
  <1>4. \A k \in DOMAIN lines : lines[k].name \in Identities /\ lines[k].email \in Identities
    <2>1. \A k \in DOMAIN lines : lines[k] \in Line
      BY <1>2
    <2>2. QED
      BY <1>2, <2>1 DEF Line
  <1>5. IsFiniteSet(DOMAIN order) /\ DOMAIN order \in SUBSET Nat
    BY <1>3, FS_Interval
  <1>6. ASSUME NEW i, linesOf(i) # {} PROVE Max(linesOf(i)) \in linesOf(i)
    <2>1. linesOf(i) \in SUBSET (DOMAIN order)
      OBVIOUS
    <2> HIDE DEF linesOf
    <2>2. linesOf(i) \in SUBSET Nat /\ IsFiniteSet(linesOf(i))
      BY <1>5, <2>1, FS_Subset
    <2>3. QED
      BY <1>6, <2>2, MinMaxProperties
  <1>7. ASSUME NEW i, addressed(i) # {} PROVE Max(addressed(i)) \in addressed(i)
    <2>1. addressed(i) \in SUBSET (DOMAIN order)
      OBVIOUS
    <2> HIDE DEF addressed
    <2>2. addressed(i) \in SUBSET Nat /\ IsFiniteSet(addressed(i))
      BY <1>5, <2>1, FS_Subset
    <2>3. QED
      BY <1>7, <2>2, MinMaxProperties
  <1>8. ASSUME NEW i \in 1..Len(es) PROVE name(i) \in Identities /\ email(i) \in Identities
    <2>1. es[i].name \in Identities /\ es[i].email \in Identities
      BY <1>3 DEF Entry
    <2>2. linesOf(i) # {} => lines[Max(linesOf(i))].name \in Identities
      BY <1>4, <1>6
    <2>3. addressed(i) # {} => lines[Max(addressed(i))].email \in Identities
      BY <1>4, <1>7
    <2>4. QED
      BY <2>1, <2>2, <2>3
  <1>9. ASSUME \A i \in DOMAIN es : OwnIdentity(es[i]),
               \A k \in DOMAIN lines : /\ lines[k].name = order[k]
                                       /\ lines[k].email \in {order[k], NoUser},
               ToSet(order) \subseteq ToSet(Usernames(es)),
               NEW i \in 1..Len(es)
        PROVE  name(i) = es[i].ssh /\ email(i) \in {es[i].ssh, NoUser}
    <2>1. es[i].name = es[i].ssh /\ es[i].email \in {es[i].ssh, NoUser}
      BY <1>3, <1>9 DEF OwnIdentity
    <2>2. ASSUME NEW k \in linesOf(i) PROVE order[k] = es[i].ssh
      <3>1. order[k] \in ToSet(Usernames(es))
        BY <1>9 DEF ToSet
      <3>2. Get(es, order[k]).ssh = order[k]
        BY <3>1, FindProperties
      <3>3. Get(es, order[k]) = es[i]
        BY DEF Get
      <3>4. QED
        BY <3>2, <3>3
    <2>3. linesOf(i) # {} => lines[Max(linesOf(i))].name = es[i].ssh
      <3>1. \A k \in linesOf(i) : lines[k].name = es[i].ssh
        BY <1>9, <2>2
      <3>2. QED
        BY <1>6, <3>1
    <2>4. addressed(i) # {} => lines[Max(addressed(i))].email = es[i].ssh
      <3>1. \A k \in addressed(i) : lines[k].email = es[i].ssh
        BY <1>9, <2>2
      <3>2. QED
        BY <1>7, <3>1
    <2>5. QED
      BY <2>1, <2>3, <2>4
  <1> HIDE DEF linesOf, addressed, name, email, learned
  <1>10. ASSUME NEW i \in 1..Len(es)
         PROVE  learned[i] = [ssh |-> es[i].ssh, name |-> name(i), email |-> email(i)]
    BY <1>1, <1>3
  <1>11. DOMAIN learned = 1..Len(es)
    BY <1>1, <1>3
  <1>12. ASSUME NEW i \in 1..Len(es)
         PROVE  /\ learned[i] \in Entry
                /\ learned[i].ssh = es[i].ssh
                /\ learned[i].name = name(i)
                /\ learned[i].email = email(i)
    <2> DEFINE x == es[i].ssh
               y == name(i)
               z == email(i)
               e == learned[i]
    <2>1. x \in Identities
      BY <1>3 DEF Entry
    <2>2. y \in Identities /\ z \in Identities
      BY <1>8
    <2>3. e = [ssh |-> x, name |-> y, email |-> z]
      BY <1>10
    <2> HIDE DEF x, y, z, e
    <2>4. e \in Entry /\ e.ssh = x /\ e.name = y /\ e.email = z
      BY <2>1, <2>2, <2>3 DEF Entry
    <2>5. QED
      BY <2>4 DEF x, y, z, e
  <1>13. learned \in Seq(Entry)
    <2>1. learned \in [1..Len(es) -> Entry]
      BY <1>1, <1>3, <1>12
    <2>2. QED
      BY <1>3, <2>1
  <1>14. Usernames(learned) = Usernames(es)
    BY <1>3, <1>11, <1>12 DEF Usernames
  <1>15. ASSUME \A i \in DOMAIN es : OwnIdentity(es[i]),
                \A k \in DOMAIN lines : /\ lines[k].name = order[k]
                                        /\ lines[k].email \in {order[k], NoUser},
                ToSet(order) \subseteq ToSet(Usernames(es)),
                NEW i \in DOMAIN learned
         PROVE  OwnIdentity(learned[i])
    <2>1. i \in 1..Len(es)
      BY <1>11
    <2>2. name(i) = es[i].ssh /\ email(i) \in {es[i].ssh, NoUser}
      BY <1>9, <1>15, <2>1
    <2>3. /\ learned[i].ssh = es[i].ssh
          /\ learned[i].name = name(i)
          /\ learned[i].email = email(i)
      BY <1>12, <2>1
    <2>4. QED
      BY <2>2, <2>3 DEF OwnIdentity
  <1>16. QED
    BY <1>13, <1>14, <1>15 DEF lines, learned

\* The comment on Render in coauthor.go, line 142: rendering a message again changes
\* nothing.
THEOREM RenderIsIdempotent ==
    ASSUME NEW es \in Seq(Entry), NEW order \in Seq(Identities), NEW m \in Seq(Line),
           ToSet(order) \subseteq ToSet(Usernames(es))
    PROVE  Render(es, order, Render(es, order, m)) = Render(es, order, m)
  <1> DEFINE r == Render(es, order, m)
             lines == [i \in DOMAIN order |-> CreditOf(es, order[i])]
  <1>1. WithoutCredits(Body(r)) = WithoutCredits(Body(m)) /\ GitBlock(r) = GitBlock(m)
    BY RenderProperties
  <1>2. /\ Render(es, order, r) = WithoutCredits(Body(r)) \o lines \o GitBlock(r)
        /\ r = WithoutCredits(Body(m)) \o lines \o GitBlock(m)
    BY DEF Render
  <1> HIDE DEF r, lines
  <1>3. Render(es, order, r) = r
    BY <1>1, <1>2
  <1>4. QED
    BY <1>3 DEF r

\* What was rendered and saved unedited teaches `record' nothing: each line is read back
\* into the entry that it was made of.
THEOREM LearningReadsBack ==
    ASSUME NEW es \in Seq(Entry), NEW order \in Seq(Identities), NEW m \in Seq(Line),
           ToSet(order) \subseteq ToSet(Usernames(es))
    PROVE  Learn(es, order, Render(es, order, m)) = es
  <1> DEFINE r == Render(es, order, m)
             lines == Credits(Body(r))
             linesOf(i) == {k \in DOMAIN order \cap DOMAIN lines : Find(es, order[k]) = i}
             addressed(i) == {k \in linesOf(i) : lines[k].email # NoUser}
             name(i) == IF linesOf(i) = {} THEN es[i].name ELSE lines[Max(linesOf(i))].name
             email(i) == IF addressed(i) = {} THEN es[i].email
                         ELSE lines[Max(addressed(i))].email
             learned == Learn(es, order, r)
  <1>1. learned = [i \in DOMAIN es |-> [ssh |-> es[i].ssh, name |-> name(i), email |-> email(i)]]
    BY DEF Learn
  <1>2. lines = [k \in DOMAIN order |-> CreditOf(es, order[k])]
    BY RenderProperties
  <1>3. r \in Seq(Line)
    BY RenderProperties
  <1>4. /\ DOMAIN es = 1..Len(es) /\ \A i \in 1..Len(es) : es[i] \in Entry
        /\ Len(order) \in Nat /\ DOMAIN order = 1..Len(order)
    OBVIOUS
  <1> HIDE DEF r, lines
  <1>5. IsFiniteSet(DOMAIN order) /\ DOMAIN order \in SUBSET Nat
    BY <1>4, FS_Interval
  <1>6. ASSUME NEW i, NEW S \in SUBSET linesOf(i), S # {}
        PROVE  lines[Max(S)].name = es[i].name /\ lines[Max(S)].email = es[i].email
    <2>1. S \in SUBSET Nat /\ IsFiniteSet(S)
      <3>1. S \in SUBSET (DOMAIN order)
        OBVIOUS
      <3>2. QED
        BY <1>5, <3>1, FS_Subset
    <2>2. Max(S) \in S
      BY <1>6, <2>1, MinMaxProperties
    <2> DEFINE k == Max(S)
    <2>3. k \in DOMAIN order /\ Find(es, order[k]) = i
      BY <2>2
    <2> HIDE DEF k
    <2>4. lines[k] = [kind |-> "credit", name |-> es[i].name, email |-> es[i].email]
      BY <1>2, <2>3 DEF CreditOf, Credit, Get
    <2>5. lines[k].name = es[i].name /\ lines[k].email = es[i].email
      BY <2>4
    <2>6. QED
      BY <2>5 DEF k
  <1>7. ASSUME NEW i \in 1..Len(es) PROVE name(i) = es[i].name /\ email(i) = es[i].email
    <2>1. linesOf(i) # {} => lines[Max(linesOf(i))].name = es[i].name
      BY <1>6
    <2>2. addressed(i) # {} => lines[Max(addressed(i))].email = es[i].email
      <3>1. addressed(i) \in SUBSET linesOf(i)
        OBVIOUS
      <3>2. QED
        BY <1>6, <3>1
    <2>3. QED
      BY <2>1, <2>2
  <1> HIDE DEF linesOf, addressed, name, email, learned
  <1>8. \A e \in Entry : [ssh |-> e.ssh, name |-> e.name, email |-> e.email] = e
    BY DEF Entry
  <1>9. ASSUME NEW i \in 1..Len(es) PROVE learned[i] = es[i]
    <2>1. learned[i] = [ssh |-> es[i].ssh, name |-> name(i), email |-> email(i)]
      BY <1>1, <1>4
    <2>2. learned[i] = [ssh |-> es[i].ssh, name |-> es[i].name, email |-> es[i].email]
      BY <1>7, <2>1
    <2>3. QED
      BY <1>4, <1>8, <2>2
  <1>10. learned \in Seq(Entry) /\ DOMAIN learned = 1..Len(es)
    BY <1>1, <1>3, <1>4, LearnProperties DEF learned
  <1>11. learned = es
    <2>1. Len(learned) = Len(es)
      BY <1>10
    <2>2. QED
      BY <1>9, <1>10, <2>1, SeqEqual
  <1>12. QED
    BY <1>11 DEF learned, r

-----------------------------------------------------------------------------
(* What each variable holds, at every step.                                *)

\* A list of users, each once.
Crowd == {us \in Seq(Users) : IsInjective(us)}

\* TypeOK but for who the store remembers.
Shape ==
    /\ connected \in Crowd
    /\ store \in Seq(Entry)
    /\ hook \in [Commits -> {"prepare", "record"}]
    /\ pc \in [Commits -> {"idle", "read", "load", "apply", "save", "write", "edit", "done"}]
    /\ users \in [Commits -> Crowd]
    /\ entries \in [Commits -> Seq(Entry)]
    /\ msg \in [Commits -> Seq(Line)]
    /\ remembered \in Seq(Identities)
    /\ disturbances \subseteq {"churn", "edit", "overlap", "failure"}

\* Part of a sequence.
LEMMA PartOfSeq ==
    ASSUME NEW T, NEW s \in Seq(T), NEW a \in Nat \ {0}, NEW b \in 0..Len(s)
    PROVE  SubSeq(s, a, b) \in Seq(T)
  <1>1. a \in Int /\ b \in Int /\ \A i \in a..b : i \in 1..Len(s)
    OBVIOUS
  <1>2. \A i \in 1..Len(s) : s[i] \in T
    OBVIOUS
  <1>3. \A i \in a..b : s[i] \in T
    BY <1>1, <1>2
  <1>4. QED
    BY <1>1, <1>3, SubSeqProperties

\* Someone who joins at the end of a list, not being on it yet.
LEMMA NewAtTheEnd ==
    ASSUME NEW T, NEW s \in Seq(T), IsInjective(s), NEW x \in T, x \notin Range(s)
    PROVE  Append(s, x) \in Seq(T) /\ IsInjective(Append(s, x))
  <1>1. <<x>> \in Seq(T) /\ IsInjective(<<x>>) /\ Range(<<x>>) = {x}
    BY DEF IsInjective, Range
  <1>2. Append(s, x) = s \o <<x>>
    BY AppendIsConcat
  <1>3. Append(s, x) \in Seq(T)
    BY AppendProperties
  <1>4. Range(s) \cap Range(<<x>>) = {}
    BY <1>1
  <1>5. IsInjective(s \o <<x>>)
    BY <1>1, <1>4, JoinInjective
  <1>6. QED
    BY <1>2, <1>3, <1>5

\* A template is a message of named lines.
LEMMA TemplatesAreTyped == Templates \subseteq Seq(Line)
  <1>1. Text \in Line /\ Comment \in Line
    BY DEF Text, Comment, Line, Identities
  <1>2. \A u \in Users : Credit(u, u) \in Line
    BY DEF Credit, Line, Identities
  <1>3. \A a, b, c \in Line : <<a>> \in Seq(Line) /\ <<a, b, c>> \in Seq(Line)
    OBVIOUS
  <1>4. QED
    BY <1>1, <1>2, <1>3 DEF Templates

\* The list that the hooks work with, whichever they are.
LEMMA HookLists ==
    ASSUME NEW es \in Seq(Entry), NEW us \in Seq(Users)
    PROVE  /\ Remembering(es, us) \in Seq(Entry)
           /\ Order(es, us) \in Seq(Identities)
           /\ ToSet(Order(es, us)) = ToSet(us)
           /\ ToSet(us) \subseteq ToSet(Usernames(Remembering(es, us)))
  BY RememberingProperties, RememberedNames, OrderProperties

\* What stays of a store that is cut in the middle of a line is made of lines.
LEMMA PiecesOfStores ==
    ASSUME NEW s \in Seq(Entry)
    PROVE  Beginnings(s) \subseteq Seq(Entry) /\ Endings(s) \subseteq Seq(Entry)
  <1>1. Len(s) \in Nat /\ DOMAIN s = 1..Len(s)
    OBVIOUS
  <1>2. CutLines \subseteq Entry
    BY DEF CutLines, Entry, Identities
  <1>3. \A n \in 0..Len(s) : SubSeq(s, 1, n) \in Seq(Entry)
    BY PartOfSeq
  <1>4. \A n \in 1..Len(s) + 1 : SubSeq(s, n, Len(s)) \in Seq(Entry)
    <2>1. \A n \in 1..Len(s) + 1 : n \in Nat \ {0}
      BY <1>1
    <2>2. Len(s) \in 0..Len(s)
      BY <1>1
    <2>3. QED
      BY <2>1, <2>2, PartOfSeq
  <1>5. ASSUME NEW n \in DOMAIN s, NEW cut \in CutLines
        PROVE  /\ Append(SubSeq(s, 1, n - 1), cut) \in Seq(Entry)
               /\ <<cut>> \o SubSeq(s, n + 1, Len(s)) \in Seq(Entry)
    <2>1. n - 1 \in 0..Len(s) /\ n + 1 \in 1..Len(s) + 1
      BY <1>1
    <2>2. SubSeq(s, 1, n - 1) \in Seq(Entry) /\ SubSeq(s, n + 1, Len(s)) \in Seq(Entry)
      BY <1>3, <1>4, <2>1
    <2>3. cut \in Entry /\ <<cut>> \in Seq(Entry)
      BY <1>2
    <2>4. QED
      BY <2>2, <2>3, AppendProperties, ConcatProperties
  <1>6. ASSUME NEW b \in Beginnings(s) PROVE b \in Seq(Entry)
    <2>1. \/ \E n \in 0..Len(s) : b = SubSeq(s, 1, n)
          \/ \E n \in DOMAIN s, cut \in CutLines : b = Append(SubSeq(s, 1, n - 1), cut)
      BY <1>6 DEF Beginnings
    <2>2. QED
      BY <1>3, <1>5, <2>1
  <1>7. ASSUME NEW e \in Endings(s) PROVE e \in Seq(Entry)
    <2>1. \/ \E n \in 1..Len(s) + 1 : e = SubSeq(s, n, Len(s))
          \/ \E n \in DOMAIN s, cut \in CutLines : e = <<cut>> \o SubSeq(s, n + 1, Len(s))
      BY <1>7 DEF Endings
    <2>2. QED
      BY <1>4, <1>5, <2>1
  <1>8. QED
    BY <1>6, <1>7

\* Every step keeps what the variables hold.
LEMMA StepShape ==
    ASSUME Shape, [Next]_vars
    PROVE  Shape'
  <1> USE DEF Shape
  <1>1. ASSUME NEW u \in Users, Connect(u) PROVE Shape'
    <2>1. u \notin Range(connected)
      BY <1>1 DEF Connect, ToSet, Range
    <2>2. connected' \in Crowd
      BY <1>1, <2>1, NewAtTheEnd DEF Connect, Crowd
    <2>3. disturbances' \subseteq {"churn", "edit", "overlap", "failure"}
      BY <1>1 DEF Connect, Disturbed
    <2>4. QED
      BY <1>1, <2>2, <2>3 DEF Connect
  <1>2. ASSUME NEW u \in Users, Disconnect(u) PROVE Shape'
    <2>1. connected' \in Crowd
      BY <1>2, WithoutProperties DEF Disconnect, Crowd
    <2>2. disturbances' \subseteq {"churn", "edit", "overlap", "failure"}
      BY <1>2 DEF Disconnect, Disturbed
    <2>3. QED
      BY <1>2, <2>1, <2>2 DEF Disconnect
  <1>3. ASSUME NEW k \in Commits, NEW template \in Templates, Begin(k, template) PROVE Shape'
    <2>1. template \in Seq(Line)
      BY TemplatesAreTyped
    <2>2. disturbances' \subseteq {"churn", "edit", "overlap", "failure"}
      BY <1>3 DEF Begin, Disturbed
    <2>3. QED
      BY <1>3, <2>1, <2>2 DEF Begin, Goto
  <1>4. ASSUME NEW k \in Commits, FillEmail(k) PROVE Shape'
    <2>1. PICK i \in DOMAIN Body(msg[k]) :
             msg[k][i].kind = "credit" /\ msg' = [msg EXCEPT ![k][i].email = msg[k][i].name]
      BY <1>4 DEF FillEmail
    <2> DEFINE m == msg[k]
               line == [m[i] EXCEPT !.email = m[i].name]
    <2>2. m \in Seq(Line) /\ i \in DOMAIN m
      BY <2>1, BodyProperties
    <2>3. m[i] \in Line
      BY <2>2
    <2>4. line \in Line
      <3> DEFINE l == m[i]
      <3> HIDE DEF l
      <3>1. l \in Line => [l EXCEPT !.email = l.name] \in Line
        BY DEF Line
      <3>2. QED
        BY <2>3, <3>1 DEF l
    <2>5. msg' = [msg EXCEPT ![k] = [m EXCEPT ![i] = line]]
      BY <2>1
    <2> HIDE DEF m, line
    <2>6. [m EXCEPT ![i] = line] \in Seq(Line)
      BY <2>2, <2>4, ExceptSeq
    <2>7. msg' \in [Commits -> Seq(Line)]
      BY <2>5, <2>6
    <2>8. QED
      BY <1>4, <2>7 DEF FillEmail
  <1>5. ASSUME NEW k \in Commits, DropCredit(k) PROVE Shape'
    <2>1. PICK i \in DOMAIN Body(msg[k]) : msg' = [msg EXCEPT ![k] = RemoveAt(@, i)]
      BY <1>5 DEF DropCredit
    <2> DEFINE m == msg[k]
    <2>2. m \in Seq(Line) /\ i \in DOMAIN m
      BY <2>1, BodyProperties
    <2>3. msg' = [msg EXCEPT ![k] = RemoveAt(m, i)]
      BY <2>1
    <2> HIDE DEF m
    <2>4. /\ i - 1 \in 0..Len(m) /\ Len(m) \in 0..Len(m)
          /\ 1 \in Nat \ {0} /\ i + 1 \in Nat \ {0}
      BY <2>2
    <2>5. SubSeq(m, 1, i - 1) \in Seq(Line) /\ SubSeq(m, i + 1, Len(m)) \in Seq(Line)
      BY <2>2, <2>4, PartOfSeq
    <2>6. RemoveAt(m, i) \in Seq(Line)
      BY <2>5, ConcatProperties DEF RemoveAt
    <2>7. msg' \in [Commits -> Seq(Line)]
      BY <2>3, <2>6
    <2>8. disturbances' \subseteq {"churn", "edit", "overlap", "failure"}
      BY <1>5 DEF DropCredit, Disturbed
    <2>9. QED
      BY <1>5, <2>7, <2>8 DEF DropCredit
  <1>6. ASSUME NEW k \in Commits, SaveMessage(k) PROVE Shape'
    BY <1>6 DEF SaveMessage, Goto
  <1>7. ASSUME NEW k \in Commits, Abort(k) PROVE Shape'
    <2>1. <<>> \in Crowd /\ <<>> \in Seq(Entry) /\ <<>> \in Seq(Line)
      BY EmptySeq DEF Crowd, IsInjective
    <2>2. /\ users' \in [Commits -> Crowd]
          /\ entries' \in [Commits -> Seq(Entry)]
          /\ msg' \in [Commits -> Seq(Line)]
      BY <1>7, <2>1 DEF Abort, Forgets
    <2>3. QED
      BY <1>7, <2>2 DEF Abort
  <1>8. ASSUME NEW k \in Commits, ReadConnected(k) PROVE Shape'
    BY <1>8 DEF ReadConnected, Goto
  <1>9. ASSUME NEW k \in Commits, LoadStore(k) PROVE Shape'
    BY <1>9 DEF LoadStore, Goto
  <1>10. ASSUME NEW k \in Commits, Prepare(k) PROVE Shape'
    <2> DEFINE all == Remembering(entries[k], users[k])
               order == Order(entries[k], users[k])
    <2>1. /\ all \in Seq(Entry) /\ order \in Seq(Identities)
          /\ ToSet(order) \subseteq ToSet(Usernames(all))
      BY HookLists DEF Crowd
    <2>2. /\ entries' = [entries EXCEPT ![k] = all]
          /\ msg' = [msg EXCEPT ![k] = Render(all, order, msg[k])]
      BY <1>10 DEF Prepare
    <2> HIDE DEF all, order
    <2>3. Render(all, order, msg[k]) \in Seq(Line)
      BY <2>1, RenderProperties
    <2>4. entries' \in [Commits -> Seq(Entry)] /\ msg' \in [Commits -> Seq(Line)]
      BY <2>1, <2>2, <2>3
    <2>5. QED
      BY <1>10, <2>4 DEF Prepare, Goto
  <1>11. ASSUME NEW k \in Commits, Record(k) PROVE Shape'
    <2> DEFINE all == Remembering(entries[k], users[k])
               order == Order(entries[k], users[k])
    <2>1. all \in Seq(Entry) /\ order \in Seq(Identities)
      BY HookLists DEF Crowd
    <2>2. entries' = [entries EXCEPT ![k] = Learn(all, order, msg[k])]
      BY <1>11 DEF Record
    <2> HIDE DEF all, order
    <2>3. Learn(all, order, msg[k]) \in Seq(Entry)
      BY <2>1, LearnProperties
    <2>4. entries' \in [Commits -> Seq(Entry)]
      BY <2>2, <2>3
    <2>5. QED
      BY <1>11, <2>4 DEF Record, Goto
  <1>12. ASSUME NEW k \in Commits, EmptyStore(k) PROVE Shape'
    <2>1. store' \in Seq(Entry)
      BY <1>12, EmptySeq DEF EmptyStore
    <2>2. QED
      BY <1>12, <2>1 DEF EmptyStore, Goto
  <1>13. ASSUME NEW k \in Commits, WriteStore(k) PROVE Shape'
    <2>1. PICK rest \in {<<>>} \cup Endings(store) : store' = entries[k] \o rest
      BY <1>13 DEF WriteStore
    <2>2. rest \in Seq(Entry) /\ entries[k] \in Seq(Entry)
      BY EmptySeq, PiecesOfStores
    <2>3. store' \in Seq(Entry)
      BY <2>1, <2>2, ConcatProperties
    <2>4. remembered' \in Seq(Identities)
      <3>1. remembered' = Usernames(store')
        BY <1>13 DEF WriteStore
      <3>2. QED
        BY <2>3, <3>1, UsernamesProperties
    <2>5. <<>> \in Crowd /\ <<>> \in Seq(Entry) /\ <<>> \in Seq(Line)
      BY EmptySeq DEF Crowd, IsInjective
    <2>6. users' \in [Commits -> Crowd] /\ entries' \in [Commits -> Seq(Entry)]
      BY <1>13, <2>5 DEF WriteStore, Forgets
    <2>7. msg' \in [Commits -> Seq(Line)]
      BY <1>13, <2>5 DEF WriteStore
    <2>8. pc' \in [Commits -> {"idle", "read", "load", "apply", "save", "write", "edit", "done"}]
      BY <1>13 DEF WriteStore, Goto
    <2>9. UNCHANGED <<connected, hook, disturbances>>
      BY <1>13 DEF WriteStore
    <2>10. QED
      BY <2>3, <2>4, <2>6, <2>7, <2>8, <2>9
  <1>14. ASSUME NEW k \in Commits, SaveFails(k) PROVE Shape'
    <2>1. PICK begun \in Beginnings(entries[k]), rest \in Endings(store) :
             store' = begun \o rest
      BY <1>14 DEF SaveFails
    <2>2. begun \in Seq(Entry) /\ rest \in Seq(Entry)
      <3>1. entries[k] \in Seq(Entry)
        OBVIOUS
      <3>2. QED
        BY <3>1, PiecesOfStores
    <2>3. store' \in Seq(Entry)
      BY <2>1, <2>2, ConcatProperties
    <2>4. <<>> \in Crowd /\ <<>> \in Seq(Entry) /\ <<>> \in Seq(Line)
      BY EmptySeq DEF Crowd, IsInjective
    <2>5. users' \in [Commits -> Crowd] /\ entries' \in [Commits -> Seq(Entry)]
      BY <1>14, <2>4 DEF SaveFails, Forgets
    <2>6. msg' \in [Commits -> Seq(Line)]
      BY <1>14, <2>4 DEF SaveFails
    <2>7. disturbances' \subseteq {"churn", "edit", "overlap", "failure"}
      BY <1>14 DEF SaveFails, Disturbed
    <2>8. pc' \in [Commits -> {"idle", "read", "load", "apply", "save", "write", "edit", "done"}]
      BY <1>14 DEF SaveFails, Goto
    <2>9. UNCHANGED <<connected, hook, remembered>>
      BY <1>14 DEF SaveFails
    <2>10. QED
      BY <2>3, <2>5, <2>6, <2>7, <2>8, <2>9
  <1>15. CASE UNCHANGED vars
    BY <1>15 DEF vars
  <1>16. QED
    BY <1>1, <1>2, <1>3, <1>4, <1>5, <1>6, <1>7, <1>8, <1>9, <1>10, <1>11, <1>12, <1>13,
       <1>14, <1>15 DEF Next, Git, Hook

-----------------------------------------------------------------------------
(* Which hook runs, and how many.                                          *)

\* A commit that has not been edited yet runs `prepare'.
HookInv == \A k \in Commits : pc[k] \in {"idle", "edit"} => hook[k] = "prepare"

\* A user is remembered at the same position and once in what a hook works on.
Continues(es) == IsInjective(Usernames(es)) /\ IsPrefix(remembered, Usernames(es))

\* While each save has been alone and complete, at most one commit is under way, what it
\* works on continues what is remembered, and the store is that or, while it is written,
\* empty.
SoloInv ==
    Intact =>
        /\ \A j, k \in UnderWay : j = k
        /\ \A k \in Commits : pc[k] \in {"apply", "save", "write"} => Continues(entries[k])
        /\ \A k \in Commits : pc[k] = "write" => store = <<>>
        /\ (\A k \in Commits : pc[k] # "write") => Usernames(store) = remembered
        /\ IsInjective(remembered)

\* Every step keeps HookInv.
LEMMA StepHook ==
    ASSUME Shape, HookInv, [Next]_vars
    PROVE  HookInv'
  <1> USE DEF Shape, HookInv
  <1>1. ASSUME NEW u \in Users, Connect(u) \/ Disconnect(u) PROVE HookInv'
    BY <1>1 DEF Connect, Disconnect
  <1>2. ASSUME NEW k \in Commits, Git(k) PROVE HookInv'
    BY <1>2 DEF Git, Begin, FillEmail, DropCredit, SaveMessage, Abort, Goto
  <1>3. ASSUME NEW k \in Commits, Hook(k) PROVE HookInv'
    BY <1>3 DEF Hook, ReadConnected, LoadStore, Prepare, Record, EmptyStore, WriteStore,
           SaveFails, Goto
  <1>4. CASE UNCHANGED vars
    BY <1>4 DEF vars
  <1>5. QED
    BY <1>1, <1>2, <1>3, <1>4 DEF Next

\* What has disturbed the commits is never forgotten.
LEMMA DisturbancesGrow ==
    ASSUME [Next]_vars
    PROVE  disturbances \subseteq disturbances' /\ (Intact' => Intact)
  <1>1. disturbances \subseteq disturbances'
    BY DEF Next, Git, Hook, Connect, Disconnect, Begin, FillEmail, DropCredit, SaveMessage,
           Abort, ReadConnected, LoadStore, Prepare, Record, EmptyStore, WriteStore,
           SaveFails, Disturbed, vars
  <1>2. QED
    BY <1>1 DEF Intact

\* A commit under way is the only one while each save has been alone and complete.
LEMMA OnlyOne ==
    ASSUME Shape, SoloInv, Intact,
           NEW k \in Commits, pc[k] \notin {"idle", "done"}
    PROVE  \A j \in Commits : j # k => pc[j] \in {"idle", "done"}
  BY DEF SoloInv, UnderWay

\* What is saved over an emptied store is what was worked on.
LEMMA SavedAlone ==
    ASSUME Shape, store = <<>>, NEW k \in Commits, WriteStore(k)
    PROVE  store' = entries[k]
  <1>1. entries[k] \in Seq(Entry) /\ <<>> \in Seq(Entry) /\ Len(entries[k]) \in Nat
    BY EmptySeq DEF Shape
  <1>2. IsPrefix(<<>>, entries[k])
    <2>1. Len(<<>>) = 0 /\ 0 <= Len(entries[k]) /\ 1..0 = {}
      BY <1>1
    <2>2. \A es \in Seq(Entry) : Len(<<>>) <= Len(es) => IsPrefix(<<>>, es)
      BY <1>1, <2>1, PrefixProperties
    <2>3. QED
      BY <1>1, <2>1, <2>2
  <1>3. store' = entries[k] \o <<>>
    BY <1>2 DEF WriteStore
  <1>4. QED
    BY <1>1, <1>3, ConcatEmptySeq

\* What remembering more users does to what a hook works on.
LEMMA RememberingContinues ==
    ASSUME Shape, NEW es \in Seq(Entry), NEW us \in Crowd, Continues(es)
    PROVE  Continues(Remembering(es, us))
  BY RememberedNames DEF Shape, Crowd, Continues

\* Every step keeps SoloInv.
LEMMA StepSolo ==
    ASSUME Shape, SoloInv, [Next]_vars
    PROVE  SoloInv'
  <1> SUFFICES ASSUME Intact'
               PROVE  SoloInv'
    BY DEF SoloInv
  <1>0. Intact
    BY DisturbancesGrow
  <1>1. /\ \A j, k \in UnderWay : j = k
        /\ \A k \in Commits : pc[k] \in {"apply", "save", "write"} => Continues(entries[k])
        /\ \A k \in Commits : pc[k] = "write" => store = <<>>
        /\ (\A k \in Commits : pc[k] # "write") => Usernames(store) = remembered
        /\ IsInjective(remembered)
    BY <1>0 DEF SoloInv
  <1>2. ASSUME UNCHANGED <<pc, entries, store, remembered>> PROVE SoloInv'
    BY <1>1, <1>2 DEF SoloInv, UnderWay, Continues
  <1>3. ASSUME NEW k \in Commits, NEW template \in Templates, Begin(k, template) PROVE SoloInv'
    <2>1. UnderWay = {}
      BY <1>3 DEF Begin, Disturbed, Intact
    <2>2. pc' = [pc EXCEPT ![k] = "read"] /\ UNCHANGED <<entries, store, remembered>>
      BY <1>3 DEF Begin, Goto
    <2>3. \A j \in Commits : pc[j] \in {"idle", "done"}
      BY <2>1 DEF UnderWay
    <2>4. QED
      BY <1>1, <2>2, <2>3 DEF SoloInv, UnderWay, Shape
  <1>4. ASSUME NEW k \in Commits, NEW from \in {"edit", "read"}, NEW to \in {"read", "load"},
               Goto(k, from, to), UNCHANGED <<entries, store, remembered>>
        PROVE  SoloInv'
    <2>1. UnderWay' = UnderWay
      BY <1>4 DEF UnderWay, Goto, Shape
    <2>2. \A j \in Commits :
             /\ pc'[j] = "write" <=> pc[j] = "write"
             /\ pc'[j] \in {"apply", "save", "write"} => pc[j] \in {"apply", "save", "write"}
      BY <1>4 DEF Goto, Shape
    <2>3. QED
      BY <1>1, <1>4, <2>1, <2>2 DEF SoloInv, Continues
  <1>5. ASSUME NEW k \in Commits, Abort(k) PROVE SoloInv'
    <2>1. UnderWay' \subseteq UnderWay
      BY <1>5 DEF UnderWay, Abort, Shape
    <2>2. \A j \in Commits :
             /\ pc'[j] = "write" <=> pc[j] = "write"
             /\ pc'[j] \in {"apply", "save", "write"} =>
                   pc[j] \in {"apply", "save", "write"} /\ entries'[j] = entries[j]
      BY <1>5 DEF Abort, Forgets, Shape
    <2>3. UNCHANGED <<store, remembered>>
      BY <1>5 DEF Abort
    <2>4. QED
      BY <1>1, <2>1, <2>2, <2>3 DEF SoloInv, Continues
  <1>6. ASSUME NEW k \in Commits, pc[k] \in {"load", "apply"},
               NEW es, entries' = [entries EXCEPT ![k] = es], Continues(es),
               pc' \in {[pc EXCEPT ![k] = "apply"], [pc EXCEPT ![k] = "save"]},
               UNCHANGED <<store, remembered>>
        PROVE  SoloInv'
    <2>1. UnderWay' = UnderWay
      BY <1>6 DEF UnderWay, Shape
    <2>2. \A j \in Commits :
             /\ pc'[j] = "write" <=> pc[j] = "write"
             /\ j # k => pc'[j] = pc[j] /\ entries'[j] = entries[j]
             /\ j = k => entries'[j] = es
      BY <1>6 DEF Shape
    <2>3. QED
      BY <1>1, <1>6, <2>1, <2>2 DEF SoloInv, Continues
  <1>7. ASSUME NEW k \in Commits, LoadStore(k) PROVE SoloInv'
    <2>1. pc[k] = "load" /\ pc' = [pc EXCEPT ![k] = "apply"]
          /\ entries' = [entries EXCEPT ![k] = store] /\ UNCHANGED <<store, remembered>>
      BY <1>7 DEF LoadStore, Goto
    <2>2. \A j \in Commits : pc[j] # "write"
      BY <1>0, <2>1, OnlyOne
    <2>3. Usernames(store) = remembered /\ IsInjective(remembered)
      BY <1>1, <2>2
    <2>4. IsPrefix(remembered, remembered)
      <3>1. remembered \in Seq(Identities) /\ Len(remembered) \in Nat
        BY DEF Shape
      <3>2. QED
        BY <3>1, PrefixProperties
    <2>5. Continues(store)
      BY <2>3, <2>4 DEF Continues
    <2>6. QED
      BY <1>6, <2>1, <2>5
  <1>8. ASSUME NEW k \in Commits, Prepare(k) \/ Record(k) PROVE SoloInv'
    <2> DEFINE all == Remembering(entries[k], users[k])
               order == Order(entries[k], users[k])
               es == IF Prepare(k) THEN all ELSE Learn(all, order, msg[k])
    <2>1. /\ pc[k] = "apply" /\ pc' = [pc EXCEPT ![k] = "save"]
          /\ entries' = [entries EXCEPT ![k] = es] /\ UNCHANGED <<store, remembered>>
      BY <1>8 DEF Prepare, Record, Goto
    <2>2. Continues(all)
      <3>1. entries[k] \in Seq(Entry) /\ users[k] \in Crowd /\ Continues(entries[k])
        BY <1>1, <2>1 DEF Shape
      <3>2. QED
        BY <3>1, RememberingContinues
    <2>3. Usernames(es) = Usernames(all)
      <3>1. /\ entries[k] \in Seq(Entry) /\ users[k] \in Seq(Users)
            /\ msg[k] \in Seq(Line)
        BY DEF Shape, Crowd
      <3>2. all \in Seq(Entry) /\ order \in Seq(Identities)
        BY <3>1, HookLists
      <3> HIDE DEF all, order
      <3>3. QED
        BY <3>1, <3>2, LearnProperties
    <2>4. Continues(es)
      BY <2>2, <2>3 DEF Continues
    <2> HIDE DEF es
    <2>5. QED
      BY <1>6, <2>1, <2>4
  <1>9. ASSUME NEW k \in Commits, EmptyStore(k) PROVE SoloInv'
    <2>1. /\ pc[k] = "save" /\ pc' = [pc EXCEPT ![k] = "write"]
          /\ store' = <<>> /\ UNCHANGED <<entries, remembered>>
      BY <1>9 DEF EmptyStore, Goto
    <2>2. UnderWay' = UnderWay
      BY <2>1 DEF UnderWay, Shape
    <2>3. pc'[k] = "write" /\ \A j \in Commits : j # k => pc'[j] = pc[j]
      BY <2>1 DEF Shape
    <2>4. QED
      BY <1>1, <2>1, <2>2, <2>3 DEF SoloInv, Continues
  <1>10. ASSUME NEW k \in Commits, WriteStore(k) PROVE SoloInv'
    <2>1. /\ pc[k] = "write"
          /\ \A j \in Commits : j # k => pc'[j] = pc[j]
          /\ pc'[k] \in {"edit", "done"}
          /\ remembered' = Usernames(store')
      BY <1>10 DEF WriteStore, Goto, Shape
    <2>2. store = <<>> /\ Continues(entries[k])
      BY <1>1, <2>1
    <2>3. store' = entries[k]
      BY <1>10, <2>2, SavedAlone
    <2>4. \A j \in Commits : j # k => pc'[j] \in {"idle", "done"}
      BY <1>0, <2>1, OnlyOne
    <2>5. IsInjective(remembered')
      BY <2>1, <2>2, <2>3 DEF Continues
    <2>6. UnderWay' \subseteq {k}
      BY <2>4 DEF UnderWay
    <2>7. \A j \in Commits : pc'[j] \in {"idle", "done", "edit"}
      BY <2>1, <2>4
    <2>8. QED
      BY <2>1, <2>5, <2>6, <2>7 DEF SoloInv
  <1>11. CASE UNCHANGED vars
    BY <1>2, <1>11 DEF vars
  <1>12. ASSUME NEW k \in Commits, SaveMessage(k) \/ ReadConnected(k) PROVE SoloInv'
    BY <1>4, <1>12 DEF SaveMessage, ReadConnected
  <1>13. ASSUME NEW k \in Commits, FillEmail(k) \/ DropCredit(k) PROVE SoloInv'
    BY <1>2, <1>13 DEF FillEmail, DropCredit
  <1>14. ASSUME NEW u \in Users, Connect(u) \/ Disconnect(u) PROVE SoloInv'
    BY <1>2, <1>14 DEF Connect, Disconnect
  <1>15. \A k \in Commits : ~SaveFails(k)
    BY DEF SaveFails, Disturbed, Intact
  <1>16. QED
    BY <1>3, <1>5, <1>7, <1>8, <1>9, <1>10, <1>11, <1>12, <1>13, <1>14, <1>15
       DEF Next, Git, Hook

-----------------------------------------------------------------------------
(* What the lines of a message say, and to whom each belongs.              *)

OwnBook(es) == \A i \in DOMAIN es : OwnIdentity(es[i])

\* Each credit of a message is a user's own line, in the order that a store has for
\* the users connected, all of whom it remembers.
Fits(m, es, us) ==
    LET order == Among(Usernames(es), ToSet(us))
        lines == Credits(Body(m))
    IN  /\ ToSet(us) \subseteq ToSet(Usernames(es))
        /\ Len(lines) = Len(order)
        /\ \A i \in DOMAIN lines : lines[i].name = order[i] /\ lines[i].email \in {order[i], NoUser}

\* A message that `prepare' has written and `record' has yet to read.
Prepared(k) ==
    \/ hook[k] = "prepare" /\ pc[k] \in {"save", "write", "edit"}
    \/ hook[k] = "record" /\ pc[k] \in {"read", "load", "apply"}

\* The store a commit's hook works on: its own copy, once it has loaded one.
Book(k) == IF pc[k] \in {"apply", "save", "write"} THEN entries[k] ELSE store

\* While nothing has disturbed a commit, every identity is its user's own and a
\* prepared message is in the order that `record' will find.
CalmInv ==
    disturbances = {} =>
        /\ OwnBook(store)
        /\ \A k \in Commits :
              /\ OwnBook(entries[k])
              /\ pc[k] \in {"load", "apply", "save", "write"} => users[k] = connected
              /\ Prepared(k) => Fits(msg[k], Book(k), connected)

\* A list and the positions it has.
LEMMA SeqDomain ==
    ASSUME NEW T, NEW s \in Seq(T)
    PROVE  Len(s) \in Nat /\ DOMAIN s = 1..Len(s) /\ \A i \in 1..Len(s) : s[i] \in T
  OBVIOUS

\* A list of own identities stays one when new users join it.
LEMMA RememberingOwn ==
    ASSUME NEW es \in Seq(Entry), NEW us \in Seq(Users), OwnBook(es)
    PROVE  OwnBook(Remembering(es, us))
  <1> DEFINE all == Remembering(es, us)
  <1>1. /\ all \in Seq(Entry)
        /\ \A i \in 1..Len(all) : (i <= Len(es) /\ all[i] = es[i]) \/ OwnIdentity(all[i])
    BY RememberingProperties
  <1> HIDE DEF all
  <1>2. Len(all) \in Nat /\ DOMAIN all = 1..Len(all) /\ Len(es) \in Nat /\ DOMAIN es = 1..Len(es)
    BY <1>1, SeqDomain
  <1>3. \A i \in 1..Len(all) : i <= Len(es) => i \in DOMAIN es
    BY <1>2
  <1>4. OwnBook(all)
    BY <1>1, <1>2, <1>3 DEF OwnBook
  <1>5. QED
    BY <1>4 DEF all

\* The credits of own identities are own lines: what `prepare' writes fits.
LEMMA RenderFits ==
    ASSUME NEW es \in Seq(Entry), NEW us \in Seq(Users), NEW m \in Seq(Line),
           OwnBook(es)
    PROVE  LET all == Remembering(es, us)
           IN  Fits(Render(all, Order(es, us), m), all, us)
  <1> DEFINE all == Remembering(es, us)
             order == Order(es, us)
             lines == Credits(Body(Render(all, order, m)))
  <1>1. /\ all \in Seq(Entry) /\ order \in Seq(Identities)
        /\ ToSet(order) = ToSet(us)
        /\ ToSet(us) \subseteq ToSet(Usernames(all))
    BY HookLists
  <1>2. OwnBook(all)
    BY RememberingOwn
  <1>3. order = Among(Usernames(all), ToSet(us))
    BY DEF Order
  <1> HIDE DEF all, order
  <1>4. lines = [i \in DOMAIN order |-> CreditOf(all, order[i])]
    BY <1>1, RenderProperties
  <1> HIDE DEF lines
  <1>5. /\ Len(lines) = Len(order)
        /\ \A i \in 1..Len(lines) : lines[i] = CreditOf(all, order[i])
    BY <1>1, <1>4, CreditLines
  <1>6. DOMAIN lines = 1..Len(order) /\ DOMAIN order = 1..Len(order)
    BY <1>1, <1>4
  <1>7. ASSUME NEW i \in DOMAIN lines
        PROVE  lines[i].name = order[i] /\ lines[i].email \in {order[i], NoUser}
    <2> DEFINE e == Get(all, order[i])
    <2>1. order[i] \in ToSet(Usernames(all))
      BY <1>1, <1>6 DEF ToSet
    <2>2. e.ssh = order[i] /\ Find(all, order[i]) \in DOMAIN all
      BY <1>1, <2>1, FindProperties
    <2>3. OwnIdentity(e)
      BY <1>2, <2>2 DEF OwnBook, Get
    <2>4. lines[i] = [kind |-> "credit", name |-> e.name, email |-> e.email]
      BY <1>5, <1>6 DEF CreditOf, Credit
    <2> HIDE DEF e
    <2>5. QED
      BY <2>2, <2>3, <2>4 DEF OwnIdentity
  <1>8. Fits(Render(all, order, m), all, us)
    BY <1>1, <1>3, <1>5, <1>7 DEF Fits, lines
  <1>9. QED
    BY <1>8 DEF all, order

\* What `record' learns from lines that fit is each user's own.
LEMMA LearnFits ==
    ASSUME NEW es \in Seq(Entry), NEW us \in Seq(Users), NEW m \in Seq(Line),
           OwnBook(es), Fits(m, es, us)
    PROVE  OwnBook(Learn(Remembering(es, us), Order(es, us), m))
  <1> DEFINE all == Remembering(es, us)
             order == Order(es, us)
             lines == Credits(Body(m))
  <1>1. /\ all \in Seq(Entry) /\ order \in Seq(Identities)
        /\ ToSet(order) = ToSet(us)
        /\ ToSet(us) \subseteq ToSet(Usernames(all))
    BY HookLists
  <1>2. OwnBook(all)
    BY RememberingOwn
  <1>3. Usernames(all) = Usernames(es)
    BY RememberedNames DEF Fits
  <1>4. order = Among(Usernames(es), ToSet(us))
    BY <1>3 DEF Order
  <1> HIDE DEF all, order
  <1>5. \A k \in DOMAIN lines : lines[k].name = order[k] /\ lines[k].email \in {order[k], NoUser}
    BY <1>4 DEF Fits
  <1>6. \A i \in DOMAIN all : OwnIdentity(all[i])
    BY <1>2 DEF OwnBook
  <1>7. \A i \in DOMAIN Learn(all, order, m) : OwnIdentity(Learn(all, order, m)[i])
    BY <1>1, <1>5, <1>6, LearnProperties
  <1>8. QED
    BY <1>7 DEF OwnBook, all, order

\* The body of a message up to where it is cut.
LEMMA CutBody ==
    ASSUME NEW T, NEW m \in Seq(T), NEW b, Cut(m, b)
    PROVE  DOMAIN Body(m) = 1..b
  <1>1. b \in 0..Len(m) /\ Len(m) \in Nat
    BY DEF Cut
  <1>2. \A i \in 1..b : m[i] \in T
    BY <1>1
  <1>3. 1 \in Int /\ b \in Int
    BY <1>1
  <1>4. /\ SubSeq(m, 1, b) \in Seq(T)
        /\ Len(SubSeq(m, 1, b)) = IF 1 <= b THEN b - 1 + 1 ELSE 0
    BY <1>2, <1>3, SubSeqProperties
  <1>5. Len(SubSeq(m, 1, b)) = b
    BY <1>1, <1>4
  <1>6. Body(m) = SubSeq(m, 1, b)
    BY CutProperties
  <1>7. QED
    BY <1>4, <1>5, <1>6, SeqDomain

\* A user who completes a line changes no credit but for its address.
LEMMA FillKeepsCredits ==
    ASSUME NEW m \in Seq(Line), NEW n \in Seq(Line), Len(n) = Len(m),
           \A i \in 1..Len(m) : /\ n[i].kind = m[i].kind
                                /\ n[i].name = m[i].name
                                /\ n[i].email \in {m[i].email, m[i].name}
    PROVE  /\ Len(Credits(Body(n))) = Len(Credits(Body(m)))
           /\ \A i \in DOMAIN Credits(Body(n)) :
                 /\ i \in DOMAIN Credits(Body(m))
                 /\ Credits(Body(n))[i].name = Credits(Body(m))[i].name
                 /\ Credits(Body(n))[i].email
                       \in {Credits(Body(m))[i].email, Credits(Body(m))[i].name}
  <1>1. PICK b \in 0..Len(m) : Cut(m, b)
    BY CutExists
  <1>2. Cut(n, b)
    <2>1. Len(m) \in Nat /\ \A i \in 1..b : i \in 1..Len(m)
      BY <1>1
    <2>2. b < Len(m) => b + 1 \in 1..Len(m)
      BY <1>1, <2>1
    <2>3. QED
      BY <1>1, <2>1, <2>2 DEF Cut
  <1> DEFINE old == Body(m)
             new == Body(n)
             at == {i \in 1..b : old[i].kind = "credit"}
  <1>3. DOMAIN old = 1..b /\ DOMAIN new = 1..b
    BY <1>1, <1>2, CutBody
  <1>4. /\ old \in Seq(Line) /\ \A i \in DOMAIN old : i \in DOMAIN m /\ old[i] = m[i]
        /\ new \in Seq(Line) /\ \A i \in DOMAIN new : i \in DOMAIN n /\ new[i] = n[i]
    BY BodyProperties
  <1>5. \A i \in 1..b : /\ new[i].kind = old[i].kind
                        /\ new[i].name = old[i].name
                        /\ new[i].email \in {old[i].email, old[i].name}
    <2>1. DOMAIN m = 1..Len(m)
      OBVIOUS
    <2> HIDE DEF old, new
    <2>2. QED
      BY <1>3, <1>4, <2>1
  <1> HIDE DEF old, new
  <1>6. Credits(old) = Pick(old, at)
    BY <1>3 DEF Credits
  <1>7. Credits(new) = Pick(new, at)
    <2>1. {i \in DOMAIN new : new[i].kind = "credit"} = at
      BY <1>3, <1>5
    <2>2. QED
      BY <2>1 DEF Credits
  <1>8. at \in SUBSET (1..b)
    OBVIOUS
  <1> HIDE DEF at
  <1>9. /\ Pick(old, at) \in Seq(Line)
        /\ Len(Pick(old, at)) = Cardinality(at)
        /\ \A i \in 1..Cardinality(at) : Nth(at, i) \in at /\ Pick(old, at)[i] = old[Nth(at, i)]
    <2>1. at \in SUBSET (DOMAIN old)
      BY <1>3, <1>8
    <2>2. QED
      BY <1>4, <2>1, PickProperties
  <1>10. /\ Pick(new, at) \in Seq(Line)
         /\ Len(Pick(new, at)) = Cardinality(at)
         /\ \A i \in 1..Cardinality(at) : Nth(at, i) \in at /\ Pick(new, at)[i] = new[Nth(at, i)]
    <2>1. at \in SUBSET (DOMAIN new)
      BY <1>3, <1>8
    <2>2. QED
      BY <1>4, <2>1, PickProperties
  <1>11. DOMAIN Pick(old, at) = 1..Cardinality(at) /\ DOMAIN Pick(new, at) = 1..Cardinality(at)
    BY DEF Pick
  <1>12. ASSUME NEW i \in DOMAIN Pick(new, at)
         PROVE  /\ i \in DOMAIN Pick(old, at)
                /\ Pick(new, at)[i].name = Pick(old, at)[i].name
                /\ Pick(new, at)[i].email \in {Pick(old, at)[i].email, Pick(old, at)[i].name}
    <2>1. i \in 1..Cardinality(at)
      BY <1>11
    <2>2. Nth(at, i) \in 1..b
      BY <1>8, <1>9, <2>1
    <2>3. Pick(new, at)[i] = new[Nth(at, i)] /\ Pick(old, at)[i] = old[Nth(at, i)]
      BY <1>9, <1>10, <2>1
    <2>4. QED
      BY <1>5, <1>11, <2>1, <2>2, <2>3
  <1>13. QED
    BY <1>6, <1>7, <1>9, <1>10, <1>12 DEF old, new

\* When only one commit is under way, CalmInv is about that one.
LEMMA CalmOfOne ==
    ASSUME SoloInv, CalmInv, disturbances = {}, disturbances' = {},
           NEW k \in Commits,
           \A j \in Commits : j # k => pc'[j] \in {"idle", "done"} /\ entries'[j] = entries[j],
           OwnBook(store'), OwnBook(entries'[k]),
           pc'[k] \in {"load", "apply", "save", "write"} => users'[k] = connected',
           Prepared(k)' => Fits(msg'[k], Book(k)', connected')
    PROVE  CalmInv'
  <1>1. ASSUME NEW j \in Commits, j # k
        PROVE  /\ OwnBook(entries'[j])
               /\ pc'[j] \notin {"load", "apply", "save", "write"}
               /\ ~Prepared(j)'
    BY <1>1 DEF CalmInv, Prepared
  <1>2. QED
    BY <1>1 DEF CalmInv

\* Every step keeps CalmInv.
LEMMA StepCalm ==
    ASSUME Shape, HookInv, SoloInv, CalmInv, [Next]_vars
    PROVE  CalmInv'
  <1> SUFFICES ASSUME disturbances' = {}
               PROVE  CalmInv'
    BY DEF CalmInv
  <1>0. disturbances = {} /\ Intact
    BY DisturbancesGrow DEF Intact
  <1>1. /\ OwnBook(store)
        /\ \A k \in Commits :
              /\ OwnBook(entries[k])
              /\ pc[k] \in {"load", "apply", "save", "write"} => users[k] = connected
              /\ Prepared(k) => Fits(msg[k], Book(k), connected)
    BY <1>0 DEF CalmInv
  <1>t. /\ connected \in Seq(Users)
        /\ \A k \in Commits : /\ users[k] \in Seq(Users)
                              /\ entries[k] \in Seq(Entry)
                              /\ msg[k] \in Seq(Line)
                              /\ hook[k] \in {"prepare", "record"}
    BY DEF Shape, Crowd
  <1>o. ASSUME NEW k \in Commits, pc[k] \notin {"idle", "done"}
        PROVE  \A j \in Commits : j # k => pc[j] \in {"idle", "done"}
    BY <1>0, <1>o, OnlyOne
  <1>e. OwnBook(<<>>)
    BY DEF OwnBook
  <1>2. ASSUME NEW u \in Users, Connect(u) \/ Disconnect(u) PROVE CalmInv'
    <2>1. UnderWay = {} /\ UNCHANGED <<store, hook, pc, users, entries, msg>>
      BY <1>2 DEF Connect, Disconnect, Disturbed
    <2>2. \A k \in Commits : pc'[k] \in {"idle", "done"}
      BY <2>1 DEF UnderWay
    <2>3. \A k \in Commits : ~Prepared(k)'
      BY <2>2 DEF Prepared
    <2>4. QED
      BY <1>1, <2>1, <2>2, <2>3 DEF CalmInv
  <1>3. ASSUME NEW k \in Commits, NEW template \in Templates, Begin(k, template) PROVE CalmInv'
    <2>1. UnderWay = {} /\ UNCHANGED <<store, hook, entries, connected>>
      BY <1>3 DEF Begin, Disturbed
    <2>2. pc[k] = "idle" /\ pc' = [pc EXCEPT ![k] = "read"] /\ hook[k] = "prepare"
      BY <1>3 DEF Begin, Goto, HookInv
    <2>3. \A j \in Commits : j # k => pc'[j] \in {"idle", "done"} /\ entries'[j] = entries[j]
      BY <2>1, <2>2 DEF UnderWay
    <2>4. pc'[k] = "read"
      BY <2>2 DEF Shape
    <2>5. ~Prepared(k)'
      BY <2>1, <2>2, <2>4 DEF Prepared
    <2>6. QED
      BY <1>0, <1>1, <2>1, <2>3, <2>4, <2>5, CalmOfOne
  <1>4. ASSUME NEW k \in Commits, FillEmail(k) PROVE CalmInv'
    <2>1. /\ pc[k] = "edit"
          /\ UNCHANGED <<connected, store, hook, pc, users, entries>>
      BY <1>4 DEF FillEmail
    <2>2. PICK i \in DOMAIN Body(msg[k]) :
             msg' = [msg EXCEPT ![k][i].email = msg[k][i].name]
      BY <1>4 DEF FillEmail
    <2> DEFINE m == msg[k]
               n == [m EXCEPT ![i] = [m[i] EXCEPT !.email = m[i].name]]
    <2>3. msg'[k] = n
      BY <2>2 DEF Shape
    <2>4. m \in Seq(Line) /\ msg'[k] \in Seq(Line)
      <3>1. Shape'
        BY StepShape
      <3>2. QED
        BY <3>1 DEF Shape
    <2>5. \A l \in Line : LET f == [l EXCEPT !.email = l.name]
                               IN  f.kind = l.kind /\ f.name = l.name /\ f.email = l.name
      BY DEF Line
    <2>6. i \in DOMAIN m /\ DOMAIN m = 1..Len(m) /\ \A j \in 1..Len(m) : m[j] \in Line
      BY <2>4, BodyProperties
    <2>7. Len(n) = Len(m)
      BY <2>4, <2>6
    <2>8. ASSUME NEW j \in 1..Len(m)
          PROVE  /\ n[j].kind = m[j].kind
                 /\ n[j].name = m[j].name
                 /\ n[j].email \in {m[j].email, m[j].name}
      <3>1. n[j] = IF j = i THEN [m[i] EXCEPT !.email = m[i].name] ELSE m[j]
        BY <2>6
      <3> HIDE DEF n, m
      <3>2. QED
        BY <2>5, <2>6, <3>1
    <2> DEFINE old == Credits(Body(m))
               new == Credits(Body(n))
    <2>9. /\ Len(new) = Len(old)
          /\ \A j \in DOMAIN new : /\ j \in DOMAIN old
                                   /\ new[j].name = old[j].name
                                   /\ new[j].email \in {old[j].email, old[j].name}
      <3> HIDE DEF n, m
      <3>1. n \in Seq(Line)
        BY <2>3, <2>4
      <3>2. QED
        BY <2>4, <2>7, <2>8, <3>1, FillKeepsCredits
    <2>10. Prepared(k) /\ Fits(m, store, connected)
      <3>1. hook[k] = "prepare"
        BY <2>1 DEF HookInv
      <3>2. Prepared(k) /\ Book(k) = store
        BY <2>1, <3>1 DEF Prepared, Book
      <3>3. QED
        BY <1>1, <3>2
    <2> HIDE DEF m, n
    <2>11. Fits(n, store, connected)
      <3> DEFINE order == Among(Usernames(store), ToSet(connected))
      <3>1. /\ ToSet(connected) \subseteq ToSet(Usernames(store))
            /\ Len(old) = Len(order)
            /\ \A j \in DOMAIN old : old[j].name = order[j] /\ old[j].email \in {order[j], NoUser}
        BY <2>10 DEF Fits
      <3> HIDE DEF order, old, new
      <3>2. Len(new) = Len(order)
        BY <2>9, <3>1
      <3>3. \A j \in DOMAIN new : new[j].name = order[j] /\ new[j].email \in {order[j], NoUser}
        BY <2>9, <3>1
      <3>4. QED
        BY <3>1, <3>2, <3>3 DEF Fits, order, new
    <2>12. Book(k)' = store
      BY <2>1 DEF Book
    <2>13. \A j \in Commits : j # k => pc'[j] \in {"idle", "done"} /\ entries'[j] = entries[j]
      BY <1>o, <2>1
    <2>14. pc'[k] = "edit"
      BY <2>1
    <2>15. QED
      BY <1>0, <1>1, <2>1, <2>3, <2>11, <2>12, <2>13, <2>14, CalmOfOne
  <1>5. ASSUME NEW k \in Commits, DropCredit(k) PROVE FALSE
    BY <1>5 DEF DropCredit, Disturbed
  <1>6. ASSUME NEW k \in Commits, SaveMessage(k) PROVE CalmInv'
    <2>1. /\ pc[k] = "edit" /\ pc' = [pc EXCEPT ![k] = "read"] /\ hook[k] = "prepare"
          /\ UNCHANGED <<connected, store, users, entries, msg>>
      BY <1>6 DEF SaveMessage, Goto, HookInv
    <2>2. pc'[k] = "read" /\ \A j \in Commits : j # k => pc'[j] = pc[j]
      BY <2>1 DEF Shape
    <2>3. Prepared(k) /\ Book(k)' = Book(k)
      BY <2>1, <2>2 DEF Prepared, Book
    <2>4. Fits(msg'[k], Book(k)', connected')
      BY <1>1, <2>1, <2>3
    <2>5. \A j \in Commits : j # k => pc'[j] \in {"idle", "done"} /\ entries'[j] = entries[j]
      BY <1>o, <2>1, <2>2
    <2>6. QED
      BY <1>0, <1>1, <2>1, <2>2, <2>4, <2>5, CalmOfOne
  <1>7. ASSUME NEW k \in Commits, Abort(k) PROVE CalmInv'
    <2>1. /\ pc[k] \notin {"idle", "done"} /\ pc' = [pc EXCEPT ![k] = "done"]
          /\ entries' = [entries EXCEPT ![k] = <<>>]
          /\ UNCHANGED <<connected, store>>
      BY <1>7 DEF Abort, Forgets
    <2>2. /\ pc'[k] = "done" /\ entries'[k] = <<>>
          /\ \A j \in Commits : j # k => pc'[j] = pc[j] /\ entries'[j] = entries[j]
      BY <2>1 DEF Shape
    <2>3. ~Prepared(k)'
      BY <2>2 DEF Prepared
    <2>4. \A j \in Commits : j # k => pc'[j] \in {"idle", "done"} /\ entries'[j] = entries[j]
      BY <1>o, <2>1, <2>2
    <2>5. QED
      BY <1>0, <1>1, <1>e, <2>1, <2>2, <2>3, <2>4, CalmOfOne
  <1>8. ASSUME NEW k \in Commits, ReadConnected(k) PROVE CalmInv'
    <2>1. /\ pc[k] = "read" /\ pc' = [pc EXCEPT ![k] = "load"]
          /\ users' = [users EXCEPT ![k] = connected]
          /\ UNCHANGED <<connected, store, hook, entries, msg>>
      BY <1>8 DEF ReadConnected, Goto
    <2>2. /\ pc'[k] = "load" /\ users'[k] = connected'
          /\ \A j \in Commits : j # k => pc'[j] = pc[j]
      BY <2>1 DEF Shape
    <2>3. (Prepared(k)' => Prepared(k)) /\ Book(k)' = Book(k)
      BY <2>1, <2>2 DEF Prepared, Book
    <2>4. Prepared(k)' => Fits(msg'[k], Book(k)', connected')
      BY <1>1, <2>1, <2>3
    <2>5. \A j \in Commits : j # k => pc'[j] \in {"idle", "done"} /\ entries'[j] = entries[j]
      BY <1>o, <2>1, <2>2
    <2>6. QED
      BY <1>0, <1>1, <2>1, <2>2, <2>4, <2>5, CalmOfOne
  <1>9. ASSUME NEW k \in Commits, LoadStore(k) PROVE CalmInv'
    <2>1. /\ pc[k] = "load" /\ pc' = [pc EXCEPT ![k] = "apply"]
          /\ entries' = [entries EXCEPT ![k] = store]
          /\ UNCHANGED <<connected, store, hook, users, msg>>
      BY <1>9 DEF LoadStore, Goto
    <2>2. /\ pc'[k] = "apply" /\ entries'[k] = store
          /\ \A j \in Commits : j # k => pc'[j] = pc[j] /\ entries'[j] = entries[j]
      BY <2>1 DEF Shape
    <2>3. users'[k] = connected'
      BY <1>1, <2>1
    <2>4. (Prepared(k)' => Prepared(k)) /\ Book(k)' = Book(k)
      BY <2>1, <2>2 DEF Prepared, Book
    <2>5. Prepared(k)' => Fits(msg'[k], Book(k)', connected')
      BY <1>1, <2>1, <2>4
    <2>6. \A j \in Commits : j # k => pc'[j] \in {"idle", "done"} /\ entries'[j] = entries[j]
      BY <1>o, <2>1, <2>2
    <2>7. QED
      BY <1>0, <1>1, <2>1, <2>2, <2>3, <2>5, <2>6, CalmOfOne
  <1>10. ASSUME NEW k \in Commits, Prepare(k) PROVE CalmInv'
    <2> DEFINE all == Remembering(entries[k], users[k])
               order == Order(entries[k], users[k])
    <2>1. /\ pc[k] = "apply" /\ pc' = [pc EXCEPT ![k] = "save"]
          /\ entries' = [entries EXCEPT ![k] = all]
          /\ msg' = [msg EXCEPT ![k] = Render(all, order, msg[k])]
          /\ UNCHANGED <<connected, store, hook, users>>
      BY <1>10 DEF Prepare, Goto
    <2>2. users[k] = connected /\ OwnBook(entries[k])
      BY <1>1, <2>1
    <2>3. OwnBook(all)
      BY <1>t, <2>2, RememberingOwn
    <2>4. Fits(Render(all, order, msg[k]), all, users[k])
      BY <1>t, <2>2, RenderFits
    <2> HIDE DEF all, order
    <2>5. /\ pc'[k] = "save" /\ entries'[k] = all /\ msg'[k] = Render(all, order, msg[k])
          /\ \A j \in Commits : j # k => pc'[j] = pc[j] /\ entries'[j] = entries[j]
      BY <2>1 DEF Shape
    <2>6. Fits(msg'[k], Book(k)', connected') /\ users'[k] = connected'
      BY <2>1, <2>2, <2>4, <2>5 DEF Book
    <2>7. \A j \in Commits : j # k => pc'[j] \in {"idle", "done"} /\ entries'[j] = entries[j]
      BY <1>o, <2>1, <2>5
    <2>8. QED
      BY <1>0, <1>1, <2>1, <2>3, <2>5, <2>6, <2>7, CalmOfOne
  <1>11. ASSUME NEW k \in Commits, Record(k) PROVE CalmInv'
    <2> DEFINE learned ==
                 Learn(Remembering(entries[k], users[k]), Order(entries[k], users[k]), msg[k])
    <2>1. /\ hook[k] = "record"
          /\ pc[k] = "apply" /\ pc' = [pc EXCEPT ![k] = "save"]
          /\ entries' = [entries EXCEPT ![k] = learned]
          /\ UNCHANGED <<connected, store, hook, users, msg>>
      BY <1>11 DEF Record, Goto
    <2>2. Prepared(k) /\ Book(k) = entries[k]
      BY <2>1 DEF Prepared, Book
    <2>3. users[k] = connected /\ OwnBook(entries[k]) /\ Fits(msg[k], entries[k], connected)
      BY <1>1, <2>1, <2>2
    <2>4. OwnBook(learned)
      BY <1>t, <2>3, LearnFits
    <2> HIDE DEF learned
    <2>5. /\ pc'[k] = "save" /\ entries'[k] = learned
          /\ \A j \in Commits : j # k => pc'[j] = pc[j] /\ entries'[j] = entries[j]
      BY <2>1 DEF Shape
    <2>6. ~Prepared(k)' /\ users'[k] = connected'
      BY <2>1, <2>3, <2>5 DEF Prepared
    <2>7. \A j \in Commits : j # k => pc'[j] \in {"idle", "done"} /\ entries'[j] = entries[j]
      BY <1>o, <2>1, <2>5
    <2>8. QED
      BY <1>0, <1>1, <2>1, <2>4, <2>5, <2>6, <2>7, CalmOfOne
  <1>12. ASSUME NEW k \in Commits, EmptyStore(k) PROVE CalmInv'
    <2>1. /\ pc[k] = "save" /\ pc' = [pc EXCEPT ![k] = "write"] /\ store' = <<>>
          /\ UNCHANGED <<connected, hook, users, entries, msg>>
      BY <1>12 DEF EmptyStore, Goto
    <2>2. pc'[k] = "write" /\ \A j \in Commits : j # k => pc'[j] = pc[j]
      BY <2>1 DEF Shape
    <2>3. (Prepared(k)' => Prepared(k)) /\ Book(k)' = Book(k) /\ users'[k] = connected'
      BY <1>1, <2>1, <2>2 DEF Prepared, Book
    <2>4. Prepared(k)' => Fits(msg'[k], Book(k)', connected')
      BY <1>1, <2>1, <2>3
    <2>5. \A j \in Commits : j # k => pc'[j] \in {"idle", "done"} /\ entries'[j] = entries[j]
      BY <1>o, <2>1, <2>2
    <2>6. QED
      BY <1>0, <1>1, <1>e, <2>1, <2>3, <2>4, <2>5, CalmOfOne
  <1>13. ASSUME NEW k \in Commits, WriteStore(k) PROVE CalmInv'
    <2>1. /\ pc[k] = "write"
          /\ pc' = [pc EXCEPT ![k] = IF hook[k] = "prepare" THEN "edit" ELSE "done"]
          /\ entries' = [entries EXCEPT ![k] = <<>>]
          /\ msg' = [msg EXCEPT ![k] = IF hook[k] = "prepare" THEN @ ELSE <<>>]
          /\ UNCHANGED <<connected, hook>>
      BY <1>13 DEF WriteStore, Goto, Forgets
    <2>2. /\ pc'[k] = IF hook[k] = "prepare" THEN "edit" ELSE "done"
          /\ msg'[k] = IF hook[k] = "prepare" THEN msg[k] ELSE <<>>
          /\ entries'[k] = <<>>
          /\ \A j \in Commits : j # k => pc'[j] = pc[j] /\ entries'[j] = entries[j]
      BY <2>1 DEF Shape
    <2>3. store' = entries[k]
      <3>1. store = <<>>
        BY <1>0, <2>1 DEF SoloInv
      <3>2. QED
        BY <1>13, <3>1, SavedAlone
    <2>4. Prepared(k)' => Prepared(k) /\ msg'[k] = msg[k]
      BY <2>1, <2>2 DEF Prepared
    <2>5. Book(k) = entries[k] /\ Book(k)' = store'
      <3>1. pc[k] = "write" /\ pc'[k] \notin {"apply", "save", "write"}
        BY <2>1, <2>2
      <3>2. QED
        BY <3>1 DEF Book
    <2>6. Prepared(k)' => Fits(msg'[k], Book(k)', connected')
      BY <1>1, <2>1, <2>3, <2>4, <2>5
    <2>7. \A j \in Commits : j # k => pc'[j] \in {"idle", "done"} /\ entries'[j] = entries[j]
      BY <1>o, <2>1, <2>2
    <2>8. pc'[k] \notin {"load", "apply", "save", "write"}
      BY <2>2
    <2>9. OwnBook(store') /\ OwnBook(entries'[k])
      BY <1>1, <1>e, <2>2, <2>3
    <2>10. QED
      BY <1>0, <2>6, <2>7, <2>8, <2>9, CalmOfOne
  <1>14. CASE UNCHANGED vars
    <2>1. UNCHANGED <<connected, store, hook, pc, users, entries, msg>>
      BY <1>14 DEF vars
    <2>2. \A k \in Commits : (Prepared(k)' <=> Prepared(k)) /\ Book(k)' = Book(k)
      BY <2>1 DEF Prepared, Book
    <2>3. QED
      BY <1>1, <2>1, <2>2 DEF CalmInv
  <1>15. \A k \in Commits : ~SaveFails(k)
    BY DEF SaveFails, Disturbed
  <1>16. QED
    BY <1>2, <1>3, <1>4, <1>5, <1>6, <1>7, <1>8, <1>9, <1>10, <1>11, <1>12, <1>13, <1>14,
       <1>15 DEF Next, Git, Hook

-----------------------------------------------------------------------------
(* The theorems.                                                           *)

\* The inductive invariant.
HInv == Shape /\ HookInv /\ SoloInv /\ CalmInv

\* It holds at the start.
LEMMA InitHInv == Init => HInv
  <1> SUFFICES ASSUME Init PROVE HInv
    OBVIOUS
  <1>1. /\ <<>> \in Seq(Identities) /\ <<>> \in Seq(Entry) /\ <<>> \in Seq(Line)
        /\ <<>> \in Crowd
    BY EmptySeq DEF Crowd, IsInjective
  <1>2. Shape
    BY <1>1 DEF Init, Shape
  <1>3. HookInv
    BY DEF Init, HookInv
  <1>4. SoloInv
    <2>1. UnderWay = {}
      BY DEF Init, UnderWay
    <2>2. Usernames(<<>>) = <<>> /\ IsInjective(<<>>)
      BY DEF Usernames, IsInjective
    <2>3. QED
      BY <2>1, <2>2 DEF Init, SoloInv
  <1>5. CalmInv
    BY DEF Init, CalmInv, OwnBook, Prepared
  <1>6. QED
    BY <1>2, <1>3, <1>4, <1>5 DEF HInv

\* Every behaviour of the commit helper keeps it.
THEOREM Invariance == Spec => []HInv
  <1>1. HInv /\ [Next]_vars => HInv'
    BY StepShape, StepHook, StepSolo, StepCalm DEF HInv
  <1>2. QED
    BY InitHInv, <1>1, PTL DEF Spec

\* The variables hold what they should, a store that was torn in the middle of a line
\* included, and while each save has been alone and complete it remembers nobody twice.
THEOREM TypeCorrect == Spec => []TypeOK
  <1>1. HInv => TypeOK
    <2> SUFFICES ASSUME HInv PROVE TypeOK
      OBVIOUS
    <2> USE DEF HInv
    <2>1. connected \in Seq(Users) /\ IsInjective(connected)
      BY DEF Shape, Crowd
    <2>2. users \in [Commits -> Seq(Users)]
      BY DEF Shape, Crowd
    <2>3. ASSUME Intact PROVE IsInjective(Usernames(store))
      <3>1. CASE \E k \in Commits : pc[k] = "write"
        <4>1. store = <<>>
          BY <2>3, <3>1 DEF SoloInv
        <4>2. QED
          BY <4>1 DEF Usernames, IsInjective
      <3>2. CASE \A k \in Commits : pc[k] # "write"
        BY <2>3, <3>2 DEF SoloInv
      <3>3. QED
        BY <3>1, <3>2
    <2>4. QED
      BY <2>1, <2>2, <2>3 DEF Shape, TypeOK
  <1>2. QED
    BY Invariance, <1>1, PTL

\* What the helper learns of a user is that user's own identity, while nobody comes or
\* goes during a commit, strikes a credit out or overlaps with another commit, and no save
\* breaks off.
THEOREM IdentitiesAreOwn == Spec => []LearnedIsOwn
  <1>1. HInv => LearnedIsOwn
    BY DEF HInv, CalmInv, OwnBook, LearnedIsOwn
  <1>2. QED
    BY Invariance, <1>1, PTL

\* While each save has been alone and complete, no commit moves a user's line or forgets
\* it, wherever else it is given up or fails.  A save that breaks off loses lines.
THEOREM LinesKeepPositions == Spec => PositionsKept
  <1>1. HInv /\ [Next]_vars => (Intact' => IsPrefix(remembered, remembered'))
    <2> SUFFICES ASSUME HInv, [Next]_vars, Intact'
                 PROVE  IsPrefix(remembered, remembered')
      OBVIOUS
    <2> USE DEF HInv
    <2>1. Intact
      BY DisturbancesGrow
    <2>2. CASE remembered' = remembered
      <3>1. remembered \in Seq(Identities) /\ Len(remembered) \in Nat
        BY DEF Shape
      <3>2. QED
        BY <2>2, <3>1, PrefixProperties
    <2>3. ASSUME NEW k \in Commits, WriteStore(k) PROVE IsPrefix(remembered, remembered')
      <3>1. pc[k] = "write" /\ remembered' = Usernames(store')
        BY <2>3 DEF WriteStore, Goto
      <3>2. store = <<>> /\ Continues(entries[k])
        BY <2>1, <3>1 DEF SoloInv
      <3>3. store' = entries[k]
        BY <2>3, <3>2, SavedAlone
      <3>4. QED
        BY <3>1, <3>2, <3>3 DEF Continues
    <2>4. \/ remembered' = remembered
          \/ \E k \in Commits : WriteStore(k)
      BY DEF Next, Git, Hook, Connect, Disconnect, Begin, FillEmail, DropCredit, SaveMessage,
             Abort, ReadConnected, LoadStore, Prepare, Record, EmptyStore, SaveFails, vars
    <2>5. QED
      BY <2>2, <2>3, <2>4
  <1>2. QED
    BY Invariance, <1>1, PTL DEF Spec, PositionsKept

\* A prepared message credits the users its hook has read and keeps all else.
THEOREM MessageIsPrepared == Spec => PreparedMessage
  <1>1. ASSUME HInv, [Next]_vars, NEW k \in Commits,
               pc[k] = "apply", pc'[k] = "save", hook[k] = "prepare"
        PROVE  /\ Intact =>
                     Len(Credits(Body(msg'[k]))) = Len(users[k])
               /\ WithoutCredits(Body(msg'[k])) = WithoutCredits(Body(msg[k]))
               /\ GitBlock(msg'[k]) = GitBlock(msg[k])
               /\ disturbances = {} =>
                     {l.name : l \in ToSet(Credits(Body(msg'[k])))} = ToSet(users[k])
    <2>0. Shape /\ SoloInv /\ CalmInv
      BY <1>1 DEF HInv
    <2>1. Prepare(k)
      <3>1. ASSUME NEW j \in Commits, Git(j) \/ Hook(j), j # k PROVE pc'[k] = pc[k]
        BY <2>0, <3>1 DEF Shape, Git, Hook, Begin, FillEmail, DropCredit, SaveMessage, Abort,
               ReadConnected, LoadStore, Prepare, Record, EmptyStore, WriteStore,
               SaveFails, Goto
      <3>2. ASSUME NEW u \in Users, Connect(u) \/ Disconnect(u) PROVE pc'[k] = pc[k]
        BY <3>2 DEF Connect, Disconnect
      <3>3. CASE Git(k)
        BY <1>1, <2>0, <3>3 DEF Shape, Git, Begin, FillEmail, DropCredit, SaveMessage, Abort, Goto
      <3>4. CASE Hook(k)
        BY <1>1, <3>4 DEF Hook, ReadConnected, LoadStore, Record, EmptyStore, WriteStore,
               SaveFails, Goto
      <3>5. CASE UNCHANGED vars
        BY <1>1, <3>5 DEF vars
      <3>6. QED
        BY <1>1, <3>1, <3>2, <3>3, <3>4, <3>5 DEF Next
    <2> DEFINE all == Remembering(entries[k], users[k])
               order == Order(entries[k], users[k])
               rendered == Render(all, order, msg[k])
               lines == Credits(Body(rendered))
    <2>2. msg'[k] = rendered
      BY <2>0, <2>1 DEF Prepare, Shape
    <2>3. /\ entries[k] \in Seq(Entry) /\ users[k] \in Seq(Users) /\ IsInjective(users[k])
          /\ msg[k] \in Seq(Line)
      BY <2>0 DEF Shape, Crowd
    <2>4. /\ all \in Seq(Entry) /\ order \in Seq(Identities) /\ ToSet(order) = ToSet(users[k])
          /\ ToSet(order) \subseteq ToSet(Usernames(all))
      BY <2>3, HookLists
    <2>5. Intact => Len(order) = Len(users[k])
      <3>1. Intact => IsInjective(Usernames(entries[k]))
        BY <1>1, <2>0 DEF SoloInv, Continues
      <3>2. QED
        BY <2>3, <3>1, OrderProperties
    <2>6. disturbances = {} => Fits(rendered, all, users[k])
      <3>1. disturbances = {} => OwnBook(entries[k])
        BY <2>0 DEF CalmInv
      <3>2. QED
        BY <2>3, <3>1, RenderFits
    <2>7. order = Among(Usernames(all), ToSet(users[k]))
      BY DEF Order
    <2> HIDE DEF all, order
    <2>8. /\ lines = [i \in DOMAIN order |-> CreditOf(all, order[i])]
          /\ WithoutCredits(Body(rendered)) = WithoutCredits(Body(msg[k]))
          /\ GitBlock(rendered) = GitBlock(msg[k])
      BY <2>3, <2>4, RenderProperties
    <2>9. Len(lines) = Len(order) /\ DOMAIN lines = DOMAIN order
      BY <2>4, <2>8, CreditLines
    <2>10. ASSUME disturbances = {}
           PROVE  {l.name : l \in ToSet(lines)} = ToSet(users[k])
      <3>1. \A i \in DOMAIN lines : lines[i].name = order[i]
        BY <2>6, <2>7, <2>10 DEF Fits
      <3> HIDE DEF lines
      <3>2. {l.name : l \in ToSet(lines)} = ToSet(order)
        BY <2>9, <3>1 DEF ToSet
      <3>3. QED
        BY <2>4, <3>2
    <2>11. QED
      BY <2>2, <2>5, <2>8, <2>9, <2>10
  <1>2. HInv /\ [Next]_vars =>
          \A k \in Commits :
             pc[k] = "apply" /\ pc'[k] = "save" /\ hook[k] = "prepare" =>
                 /\ Intact =>
                       Len(Credits(Body(msg'[k]))) = Len(users[k])
                 /\ WithoutCredits(Body(msg'[k])) = WithoutCredits(Body(msg[k]))
                 /\ GitBlock(msg'[k]) = GitBlock(msg[k])
                 /\ disturbances = {} =>
                       {l.name : l \in ToSet(Credits(Body(msg'[k])))} = ToSet(users[k])
    BY <1>1
  <1>3. QED
    BY Invariance, <1>2, PTL DEF Spec, PreparedMessage
=============================================================================
