-------------------------- MODULE ChangeFeedProofs --------------------------
(***************************************************************************)
(* What the change feed guarantees for any number of clients, commits and  *)
(* changes, however the history is rewritten and whichever sockets push    *)
(* back.  FeedInvariant is inductive; the properties follow from it.       *)
(***************************************************************************)
EXTENDS ChangeFeed, SequenceTheorems, WellFoundedInduction, TLAPS

\* The commits, numbered from 1; what replaced the history derives.
MadeTypes ==
  /\ made \in Seq([changes : 0..MaxChanges, derives : BOOLEAN, rewrite : BOOLEAN])
  /\ Head0 <= MaxCommits
  /\ \A c \in 1..Head0 : made[c].rewrite => made[c].derives

\* A change of a commit that was made; the end of a commit.
Change(p) == p.commit \in 1..Head0 /\ p.ordinal \in 1..Size(p.commit)
End(p) == p.commit \in 0..Head0 /\ p.ordinal = Size(p.commit)

\* The changes of the commits after a, through b.
Run(fs, a, b) ==
  /\ fs \in Seq(Position)
  /\ \A i \in 1..Len(fs) : Change(fs[i]) /\ fs[i].commit \in a + 1..b
  /\ fs = <<>> => \A d \in a + 1..b : Size(d) = 0
  /\ fs # <<>> =>
       /\ fs[1].ordinal = 1 /\ \A d \in a + 1..fs[1].commit - 1 : Size(d) = 0
       /\ fs[Len(fs)].ordinal = Size(fs[Len(fs)].commit)
       /\ \A d \in fs[Len(fs)].commit + 1..b : Size(d) = 0
  /\ \A i \in 1..Len(fs) - 1 : Follows(fs[i], fs[i + 1])

Frame == Position \cup {Ready}

\* A sequence of frames in which the ready frame can only be the first.
Frames(q) == q \in Seq(Frame) /\ \A i \in 2..Len(q) : q[i] # Ready

\* The types, but for the bound on the queues.
FeedTypes ==
  /\ MadeTypes
  /\ last \in 0..Head0 /\ timer \in BOOLEAN
  /\ stage \in [Client -> {"out", "joining", "open", "overflowed"}]
  /\ queue \in [Client -> Seq(Frame)] /\ blocked \in [Client -> BOOLEAN]
  /\ sent \in [Client -> Position \cup {NoCursor}]
  /\ cursor \in [Client -> Position \cup {NoCursor}]
  /\ got \in [Client -> Seq(Position)] /\ origin \in [Client -> Position]

\* Frames wait only behind a socket that pushed back, of a client in the feed;
\* a steady client has none waiting.
QueuesWait ==
  \A s \in Client :
    /\ Frames(queue[s]) /\ Len(queue[s]) <= MaxQueueEvents
    /\ ~blocked[s] => queue[s] = <<>>
    /\ stage[s] # "open" => ~blocked[s]
    /\ s \in Steady => ~blocked[s] /\ stage[s] # "overflowed"

\* A client's cursor is the last change it received, and the subscription's is
\* the same once it has one.
CursorIsLast ==
  \A s \in Client :
    /\ sent[s] \in {NoCursor, cursor[s]}
    /\ stage[s] = "joining" => sent[s] = NoCursor
    /\ cursor[s] # NoCursor => got[s] # <<>> /\ cursor[s] = got[s][Len(got[s])]

\* Changes of the history in order, behind the end of a commit.
Chain(p) ==
  /\ p \in Seq(Position) /\ p # <<>>
  /\ End(p[1])
  /\ \A i \in 2..Len(p) : Change(p[i])
  /\ \A i \in 1..Len(p) - 1 : Follows(p[i], p[i + 1])

\* Nothing is missing from a chain up to the end of commit c.
Reaches(p, c) == Complete(p[Len(p)], c) /\ p[Len(p)].commit <= c

Path(s) == (<<origin[s]>> \o got[s]) \o Changes(queue[s])

PathsAreChains ==
  \A s \in Client :
    /\ Chain(Path(s))
    /\ stage[s] = "open" => Reaches(Path(s), last)

\* The inductive invariant.
FeedInvariant == FeedTypes /\ QueuesWait /\ CursorIsLast /\ PathsAreChains

-----------------------------------------------------------------------------

\* A set of numbers that is not empty has a smallest one.
LEMMA SmallestExists ==
  ASSUME NEW S \in SUBSET Nat, S # {}
  PROVE  \E m \in S : \A n \in S : m <= n
<1> DEFINE R == OpToRel(<, Nat)
<1>1. IsWellFoundedOn(R, Nat)
  BY NatLessThanWellFounded
<1>2. PICK m \in S : \A n \in S : ~ (<<n, m>> \in R)
  <2> HIDE DEF R
  <2> QED
    BY <1>1, WFMin
<1>3. SUFFICES ASSUME NEW n \in S PROVE m <= n
  OBVIOUS
<1>4. ~(n < m)
  BY <1>2 DEF OpToRel
<1> QED
  BY <1>4

\* The function that ChangesBetween evaluates exists, whatever the commits are.
LEMMA BetweenSteps ==
  ASSUME NEW a \in Nat, NEW b \in Nat, a < b
  PROVE  \E g : /\ g = [c \in a..b |-> IF c = a THEN <<>> ELSE g[c - 1] \o ChangesOf(c)]
                /\ ChangesBetween(a, b) = g[b]
<1> DEFINE through[c \in a..b] == IF c = a THEN <<>> ELSE through[c - 1] \o ChangesOf(c)
           Is(g, n) == g = [c \in a..n |-> IF c = a THEN <<>> ELSE g[c - 1] \o ChangesOf(c)]
           Bad == {n \in Nat : n >= a /\ ~\E g : Is(g, n)}
<1> HIDE DEF through, Is
<1>1. Bad = {}
  <2> SUFFICES ASSUME Bad # {} PROVE FALSE
    OBVIOUS
  <2>1. PICK n \in Bad : \A m \in Bad : n <= m
    <3> HIDE DEF Bad
    <3>1. Bad \in SUBSET Nat
      BY DEF Bad
    <3> QED
      BY <3>1, SmallestExists
  <2>2. n \in Nat /\ n >= a /\ ~\E g : Is(g, n)
    BY <2>1
  <2>3. n # a
    <3>1. Is([c \in a..a |-> <<>>], a)
      BY DEF Is
    <3> QED
      BY <2>2, <3>1
  <2>4. PICK g : Is(g, n - 1)
    BY <2>1, <2>2, <2>3
  <2> DEFINE h == [c \in a..n |-> IF c = n THEN g[n - 1] \o ChangesOf(n) ELSE g[c]]
  <2>5. Is(h, n)
    <3>1. \A c \in a..n : h[c] = IF c = a THEN <<>> ELSE h[c - 1] \o ChangesOf(c)
      <4>1. \A c \in a..n - 1 : g[c] = IF c = a THEN <<>> ELSE g[c - 1] \o ChangesOf(c)
        BY <2>4 DEF Is
      <4>2. /\ h[n] = g[n - 1] \o ChangesOf(n) /\ n \in a..n
            /\ \A c \in a..n - 1 : h[c] = g[c]
        BY <2>2
      <4> HIDE DEF h
      <4>3. TAKE c \in a..n
      <4>4. CASE c = n
        <5>1. n - 1 \in a..n - 1 /\ n # a
          BY <2>2, <2>3
        <5>2. h[n - 1] = g[n - 1]
          BY <4>2, <5>1
        <5> QED
          BY <4>2, <4>4, <5>1, <5>2
      <4>5. CASE c # n
        BY <2>2, <4>1, <4>2, <4>5
      <4> QED
        BY <4>4, <4>5
    <3> HIDE DEF h
    <3>2. h = [c \in a..n |-> h[c]]
      BY DEF h
    <3> QED
      BY <3>1, <3>2 DEF Is
  <2> QED
    BY <2>2, <2>5
<1>2. \E g : Is(g, b)
  <2>1. b \notin Bad
    BY <1>1
  <2> QED
    BY <2>1
<1>3. Is(through, b)
  <2>1. through = CHOOSE g : Is(g, b)
    BY DEF through, Is
  <2> QED
    BY <1>2, <2>1
<1>4. ChangesBetween(a, b) = through[b]
  BY DEF ChangesBetween, through
<1> QED
  BY <1>3, <1>4 DEF Is

\* A sequence after another.
LEMMA CatParts ==
  ASSUME NEW T, NEW s \in Seq(T), NEW t \in Seq(T)
  PROVE  /\ s \o t \in Seq(T) /\ Len(s \o t) = Len(s) + Len(t)
         /\ Len(s) \in Nat /\ Len(t) \in Nat
         /\ \A i \in 1..Len(s) : (s \o t)[i] = s[i]
         /\ \A i \in 1..Len(t) : (s \o t)[Len(s) + i] = t[i]
         /\ \A i \in 1..Len(s) + Len(t) :
              i > Len(s) => (s \o t)[i] = t[i - Len(s)] /\ i - Len(s) \in 1..Len(t)
  OBVIOUS

LEMMA TailOfCat ==
  ASSUME NEW T, NEW s \in Seq(T), NEW t \in Seq(T), s # <<>>
  PROVE  Tail(s \o t) = Tail(s) \o t
<1>1. /\ Tail(s) \in Seq(T) /\ Len(Tail(s)) = Len(s) - 1
      /\ \A i \in 1..Len(s) - 1 : Tail(s)[i] = s[i + 1]
  BY HeadTailProperties
<1>2. Len(s) \in Nat \ {0} /\ Len(t) \in Nat
  BY EmptySeq
<1>3. /\ s \o t \in Seq(T) /\ Len(s \o t) = Len(s) + Len(t)
      /\ \A i \in 1..Len(s) + Len(t) : (s \o t)[i] = IF i <= Len(s) THEN s[i] ELSE t[i - Len(s)]
  BY ConcatProperties
<1>4. s \o t # <<>>
  BY <1>2, <1>3
<1>5. /\ Tail(s \o t) \in Seq(T) /\ Len(Tail(s \o t)) = Len(s \o t) - 1
      /\ \A i \in 1..Len(s \o t) - 1 : Tail(s \o t)[i] = (s \o t)[i + 1]
  BY <1>3, <1>4, HeadTailProperties
<1>6. /\ Tail(s) \o t \in Seq(T) /\ Len(Tail(s) \o t) = Len(s) - 1 + Len(t)
      /\ \A i \in 1..Len(s) - 1 + Len(t) :
           (Tail(s) \o t)[i] = IF i <= Len(s) - 1 THEN Tail(s)[i] ELSE t[i - (Len(s) - 1)]
  BY <1>1, ConcatProperties
<1>7. \A i \in 1..Len(s) - 1 + Len(t) : Tail(s \o t)[i] = (Tail(s) \o t)[i]
  BY <1>1, <1>2, <1>3, <1>5, <1>6
<1>8. Len(Tail(s \o t)) = Len(Tail(s) \o t)
  BY <1>2, <1>3, <1>5, <1>6
<1> QED
  BY <1>2, <1>5, <1>6, <1>7, <1>8, <1>3, SeqEqual

LEMMA Associates ==
  ASSUME NEW T
  PROVE  \A s, t, u \in Seq(T) : (s \o t) \o u = s \o (t \o u) /\ s \o t \in Seq(T)
  OBVIOUS

LEMMA Regroup ==
  \A x, g, w, r, q, f \in Seq(Position) :
    q \o f = w \o r => (x \o (g \o w)) \o r = ((x \o g) \o q) \o f
<1> DEFINE Cat(s, t) == s \o t
           S == Seq(Position)
<1>1. \A s, t, u \in S : Cat(Cat(s, t), u) = Cat(s, Cat(t, u)) /\ Cat(s, t) \in S
  BY Associates
<1> HIDE DEF Cat, S
<1>2. SUFFICES ASSUME NEW x \in S, NEW g \in S, NEW w \in S, NEW r \in S, NEW q \in S,
                      NEW f \in S, Cat(q, f) = Cat(w, r)
               PROVE  Cat(Cat(x, Cat(g, w)), r) = Cat(Cat(Cat(x, g), q), f)
  BY Zenon DEF Cat, S
<1>3. Cat(Cat(x, Cat(g, w)), r) = Cat(Cat(x, g), Cat(w, r))
  BY <1>1, <1>2
<1>4. Cat(Cat(Cat(x, g), q), f) = Cat(Cat(x, g), Cat(q, f))
  BY <1>1, <1>2
<1> QED
  BY <1>2, <1>3, <1>4

\* A sequence whose elements are in another set.
LEMMA Narrow ==
  ASSUME NEW S, NEW T, NEW s \in Seq(S), \A i \in 1..Len(s) : s[i] \in T
  PROVE  s \in Seq(T)
  OBVIOUS

\* What a commit is.
LEMMA CommitParts ==
  ASSUME MadeTypes
  PROVE  /\ Head0 \in Nat /\ Head0 <= MaxCommits /\ Head0 = Len(made) /\ DOMAIN made = 1..Head0
         /\ \A c \in 1..Head0 :
              /\ made[c].changes \in 0..MaxChanges /\ Size(c) = made[c].changes
              /\ made[c].derives \in BOOLEAN /\ made[c].rewrite \in BOOLEAN
              /\ made[c].rewrite => made[c].derives
         /\ Size(0) = 0
<1> DEFINE T == [changes : 0..MaxChanges, derives : BOOLEAN, rewrite : BOOLEAN]
<1>1. made \in Seq(T)
  BY DEF MadeTypes
<1> HIDE DEF T
<1>2. Len(made) \in Nat /\ DOMAIN made = 1..Len(made) /\ \A c \in 1..Len(made) : made[c] \in T
  BY <1>1
<1>3. \A c \in 1..Len(made) :
        /\ made[c].changes \in 0..MaxChanges /\ made[c].derives \in BOOLEAN
        /\ made[c].rewrite \in BOOLEAN
  BY <1>2 DEF T
<1>4. \A c \in 1..Len(made) : Size(c) = made[c].changes
  BY <1>2 DEF Size
<1> QED
  BY <1>2, <1>3, <1>4 DEF MadeTypes, Head0, Size

LEMMA ChangesOfCommit ==
  ASSUME MadeTypes, NEW c \in 1..Head0
  PROVE  /\ ChangesOf(c) \in Seq(Position) /\ Len(ChangesOf(c)) = Size(c)
         /\ \A o \in 1..Size(c) : ChangesOf(c)[o] = [commit |-> c, ordinal |-> o]
<1>1. /\ Size(c) \in 0..MaxChanges /\ Size(c) = made[c].changes /\ c \in 0..MaxCommits
      /\ MaxChanges \in Nat
  <2>1. MaxChanges \in Nat /\ MaxCommits \in Nat
    BY ChangeFeedAssumption DEF ChangeFeedAssumption
  <2> QED
    BY <2>1, CommitParts
<1>2. \A o \in 1..Size(c) : [commit |-> c, ordinal |-> o] \in Position
  BY <1>1 DEF Position
<1>3. ChangesOf(c) = [o \in 1..Size(c) |-> [commit |-> c, ordinal |-> o]]
  BY <1>1 DEF ChangesOf
<1> QED
  BY <1>1, <1>2, <1>3

\* The changes of one more commit.
LEMMA RunStep ==
  ASSUME MadeTypes, NEW a \in 0..Head0, NEW c \in a + 1..Head0, NEW fs,
         \A d \in a + 1..c : made[d].derives, Run(fs, a, c - 1)
  PROVE  Run(fs \o ChangesOf(c), a, c)
<1> DEFINE cs == ChangesOf(c)
           gs == fs \o cs
<1>1. /\ Head0 \in Nat /\ c \in 1..Head0 /\ a \in Nat /\ Size(c) \in Nat
      /\ \A d \in 1..Head0 : Size(d) \in Nat
  BY CommitParts
<1>2. /\ cs \in Seq(Position) /\ Len(cs) = Size(c)
      /\ \A o \in 1..Size(c) : cs[o].commit = c /\ cs[o].ordinal = o
  <2>1. /\ cs \in Seq(Position) /\ Len(cs) = Size(c)
        /\ \A o \in 1..Size(c) : cs[o] = [commit |-> c, ordinal |-> o]
    BY <1>1, ChangesOfCommit
  <2> HIDE DEF cs
  <2> QED
    BY <2>1
<1>3. /\ fs \in Seq(Position) /\ Len(fs) \in Nat
      /\ \A i \in 1..Len(fs) : Change(fs[i]) /\ fs[i].commit \in a + 1..c - 1
  BY DEF Run
<1> HIDE DEF cs
<1>4. /\ gs \in Seq(Position) /\ Len(gs) = Len(fs) + Len(cs)
      /\ \A i \in 1..Len(fs) : gs[i] = fs[i]
      /\ \A i \in 1..Len(cs) : gs[Len(fs) + i] = cs[i]
      /\ \A i \in 1..Len(gs) : i > Len(fs) => gs[i] = cs[i - Len(fs)] /\ i - Len(fs) \in 1..Len(cs)
  <2> DEFINE T == Position
  <2>1. fs \in Seq(T) /\ cs \in Seq(T)
    BY <1>2, <1>3
  <2> HIDE DEF T
  <2>2. /\ gs \in Seq(T) /\ Len(gs) = Len(fs) + Len(cs)
        /\ \A i \in 1..Len(fs) : gs[i] = fs[i]
        /\ \A i \in 1..Len(cs) : gs[Len(fs) + i] = cs[i]
        /\ \A i \in 1..Len(fs) + Len(cs) :
              i > Len(fs) => gs[i] = cs[i - Len(fs)] /\ i - Len(fs) \in 1..Len(cs)
    BY <2>1, CatParts
  <2> QED
    BY <2>2 DEF T
<1> HIDE DEF gs
<1>5. \A i \in 1..Len(gs) : Change(gs[i]) /\ gs[i].commit \in a + 1..c
  <2>1. TAKE i \in 1..Len(gs)
  <2>2. CASE i <= Len(fs)
    <3>1. i \in 1..Len(fs) /\ gs[i] = fs[i]
      BY <1>3, <1>4, <2>2
    <3>2. Change(fs[i]) /\ fs[i].commit \in a + 1..c - 1
      BY <1>3, <3>1
    <3> QED
      BY <1>1, <3>1, <3>2
  <2>3. CASE i > Len(fs)
    BY <1>1, <1>2, <1>4, <2>3 DEF Change
  <2> QED
    BY <1>1, <1>2, <1>3, <1>4, <2>2, <2>3
<1>6. gs = <<>> => \A d \in a + 1..c : Size(d) = 0
  <2>1. SUFFICES ASSUME gs = <<>> PROVE \A d \in a + 1..c : Size(d) = 0
    OBVIOUS
  <2>2. Len(gs) = 0
    BY <2>1
  <2>3. fs = <<>> /\ Size(c) = 0
    BY <1>1, <1>2, <1>3, <1>4, <2>2
  <2>4. \A d \in a + 1..c - 1 : Size(d) = 0
    BY <2>3 DEF Run
  <2> QED
    BY <1>1, <2>3, <2>4
<1>7. gs # <<>> => gs[1].ordinal = 1 /\ \A d \in a + 1..gs[1].commit - 1 : Size(d) = 0
  <2>1. CASE fs # <<>>
    <3>1. 1 \in 1..Len(fs)
      BY <1>3, <2>1
    <3> QED
      BY <1>4, <2>1, <3>1 DEF Run
  <2>2. CASE fs = <<>> /\ Size(c) # 0
    <3>1. Len(fs) = 0 /\ 1 \in 1..Len(cs) /\ 1 \in 1..Size(c)
      BY <1>1, <1>2, <2>2
    <3>2. gs[1].commit = c /\ gs[1].ordinal = 1
      BY <1>2, <1>4, <3>1
    <3> QED
      BY <2>2, <3>2 DEF Run
  <2>3. CASE fs = <<>> /\ Size(c) = 0
    BY <1>1, <1>2, <1>4, <2>3
  <2> QED
    BY <2>1, <2>2, <2>3
<1>8. gs # <<>> => /\ gs[Len(gs)].ordinal = Size(gs[Len(gs)].commit)
                   /\ \A d \in gs[Len(gs)].commit + 1..c : Size(d) = 0
  <2>1. CASE Size(c) # 0
    <3>1. Len(cs) \in 1..Len(cs) /\ Len(gs) = Len(fs) + Len(cs) /\ Size(c) \in 1..Size(c)
      BY <1>1, <1>2, <1>4, <2>1
    <3>2. gs[Len(gs)].commit = c /\ gs[Len(gs)].ordinal = Size(c)
      BY <1>2, <1>4, <3>1
    <3> QED
      BY <1>1, <3>2
  <2>2. CASE Size(c) = 0 /\ fs # <<>>
    <3>1. Len(gs) = Len(fs) /\ Len(fs) \in 1..Len(fs)
      BY <1>1, <1>2, <1>3, <1>4, <2>2
    <3>2. gs[Len(gs)] = fs[Len(fs)]
      BY <1>4, <3>1
    <3>3. \A d \in fs[Len(fs)].commit + 1..c - 1 : Size(d) = 0
      BY <2>2 DEF Run
    <3>4. fs[Len(fs)].commit \in Nat /\ fs[Len(fs)].ordinal = Size(fs[Len(fs)].commit)
      BY <1>1, <1>3, <2>2, <3>1 DEF Run
    <3> QED
      BY <1>1, <2>2, <3>2, <3>3, <3>4
  <2>3. CASE Size(c) = 0 /\ fs = <<>>
    BY <1>2, <1>4, <2>3
  <2> QED
    BY <2>1, <2>2, <2>3
<1>9. \A i \in 1..Len(gs) - 1 : Follows(gs[i], gs[i + 1])
  <2>1. TAKE i \in 1..Len(gs) - 1
  <2>2. CASE i < Len(fs)
    <3>1. gs[i] = fs[i] /\ gs[i + 1] = fs[i + 1] /\ i \in 1..Len(fs) - 1
      BY <1>3, <1>4, <2>2
    <3> QED
      BY <3>1 DEF Run
  <2>3. CASE i > Len(fs)
    <3> DEFINE o == i - Len(fs)
    <3>1. o \in 1..Size(c) - 1 /\ gs[i] = cs[o] /\ gs[i + 1] = cs[o + 1]
      BY <1>1, <1>2, <1>3, <1>4, <2>3
    <3>2. cs[o + 1] = [cs[o] EXCEPT !.ordinal = @ + 1]
      <4>1. cs[o] = [commit |-> c, ordinal |-> o] /\ cs[o + 1] = [commit |-> c, ordinal |-> o + 1]
        BY <1>1, <3>1, ChangesOfCommit DEF cs
      <4> QED
        BY <4>1
    <3> QED
      BY <3>1, <3>2 DEF Follows
  <2>4. CASE i = Len(fs)
    <3>1. fs # <<>> /\ i \in 1..Len(fs) /\ gs[i] = fs[Len(fs)] /\ 1 \in 1..Size(c) /\ gs[i + 1] = cs[1]
      BY <1>1, <1>2, <1>3, <1>4, <2>4
    <3>2. /\ gs[i].ordinal = Size(gs[i].commit) /\ gs[i].commit \in a + 1..c - 1
          /\ \A d \in gs[i].commit + 1..c - 1 : Size(d) = 0
      BY <1>3, <3>1 DEF Run
    <3>3. gs[i + 1].commit = c /\ gs[i + 1].ordinal = 1
      BY <1>2, <3>1
    <3>4. Complete(gs[i], c - 1)
      BY <1>1, <3>2 DEF Complete
    <3> QED
      BY <1>1, <3>2, <3>3, <3>4 DEF Follows
  <2> QED
    BY <1>3, <1>4, <2>2, <2>3, <2>4
<1> QED
  BY <1>4, <1>5, <1>6, <1>7, <1>8, <1>9 DEF Run, gs, cs

\* The changes between two positions, when every commit between them derives.
LEMMA BetweenIsRun ==
  ASSUME MadeTypes, NEW a \in 0..Head0, NEW b \in a..Head0,
         \A d \in a + 1..b : made[d].derives
  PROVE  Run(ChangesBetween(a, b), a, b)
<1>1. Head0 \in Nat /\ a \in Nat /\ b \in Nat
  BY CommitParts
<1>2. Run(<<>>, a, a)
  <2>1. <<>> \in Seq(Position) /\ Len(<<>>) = 0
    OBVIOUS
  <2> QED
    BY <1>1, <2>1 DEF Run
<1>3. CASE b = a
  <2>1. ChangesBetween(a, b) = <<>>
    BY <1>1, <1>3 DEF ChangesBetween
  <2> QED
    BY <1>2, <1>3, <2>1
<1>4. CASE a < b
  <2>1. PICK g : /\ g = [c \in a..b |-> IF c = a THEN <<>> ELSE g[c - 1] \o ChangesOf(c)]
                 /\ ChangesBetween(a, b) = g[b]
    BY <1>1, <1>4, BetweenSteps
  <2>2. g[a] = <<>> /\ \A c \in a + 1..b : g[c] = g[c - 1] \o ChangesOf(c)
    <3>1. \A c \in a..b : g[c] = IF c = a THEN <<>> ELSE g[c - 1] \o ChangesOf(c)
      BY <2>1
    <3>2. a \in a..b /\ \A c \in a + 1..b : c \in a..b /\ c # a
      BY <1>1, <1>4
    <3> QED
      BY <3>1, <3>2
  <2> DEFINE Bad == {c \in Nat : c \in a..b /\ ~Run(g[c], a, c)}
  <2>3. SUFFICES ASSUME Bad # {} PROVE FALSE
    <3>1. b \notin Bad
      BY <2>3
    <3> QED
      BY <1>1, <2>1, <3>1
  <2>4. PICK c \in Bad : \A d \in Bad : c <= d
    <3> HIDE DEF Bad
    <3>1. Bad \in SUBSET Nat
      BY DEF Bad
    <3> QED
      BY <2>3, <3>1, SmallestExists
  <2>5. c \in a..b /\ ~Run(g[c], a, c)
    BY <2>4
  <2>6. c # a
    BY <1>2, <2>2, <2>5
  <2>7. Run(g[c - 1], a, c - 1)
    <3>1. c - 1 \notin Bad
      BY <1>1, <2>4, <2>5
    <3>2. c - 1 \in Nat /\ c - 1 \in a..b
      BY <1>1, <2>5, <2>6
    <3> QED
      BY <3>1, <3>2
  <2>8. c \in a + 1..Head0 /\ c \in a + 1..b
    BY <1>1, <2>5, <2>6
  <2>9. \A d \in a + 1..c : made[d].derives
    BY <1>1, <2>8
  <2>10. Run(g[c - 1] \o ChangesOf(c), a, c)
    BY <2>7, <2>8, <2>9, RunStep
  <2> QED
    BY <2>2, <2>5, <2>8, <2>10
<1> QED
  BY <1>1, <1>3, <1>4

-----------------------------------------------------------------------------
(* Frames                                                                  *)

LEMMA ChangesOfFrames ==
  ASSUME NEW q, Frames(q)
  PROVE  /\ Changes(q) \in Seq(Position)
         /\ q # <<>> /\ q[1] = Ready => Changes(q) = Tail(q)
         /\ q = <<>> \/ q[1] # Ready => Changes(q) = q
<1>1. q \in Seq(Frame) /\ Len(q) \in Nat /\ \A i \in 1..Len(q) : q[i] \in Frame
  BY DEF Frames
<1>2. CASE q = <<>>
  BY <1>2 DEF Changes
<1>3. CASE q # <<>> /\ q[1] = Ready
  <2>1. Changes(q) = Tail(q)
    BY <1>1, <1>3 DEF Changes
  <2>2. Len(Tail(q)) = Len(q) - 1 /\ \A i \in 1..Len(q) - 1 : Tail(q)[i] = q[i + 1]
    BY <1>1, <1>3, HeadTailProperties
  <2>3. \A i \in 1..Len(q) - 1 : q[i + 1] \in Position
    BY <1>1 DEF Frames, Frame
  <2>4. Tail(q) \in Seq(Frame)
    BY <1>1, <1>3, HeadTailProperties
  <2>5. Tail(q) \in Seq(Position)
    BY <2>2, <2>3, <2>4, Narrow
  <2> QED
    BY <1>3, <2>1, <2>5
<1>4. CASE q # <<>> /\ q[1] # Ready
  <2>1. Changes(q) = q
    BY <1>1, <1>4 DEF Changes
  <2>2. \A i \in 1..Len(q) : q[i] \in Position
    BY <1>1, <1>4 DEF Frames, Frame
  <2>3. q \in Seq(Position)
    BY <1>1, <2>2, Narrow
  <2> QED
    BY <1>4, <2>1, <2>3
<1> QED
  BY <1>2, <1>3, <1>4

\* Frames without the ready frame are changes.
LEMMA ChangesAreFrames ==
  ASSUME NEW q \in Seq(Position)
  PROVE  Frames(q) /\ Changes(q) = q
<1>1. q \in Seq(Frame)
  BY SeqMonotonic DEF Frame
<1>2. \A i \in 1..Len(q) : q[i] \in Position /\ q[i] # Ready
  BY FrameAssumption, ElementOfSeq DEF FrameAssumption
<1>3. Frames(q)
  BY <1>1, <1>2 DEF Frames
<1>4. Len(q) \in Nat
  OBVIOUS
<1>5. q = <<>> \/ q[1] # Ready
  BY <1>2, <1>4, EmptySeq
<1> QED
  BY <1>3, <1>5, ChangesOfFrames

LEMMA ChangesOfCat ==
  ASSUME NEW q, Frames(q), NEW fs \in Seq(Position), \A i \in 1..Len(fs) : fs[i] # Ready
  PROVE  Frames(q \o fs) /\ Changes(q \o fs) = Changes(q) \o fs
<1>1. /\ q \in Seq(Frame) /\ Len(q) \in Nat /\ fs \in Seq(Frame) /\ Len(fs) \in Nat
  BY SeqMonotonic DEF Frames, Frame
<1>2. /\ q \o fs \in Seq(Frame) /\ Len(q \o fs) = Len(q) + Len(fs)
      /\ \A i \in 1..Len(q) : (q \o fs)[i] = q[i]
      /\ \A i \in 1..Len(q) + Len(fs) :
           i > Len(q) => (q \o fs)[i] = fs[i - Len(q)] /\ i - Len(q) \in 1..Len(fs)
  BY <1>1, CatParts
<1>3. Frames(q \o fs)
  <2>1. \A i \in 2..Len(q) + Len(fs) : (q \o fs)[i] # Ready
    <3>1. TAKE i \in 2..Len(q) + Len(fs)
    <3>2. CASE i <= Len(q)
      <4>1. i \in 2..Len(q) /\ i \in 1..Len(q)
        BY <1>1, <3>2
      <4> QED
        BY <1>2, <4>1 DEF Frames
    <3>3. CASE i > Len(q)
      <4>1. i \in 1..Len(q) + Len(fs)
        BY <1>1
      <4> QED
        BY <1>2, <3>3, <4>1
    <3> QED
      BY <1>1, <3>2, <3>3
  <2> QED
    BY <1>2, <2>1 DEF Frames
<1>4. CASE q = <<>>
  <2>1. q \o fs = fs
    BY <1>1, <1>4, ConcatEmptySeq
  <2>2. Changes(q) = <<>> /\ <<>> \o fs = fs /\ Changes(fs) = fs
    BY <1>4, ChangesOfFrames, ChangesAreFrames, ConcatEmptySeq
  <2> QED
    BY <1>3, <2>1, <2>2
<1>5. CASE q # <<>>
  <2>1. 1 \in 1..Len(q)
    BY <1>1, <1>5, EmptySeq
  <2>2. q \o fs # <<>> /\ (q \o fs)[1] = q[1]
    BY <1>1, <1>2, <1>5, <2>1, ConcatEqualIffEmpty
  <2>3. Tail(q \o fs) = Tail(q) \o fs
    BY <1>1, <1>5, TailOfCat
  <2> QED
    BY <1>3, <1>5, <2>2, <2>3, ChangesOfFrames
<1> QED
  BY <1>4, <1>5

\* The frames a socket takes and those that wait are all of them.
LEMMA FramesSplit ==
  ASSUME NEW q, Frames(q), NEW k \in 1..Len(q) + 1
  PROVE  /\ Frames(Written(q, k)) /\ Frames(SubSeq(q, k + 1, Len(q)))
         /\ Changes(q) = Changes(Written(q, k)) \o Changes(SubSeq(q, k + 1, Len(q)))
         /\ k = Len(q) + 1 => SubSeq(q, k + 1, Len(q)) = <<>>
<1> DEFINE n == Len(q)
           m == IF k < n THEN k ELSE n
           w == SubSeq(q, 1, m)
           r == SubSeq(q, m + 1, n)
<1>1. q \in Seq(Frame) /\ n \in Nat /\ m \in 0..n /\ (n # 0 => m # 0) /\ Written(q, k) = w
  BY DEF Frames, Written
<1>2. SubSeq(q, k + 1, n) = r
  <2> HIDE DEF n
  <2>1. CASE k < n
    BY <2>1
  <2>2. CASE ~(k < n)
    <3>1. k \in Nat /\ n < k + 1 /\ m = n /\ n < m + 1 /\ m + 1 \in Int /\ k + 1 \in Int /\ n \in Int
      BY <1>1, <2>2 DEF n
    <3>2. SubSeq(q, k + 1, n) = <<>>
      BY <3>1, SubSeqEmpty
    <3>3. SubSeq(q, m + 1, n) = <<>>
      <4> HIDE DEF m
      <4> QED
        BY <3>1, SubSeqEmpty
    <3> QED
      BY <3>2, <3>3
  <2> QED
    BY <2>1, <2>2
<1>3. /\ w \in Seq(Frame) /\ Len(w) = m /\ \A i \in 1..m : w[i] = q[i]
      /\ r \in Seq(Frame) /\ Len(r) = n - m /\ \A i \in 1..n - m : r[i] = q[m + i]
  <2> DEFINE T == Frame
  <2>1. q \in Seq(T)
    BY <1>1
  <2> HIDE DEF T
  <2> HIDE DEF m
  <2>2. \A i \in 1..n : q[i] \in T
    BY <1>1, <2>1, ElementOfSeq
  <2>3. /\ 1 \in Int /\ m \in Int /\ m + 1 \in Int /\ n \in Int
        /\ \A i \in 1..m : q[i] \in T
        /\ \A i \in m + 1..n : q[i] \in T
    BY <1>1, <2>2
  <2>4. /\ w \in Seq(T) /\ Len(w) = IF 1 <= m THEN m - 1 + 1 ELSE 0
        /\ \A i \in 1..m - 1 + 1 : w[i] = q[1 + i - 1]
    BY <2>3, SubSeqProperties, SMTT(30)
  <2>5. /\ r \in Seq(T) /\ Len(r) = IF m + 1 <= n THEN n - (m + 1) + 1 ELSE 0
        /\ \A i \in 1..n - (m + 1) + 1 : r[i] = q[m + 1 + i - 1]
    BY <2>3, SubSeqProperties, SMTT(30)
  <2> HIDE DEF w, r
  <2> QED
    BY <1>1, <2>4, <2>5 DEF T
<1>4. w \o r = q
  <2>1. 1 \in 1..n + 1 /\ m \in 1 - 1..n /\ n \in m..n
    BY <1>1
  <2>2. SubSeq(q, 1, m) \o SubSeq(q, m + 1, n) = SubSeq(q, 1, n)
    BY <1>1, <2>1, ConcatAdjacentSubSeq
  <2>3. SubSeq(q, 1, n) = q
    BY <1>1, SubSeqFull
  <2> QED
    BY <2>2, <2>3
<1> HIDE DEF w, r, m
<1>5. Frames(w) /\ Frames(r)
  <2>1. \A i \in 2..Len(w) : w[i] # Ready
    BY <1>1, <1>3 DEF Frames
  <2>2. \A i \in 1..Len(r) : r[i] # Ready
    <3>1. TAKE i \in 1..Len(r)
    <3>2. m + i \in 2..n /\ r[i] = q[m + i]
      BY <1>1, <1>3
    <3> QED
      BY <3>2 DEF Frames
  <2> QED
    BY <1>1, <1>3, <2>1, <2>2 DEF Frames
<1>6. Changes(r) = r
  <2>1. r = <<>> \/ r[1] # Ready
    <3>1. SUFFICES ASSUME r # <<>> PROVE r[1] # Ready
      OBVIOUS
    <3>2. 1 \in 1..Len(r) /\ m + 1 \in 2..n
      BY <1>1, <1>3, <3>1, EmptySeq
    <3> QED
      BY <1>3, <3>2 DEF Frames
  <2> QED
    BY <1>5, <2>1, ChangesOfFrames
<1>7. Changes(q) = Changes(w) \o r
  <2>1. CASE q # <<>> /\ q[1] = Ready
    <3>1. w # <<>> /\ w[1] = Ready
      BY <1>1, <1>3, <2>1
    <3>2. Changes(w) = Tail(w) /\ Changes(q) = Tail(q)
      BY <1>5, <2>1, <3>1, ChangesOfFrames
    <3>3. Tail(w \o r) = Tail(w) \o r
      BY <1>3, <3>1, TailOfCat
    <3> QED
      BY <1>4, <3>2, <3>3
  <2>2. CASE q = <<>> \/ q[1] # Ready
    <3>1. w = <<>> \/ w[1] # Ready
      BY <1>1, <1>3, <2>2
    <3> QED
      BY <1>4, <1>5, <2>2, <3>1, ChangesOfFrames
  <2> QED
    BY <2>1, <2>2
<1>8. k = n + 1 => r = <<>>
  <2>1. k = n + 1 => m = n
    BY <1>1 DEF m
  <2> QED
    BY <1>3, <2>1
<1> QED
  BY <1>1, <1>2, <1>5, <1>6, <1>7, <1>8 DEF w, r, m

\* What a socket takes of the frames for it, and what waits.
LEMMA FramesGo ==
  ASSUME FeedTypes, QueuesWait, NEW s \in Client, NEW fs, Frames(fs),
         NEW k \in Takes(s, Len(fs)), blocked[s] => fs \in Seq(Position)
  PROVE  /\ k \in 1..Len(fs) + 1
         /\ Frames(Wrote(s, fs, k)) /\ Frames(Waits(s, fs, k))
         /\ Changes(queue[s]) \o Changes(fs) = Changes(Wrote(s, fs, k)) \o Changes(Waits(s, fs, k))
         /\ Blocks(s, fs, k) \in BOOLEAN
         /\ ~Blocks(s, fs, k) => Waits(s, fs, k) = <<>>
         /\ s \in Steady => ~Blocks(s, fs, k) /\ ~Overflows(s, fs, k)
<1>1. fs \in Seq(Frame) /\ Len(fs) \in Nat
  BY DEF Frames
<1>2. k \in 1..Len(fs) + 1 /\ (s \in Steady => k = Len(fs) + 1)
  BY <1>1 DEF Takes
<1>3. /\ Frames(queue[s]) /\ (~blocked[s] => queue[s] = <<>>) /\ (s \in Steady => ~blocked[s])
      /\ blocked[s] \in BOOLEAN
  BY DEF QueuesWait, FeedTypes
<1>4. Changes(queue[s]) \in Seq(Position) /\ Changes(fs) \in Seq(Position)
  BY <1>3, ChangesOfFrames
<1>5. CASE blocked[s]
  <2>1. Wrote(s, fs, k) = <<>> /\ Waits(s, fs, k) = queue[s] \o fs
    BY <1>5 DEF Wrote, Waits
  <2>2. Frames(<<>>) /\ Changes(<<>>) = <<>>
    BY EmptySeq, ChangesAreFrames
  <2>3. fs \in Seq(Position) /\ Changes(fs) = fs /\ \A i \in 1..Len(fs) : fs[i] # Ready
    <3>1. fs \in Seq(Position)
      BY <1>5
    <3>2. \A i \in 1..Len(fs) : fs[i] \in Position
      BY <3>1, ElementOfSeq
    <3> QED
      BY <3>1, <3>2, ChangesAreFrames, FrameAssumption DEF FrameAssumption
  <2>4. Frames(queue[s] \o fs) /\ Changes(queue[s] \o fs) = Changes(queue[s]) \o fs
    BY <1>3, <2>3, ChangesOfCat
  <2>5. <<>> \o (Changes(queue[s]) \o fs) = Changes(queue[s]) \o fs
    BY <1>4, <2>3, ConcatProperties, ConcatEmptySeq
  <2> QED
    BY <1>2, <1>3, <1>5, <2>1, <2>2, <2>3, <2>4, <2>5 DEF Blocks
<1>6. CASE ~blocked[s]
  <2>1. /\ queue[s] = <<>> /\ Wrote(s, fs, k) = Written(fs, k)
        /\ Waits(s, fs, k) = SubSeq(fs, k + 1, Len(fs))
    BY <1>3, <1>6 DEF Wrote, Waits
  <2>2. Changes(<<>>) = <<>> /\ <<>> \o Changes(fs) = Changes(fs)
    BY <1>4, EmptySeq, ChangesAreFrames, ConcatEmptySeq
  <2>3. /\ Frames(Written(fs, k)) /\ Frames(SubSeq(fs, k + 1, Len(fs)))
        /\ Changes(fs) = Changes(Written(fs, k)) \o Changes(SubSeq(fs, k + 1, Len(fs)))
        /\ k = Len(fs) + 1 => SubSeq(fs, k + 1, Len(fs)) = <<>>
    BY <1>2, FramesSplit
  <2>4. ~Blocks(s, fs, k) => k = Len(fs) + 1
    BY <1>1, <1>2 DEF Blocks
  <2>5. s \in Steady => ~Blocks(s, fs, k)
    BY <1>1, <1>2, <1>6 DEF Blocks
  <2>6. Waits(s, fs, k) = <<>> => ~Overflows(s, fs, k)
    <3>1. Len(<<>>) = 0 /\ MaxQueueEvents \in Nat
      BY ChangeFeedAssumption DEF ChangeFeedAssumption
    <3> QED
      BY <3>1 DEF Overflows
  <2> QED
    BY <1>2, <1>3, <1>6, <2>1, <2>2, <2>3, <2>4, <2>5, <2>6 DEF Blocks
<1> QED
  BY <1>3, <1>5, <1>6

-----------------------------------------------------------------------------
(* Chains                                                                  *)

\* The beginning of a chain is one.
LEMMA ChainBegins ==
  ASSUME NEW p \in Seq(Position), NEW q \in Seq(Position), p # <<>>, Chain(p \o q)
  PROVE  Chain(p)
<1>1. Len(p) \in Nat \ {0} /\ Len(q) \in Nat
  BY EmptySeq
<1>2. Len(p \o q) = Len(p) + Len(q) /\ \A i \in 1..Len(p) : (p \o q)[i] = p[i]
  BY CatParts
<1>3. End(p[1])
  BY <1>1, <1>2 DEF Chain
<1>4. \A i \in 2..Len(p) : Change(p[i])
  <2>1. \A i \in 2..Len(p) : i \in 1..Len(p) /\ i \in 2..Len(p \o q)
    BY <1>1, <1>2
  <2> QED
    BY <1>2, <2>1 DEF Chain
<1>5. \A i \in 1..Len(p) - 1 : Follows(p[i], p[i + 1])
  <2>1. \A i \in 1..Len(p) - 1 : i \in 1..Len(p) /\ i + 1 \in 1..Len(p) /\ i \in 1..Len(p \o q) - 1
    BY <1>1, <1>2
  <2> QED
    BY <1>2, <2>1 DEF Chain
<1> QED
  BY <1>3, <1>4, <1>5 DEF Chain

\* A chain continued.
LEMMA ChainContinues ==
  ASSUME NEW p, Chain(p), NEW q \in Seq(Position), \A i \in 1..Len(q) : Change(q[i]),
         \A i \in 1..Len(q) - 1 : Follows(q[i], q[i + 1]),
         q # <<>> => Follows(p[Len(p)], q[1])
  PROVE  Chain(p \o q) /\ (p \o q)[Len(p \o q)] = IF q = <<>> THEN p[Len(p)] ELSE q[Len(q)]
<1>1. p \in Seq(Position) /\ Len(p) \in Nat \ {0} /\ Len(q) \in Nat
  BY EmptySeq DEF Chain
<1>2. /\ p \o q \in Seq(Position) /\ Len(p \o q) = Len(p) + Len(q)
      /\ \A i \in 1..Len(p) : (p \o q)[i] = p[i]
      /\ \A i \in 1..Len(q) : (p \o q)[Len(p) + i] = q[i]
      /\ \A i \in 1..Len(p) + Len(q) :
           i > Len(p) => (p \o q)[i] = q[i - Len(p)] /\ i - Len(p) \in 1..Len(q)
  BY <1>1, CatParts
<1> DEFINE r == p \o q
<1> HIDE DEF r
<1>3. r # <<>> /\ End(r[1])
  <2>1. 1 \in 1..Len(p) /\ Len(r) # 0
    BY <1>1, <1>2 DEF r
  <2> QED
    BY <1>2, <2>1 DEF Chain, r
<1>4. \A i \in 2..Len(r) : Change(r[i])
  <2>1. TAKE i \in 2..Len(r)
  <2>2. CASE i <= Len(p)
    BY <1>1, <1>2, <2>2 DEF Chain, r
  <2>3. CASE i > Len(p)
    BY <1>1, <1>2, <2>3 DEF r
  <2> QED
    BY <1>1, <1>2, <2>2, <2>3 DEF r
<1>5. \A i \in 1..Len(r) - 1 : Follows(r[i], r[i + 1])
  <2>1. TAKE i \in 1..Len(r) - 1
  <2>2. CASE i < Len(p)
    <3>1. i \in 1..Len(p) - 1 /\ r[i] = p[i] /\ r[i + 1] = p[i + 1]
      BY <1>1, <1>2, <2>2 DEF r
    <3> QED
      BY <3>1 DEF Chain
  <2>3. CASE i = Len(p)
    <3>1. q # <<>> /\ r[i] = p[Len(p)] /\ r[i + 1] = q[1]
      BY <1>1, <1>2, <2>3 DEF r
    <3> QED
      BY <3>1
  <2>4. CASE i > Len(p)
    <3>1. /\ i - Len(p) \in 1..Len(q) - 1
          /\ r[i] = q[i - Len(p)] /\ r[i + 1] = q[i - Len(p) + 1]
      BY <1>1, <1>2, <2>4 DEF r
    <3> QED
      BY <3>1
  <2> QED
    BY <1>1, <1>2, <2>2, <2>3, <2>4 DEF r
<1>6. r[Len(r)] = IF q = <<>> THEN p[Len(p)] ELSE q[Len(q)]
  <2>1. CASE q = <<>>
    BY <1>1, <1>2, <2>1 DEF r
  <2>2. CASE q # <<>>
    <3>1. Len(q) \in 1..Len(q)
      BY <1>1, <2>2, EmptySeq
    <3> QED
      BY <1>1, <1>2, <2>2, <3>1 DEF r
  <2> QED
    BY <2>1, <2>2
<1> QED
  BY <1>2, <1>3, <1>4, <1>5, <1>6 DEF Chain, r

\* A run of changes continues a chain that reaches the commit before it.
LEMMA RunContinues ==
  ASSUME MadeTypes, NEW p, Chain(p), NEW a \in 0..Head0, NEW b \in a..Head0, NEW fs,
         Run(fs, a, b), \A d \in a + 1..b : made[d].derives, Reaches(p, a)
  PROVE  Chain(p \o fs) /\ Reaches(p \o fs, b)
<1> DEFINE e == p[Len(p)]
<1>1. /\ Head0 \in Nat /\ a \in Nat /\ b \in Nat /\ b >= a
      /\ fs \in Seq(Position) /\ Len(fs) \in Nat
      /\ fs # <<>> => Len(fs) \in 1..Len(fs) /\ 1 \in 1..Len(fs)
      /\ \A i \in 1..Len(fs) : Change(fs[i]) /\ fs[i].commit \in a + 1..b
  BY CommitParts, EmptySeq DEF Run
<1>2. e.commit \in Nat /\ e.commit <= a /\ Complete(e, a)
  <2>1. p \in Seq(Position) /\ Len(p) \in 1..Len(p)
    BY EmptySeq DEF Chain
  <2>2. e \in Position
    BY <2>1, ElementOfSeq
  <2>3. e.commit \in 0..MaxCommits
    BY <2>2 DEF Position
  <2> QED
    BY <2>3 DEF Reaches
<1> HIDE DEF e
<1>3. \A c \in a..b : (\A d \in a + 1..c : Size(d) = 0) => Complete(e, c)
  <2>1. SUFFICES ASSUME NEW c \in a..b, \A d \in a + 1..c : Size(d) = 0 PROVE Complete(e, c)
    OBVIOUS
  <2>2. \A d \in a + 1..c : d \in a + 1..b
    BY <1>1
  <2>3. \A d \in e.commit + 1..c : d \in e.commit + 1..a \/ d \in a + 1..c
    BY <1>1, <1>2
  <2>4. \A r \in e.commit + 1..a : r \in e.commit + 1..c
    BY <1>1, <1>2
  <2> QED
    BY <1>2, <2>1, <2>2, <2>3, <2>4 DEF Complete
<1>4. CASE fs = <<>>
  <2>1. Complete(e, b) /\ e.commit <= b
    BY <1>1, <1>2, <1>3, <1>4 DEF Run
  <2>2. Chain(p \o fs) /\ (p \o fs)[Len(p \o fs)] = e
    BY <1>1, <1>4, ChainContinues DEF Run, e
  <2> QED
    BY <2>1, <2>2 DEF Reaches
<1>5. CASE fs # <<>>
  <2>1. Follows(e, fs[1])
    <3>1. /\ fs[1].ordinal = 1 /\ fs[1].commit \in a + 1..b
          /\ \A d \in a + 1..fs[1].commit - 1 : Size(d) = 0
      BY <1>1, <1>5 DEF Run
    <3>2. fs[1].commit - 1 \in a..b
      BY <1>1, <3>1
    <3>3. Complete(e, fs[1].commit - 1)
      BY <1>3, <3>1, <3>2
    <3> QED
      BY <1>1, <1>2, <3>1, <3>3 DEF Follows
  <2>2. Chain(p \o fs) /\ (p \o fs)[Len(p \o fs)] = fs[Len(fs)]
    BY <1>1, <1>5, <2>1, ChainContinues DEF Run, e
  <2>3. Complete(fs[Len(fs)], b) /\ fs[Len(fs)].commit <= b
    <3>1. fs[Len(fs)].commit \in a + 1..b
      BY <1>1, <1>5
    <3>2. \A d \in fs[Len(fs)].commit + 1..b : d \in a + 1..b
      BY <1>1, <3>1
    <3> QED
      BY <1>1, <1>5, <3>1, <3>2 DEF Run, Complete
  <2> QED
    BY <2>2, <2>3 DEF Reaches
<1> QED
  BY <1>4, <1>5

-----------------------------------------------------------------------------
(* What the frames leave of a client                                       *)

\* Its path is continued, or begun again without what waited.
LEMMA PathGoes ==
  ASSUME FeedTypes, QueuesWait, NEW s \in Client, NEW fs, Frames(fs),
         NEW k \in Takes(s, Len(fs)), blocked[s] => fs \in Seq(Position),
         NEW g \in Seq(Position), NEW o \in Position,
         Chain(((<<o>> \o g) \o Changes(queue[s])) \o Changes(fs))
  PROVE  /\ g \o Receives(s, fs, k) \in Seq(Position)
         /\ (<<o>> \o (g \o Receives(s, fs, k))) \o Changes(Waits(s, fs, k))
              = ((<<o>> \o g) \o Changes(queue[s])) \o Changes(fs)
         /\ Chain((<<o>> \o (g \o Receives(s, fs, k))) \o Changes(<<>>))
<1> DEFINE w == Changes(Wrote(s, fs, k))
           r == Changes(Waits(s, fs, k))
           q == Changes(queue[s])
           f == Changes(fs)
           l == <<o>> \o (g \o w)
<1>1. Receives(s, fs, k) = w
  BY DEF Receives
<1>2. q \o f = w \o r
  BY FramesGo
<1>3. Frames(queue[s])
  BY DEF QueuesWait
<1>4. w \in Seq(Position) /\ r \in Seq(Position) /\ q \in Seq(Position) /\ f \in Seq(Position)
  BY <1>3, FramesGo, ChangesOfFrames
<1>5. <<o>> \in Seq(Position)
  OBVIOUS
<1> HIDE DEF w, r, q, f
<1>6. g \o w \in Seq(Position) /\ l \in Seq(Position) /\ <<o>> \o g \in Seq(Position)
  BY <1>4, <1>5, ConcatProperties
<1>7. l \o r = ((<<o>> \o g) \o q) \o f
  <2> DEFINE Cat(s1, s2) == s1 \o s2
             S == Seq(Position)
             x == <<o>>
  <2>1. \A y, g1, w1, r1, q1, f1 \in S :
          Cat(q1, f1) = Cat(w1, r1) => Cat(Cat(y, Cat(g1, w1)), r1) = Cat(Cat(Cat(y, g1), q1), f1)
    BY Regroup
  <2>2. x \in S /\ g \in S /\ w \in S /\ r \in S /\ q \in S /\ f \in S /\ Cat(q, f) = Cat(w, r)
    BY <1>2, <1>4, <1>5
  <2> HIDE DEF Cat, S, x
  <2>3. Cat(Cat(x, Cat(g, w)), r) = Cat(Cat(Cat(x, g), q), f)
    BY <2>1, <2>2
  <2> QED
    BY <2>3 DEF Cat, x
<1>8. l # <<>>
  BY <1>5, <1>6, ConcatEqualIffEmpty
<1>9. Chain(l \o r)
  BY <1>7 DEF q, f
<1> HIDE DEF l
<1>10. Chain(l)
  BY <1>4, <1>6, <1>8, <1>9, ChainBegins
<1>11. l \o Changes(<<>>) = l
  BY <1>6, EmptySeq, ChangesAreFrames, ConcatEmptySeq
<1> QED
  BY <1>1, <1>6, <1>7, <1>10, <1>11 DEF l, r, q, f

\* Its cursor and that of its subscription.
LEMMA CursorGoes ==
  ASSUME NEW w, Frames(w), NEW g \in Seq(Position), NEW c \in Position \cup {NoCursor},
         NEW sn \in {NoCursor, c}, c # NoCursor => g # <<>> /\ c = g[Len(g)]
  PROVE  LET h == g \o Changes(w) IN
         /\ CursorAfter(w, c) \in Position \cup {NoCursor}
         /\ CursorAfter(w, sn) \in {NoCursor, CursorAfter(w, c)}
         /\ CursorAfter(w, c) # NoCursor => h # <<>> /\ CursorAfter(w, c) = h[Len(h)]
<1> DEFINE d == Changes(w)
           h == g \o d
<1>1. d \in Seq(Position)
  BY ChangesOfFrames
<1>2. /\ CursorAfter(w, c) = IF d = <<>> THEN c ELSE d[Len(d)]
      /\ CursorAfter(w, sn) = IF d = <<>> THEN sn ELSE d[Len(d)]
  BY DEF CursorAfter, Last
<1> HIDE DEF d
<1>3. CASE d = <<>>
  <2>1. h = g
    BY <1>3, ConcatEmptySeq
  <2> QED
    BY <1>2, <1>3, <2>1 DEF d
<1>4. CASE d # <<>>
  <2>1. Len(d) \in Nat \ {0} /\ Len(g) \in Nat
    BY <1>1, <1>4, EmptySeq
  <2>2. d[Len(d)] \in Position
    BY <1>1, <2>1, ElementOfSeq
  <2>3. h # <<>> /\ Len(h) = Len(g) + Len(d) /\ \A i \in 1..Len(d) : h[Len(g) + i] = d[i]
    BY <1>1, <1>4, CatParts, ConcatEqualIffEmpty
  <2>4. h[Len(h)] = d[Len(d)]
    BY <2>1, <2>3
  <2> QED
    BY <1>2, <1>4, <2>2, <2>3, <2>4 DEF d
<1> QED
  BY <1>3, <1>4 DEF d

\* The same client in the next state.
LEMMA SamePath ==
  ASSUME NEW s \in Client, UNCHANGED made, NEW p, Chain(p), Path(s)' = p
  PROVE  Chain(Path(s))' /\ \A c : Reaches(p, c) /\ last' = c => Reaches(Path(s), last)'
  BY DEF Chain, End, Change, Follows, Complete, Size, Head0, Reaches

\* Elements of a chain.
LEMMA ChainElements ==
  ASSUME MadeTypes, NEW p, Chain(p)
  PROVE  /\ Len(p) \in Nat \ {0}
         /\ \A i \in 1..Len(p) : /\ p[i] \in Position
                                 /\ p[i].commit \in 0..Head0
                                 /\ p[i].commit \in Nat
  <1>1. p \in Seq(Position) /\ Len(p) \in Nat \ {0}
    BY EmptySeq DEF Chain
  <1>2. \A i \in 1..Len(p) : p[i] \in Position
    BY <1>1, ElementOfSeq
  <1>3. \A i \in 1..Len(p) : p[i].commit \in 0..Head0
    <2>1. TAKE i \in 1..Len(p)
    <2>2. CASE i = 1
      BY <2>2 DEF Chain, End
    <2>3. CASE i # 1
      <3>1. i \in 2..Len(p)
        BY <1>1, <2>3
      <3>2. p[i].commit \in 1..Head0
        BY <3>1 DEF Chain, Change
      <3> QED
        BY <3>2, CommitParts
    <2> QED
      BY <2>2, <2>3
  <1>4. Head0 \in Nat
    BY CommitParts
  <1> QED
    BY <1>1, <1>2, <1>3, <1>4

\* The same chain in a longer history.
LEMMA GrownPath ==
  ASSUME MadeTypes, NEW s \in Client, NEW x, made' = Append(made, x),
         NEW p, Chain(p), Path(s)' = p
  PROVE  Chain(Path(s))' /\ \A c \in 0..Head0 : Reaches(p, c) /\ last' = c => Reaches(Path(s), last)'
<1>1. /\ Head0 \in Nat /\ Head0' = Head0 + 1
      /\ \A c \in 1..Head0 : made'[c] = made[c]
      /\ \A c \in 0..Head0 : Size(c)' = Size(c)
  <2>1. made \in Seq([changes : 0..MaxChanges, derives : BOOLEAN, rewrite : BOOLEAN])
    BY DEF MadeTypes
  <2>2. Head0 \in Nat /\ Head0' = Head0 + 1 /\ \A c \in 1..Head0 : made'[c] = made[c]
    BY <2>1 DEF Head0
  <2>3. \A c \in 0..Head0 : c = 0 \/ c \in 1..Head0
    BY <2>2
  <2>4. Size(0)' = Size(0) /\ \A c \in 1..Head0 : Size(c)' = Size(c)
    BY <2>2 DEF Size
  <2> QED
    BY <2>2, <2>3, <2>4
<1>2. ASSUME NEW q \in Position, q.commit \in 0..Head0, NEW c \in 0..Head0, Complete(q, c)
      PROVE  Complete(q, c)'
  <2>1. \A d \in q.commit + 1..c : d \in 1..Head0 /\ d \in 0..Head0
    BY <1>1, <1>2
  <2> QED
    BY <1>1, <1>2, <2>1 DEF Complete
<1>3. ASSUME NEW q \in Position, q.commit \in 0..Head0, NEW r, Change(r), Follows(q, r)
      PROVE  Follows(q, r)'
  <2>1. r.commit \in 1..Head0
    BY <1>3 DEF Change
  <2>2. r.commit - 1 \in 0..Head0 /\ made'[r.commit] = made[r.commit]
    <3>1. Head0 \in Nat
      BY <1>1
    <3>2. r.commit - 1 \in 0..Head0
      BY <2>1, <3>1
    <3>3. made'[r.commit] = made[r.commit]
      BY <1>1, <2>1
    <3> QED
      BY <3>2, <3>3
  <2>3. Complete(q, r.commit - 1) => Complete(q, r.commit - 1)'
    BY <1>2, <1>3, <2>2
  <2> QED
    BY <1>3, <2>2, <2>3 DEF Follows
<1>4. Len(p) \in Nat \ {0} /\ \A i \in 1..Len(p) : p[i] \in Position /\ p[i].commit \in 0..Head0
  BY ChainElements
<1>5. \A i \in 2..Len(p) : Change(p[i]) /\ Change(p[i])'
  <2>1. \A i \in 2..Len(p) : Change(p[i])
    BY DEF Chain
  <2> QED
    BY <1>1, <2>1 DEF Change
<1>6. End(p[1])'
  BY <1>1 DEF Chain, End
<1>7. \A i \in 1..Len(p) - 1 : Follows(p[i], p[i + 1])'
  <2>1. TAKE i \in 1..Len(p) - 1
  <2>2. i \in 1..Len(p) /\ i + 1 \in 2..Len(p)
    BY <1>4
  <2>3. Follows(p[i], p[i + 1]) /\ Change(p[i + 1]) /\ p[i] \in Position /\ p[i].commit \in 0..Head0
    BY <1>4, <1>5, <2>2 DEF Chain
  <2> QED
    BY <1>3, <2>3
<1>8. Chain(Path(s))'
  <2>1. p \in Seq(Position) /\ p # <<>>
    BY DEF Chain
  <2> QED
    BY <1>5, <1>6, <1>7, <2>1 DEF Chain
<1>9. ASSUME NEW c \in 0..Head0, Reaches(p, c), last' = c
      PROVE  Reaches(Path(s), last)'
  <2>1. Complete(p[Len(p)], c)'
    BY <1>2, <1>4, <1>9 DEF Reaches
  <2> QED
    BY <1>9, <2>1 DEF Reaches
<1> QED
  BY <1>8, <1>9

\* A commit lands, or replaces the history.
LEMMA HistoryGrows ==
  ASSUME FeedInvariant, NEW n \in 0..MaxChanges, NEW d \in BOOLEAN, NEW w \in BOOLEAN, w => d,
         Head0 < MaxCommits,
         made' = Append(made, [changes |-> n, derives |-> d, rewrite |-> w]),
         UNCHANGED <<feed, client>>
  PROVE  FeedInvariant'
<1> DEFINE T == [changes : 0..MaxChanges, derives : BOOLEAN, rewrite : BOOLEAN]
           x == [changes |-> n, derives |-> d, rewrite |-> w]
<1>1. MadeTypes /\ made \in Seq(T) /\ x \in T
  BY DEF FeedInvariant, FeedTypes, MadeTypes
<1>2. MadeTypes'
  <2>1. x.rewrite => x.derives
    OBVIOUS
  <2> HIDE DEF T, x
  <2>2. /\ made' \in Seq(T) /\ Len(made') = Len(made) + 1 /\ Len(made) \in Nat
        /\ \A c \in 1..Len(made) : made'[c] = made[c]
        /\ made'[Len(made) + 1] = x
    BY <1>1 DEF x
  <2>3. MaxCommits \in Nat
    BY ChangeFeedAssumption DEF ChangeFeedAssumption
  <2>4. Len(made') <= MaxCommits
    BY <2>2, <2>3 DEF Head0
  <2>5. \A c \in 1..Len(made') : made'[c].rewrite => made'[c].derives
    <3>1. TAKE c \in 1..Len(made')
    <3>2. CASE c \in 1..Len(made)
      BY <1>1, <2>2, <3>2 DEF MadeTypes, Head0
    <3>3. CASE c = Len(made) + 1
      BY <2>1, <2>2, <3>3
    <3> QED
      BY <2>2, <3>2, <3>3
  <2> QED
    BY <2>2, <2>4, <2>5 DEF MadeTypes, Head0, T
<1>3. Head0 \in Nat /\ Head0' = Head0 + 1
  BY <1>1 DEF Head0
<1>4. FeedTypes'
  BY <1>2, <1>3 DEF FeedInvariant, FeedTypes, feed, client
<1>5. QueuesWait' /\ CursorIsLast'
  BY DEF FeedInvariant, QueuesWait, CursorIsLast, Frames, feed, client
<1>6. PathsAreChains'
  <2>1. SUFFICES ASSUME NEW s \in Client
                 PROVE  Chain(Path(s))' /\ (stage'[s] = "open" => Reaches(Path(s), last)')
    BY DEF PathsAreChains
  <2>2. Chain(Path(s)) /\ (stage[s] = "open" => Reaches(Path(s), last)) /\ last \in 0..Head0
    BY DEF FeedInvariant, PathsAreChains, FeedTypes
  <2>3. Path(s)' = Path(s) /\ stage' = stage /\ last' = last
    BY DEF Path, Changes, feed, client
  <2> QED
    BY <1>1, <2>2, <2>3, GrownPath
<1> QED
  BY <1>4, <1>5, <1>6 DEF FeedInvariant

LEMMA InitFeed == Init => FeedInvariant
<1> SUFFICES ASSUME Init PROVE FeedInvariant
  OBVIOUS
<1>1. MaxCommits \in Nat /\ MaxChanges \in Nat /\ MaxQueueEvents \in Nat /\ Len(<<>>) = 0
  BY ChangeFeedAssumption DEF ChangeFeedAssumption
<1>2. MadeTypes /\ Head0 = 0
  BY <1>1 DEF Init, MadeTypes, Head0
<1>3. EndOf(0) \in Position /\ End(EndOf(0))
  BY <1>1, <1>2 DEF EndOf, Position, Size, End
<1>4. FeedTypes
  <2>1. <<>> \in Seq(Frame) /\ <<>> \in Seq(Position)
    BY EmptySeq
  <2>2. /\ queue \in [Client -> Seq(Frame)] /\ got \in [Client -> Seq(Position)]
        /\ origin \in [Client -> Position]
    BY <1>3, <2>1 DEF Init
  <2>3. /\ sent \in [Client -> Position \cup {NoCursor}]
        /\ cursor \in [Client -> Position \cup {NoCursor}]
        /\ blocked \in [Client -> BOOLEAN]
        /\ stage \in [Client -> {"out", "joining", "open", "overflowed"}]
    BY DEF Init
  <2>4. last \in 0..Head0 /\ timer \in BOOLEAN
    <3>1. last = 0
      BY DEF Init
    <3>2. last \in 0..Head0
      BY <1>2, <3>1
    <3>3. timer \in BOOLEAN
      BY Zenon DEF Init
    <3> QED
      BY <3>2, <3>3
  <2> QED
    BY <1>2, <2>2, <2>3, <2>4 DEF FeedTypes
<1>5. QueuesWait /\ CursorIsLast
  BY <1>1 DEF Init, QueuesWait, CursorIsLast, Frames
<1>6. PathsAreChains
  <2>1. SUFFICES ASSUME NEW s \in Client PROVE Chain(Path(s)) /\ stage[s] # "open"
    BY DEF PathsAreChains
  <2>2. Path(s) = <<EndOf(0)>>
    BY <1>3 DEF Init, Path, Changes
  <2> QED
    BY <1>3, <2>2 DEF Init, Chain
<1> QED
  BY <1>4, <1>5, <1>6 DEF FeedInvariant

-----------------------------------------------------------------------------
(* The steps of one client                                                 *)

LEMMA PathParts ==
  ASSUME FeedInvariant, NEW s \in Client
  PROVE  /\ MadeTypes /\ Chain(Path(s)) /\ last \in 0..Head0
         /\ origin[s] \in Position /\ got[s] \in Seq(Position) /\ Frames(queue[s])
         /\ Changes(queue[s]) \in Seq(Position) /\ <<origin[s]>> \in Seq(Position)
         /\ <<origin[s]>> \o got[s] \in Seq(Position) /\ <<origin[s]>> \o got[s] # <<>>
<1>1. /\ MadeTypes /\ Chain(Path(s)) /\ last \in 0..Head0
      /\ origin[s] \in Position /\ got[s] \in Seq(Position) /\ Frames(queue[s])
  BY DEF FeedInvariant, FeedTypes, QueuesWait, PathsAreChains
<1>2. <<origin[s]>> \in Seq(Position) /\ <<origin[s]>> # <<>>
  BY <1>1
<1>3. Changes(queue[s]) \in Seq(Position)
  BY <1>1, ChangesOfFrames
<1>4. <<origin[s]>> \o got[s] \in Seq(Position) /\ <<origin[s]>> \o got[s] # <<>>
  BY <1>1, <1>2, ConcatProperties, ConcatEqualIffEmpty
<1> QED
  BY <1>1, <1>2, <1>3, <1>4

\* A client that nothing happens to.
LEMMA PathStays ==
  ASSUME FeedInvariant, UNCHANGED made, NEW s \in Client, queue'[s] = queue[s],
         got'[s] = got[s], origin'[s] = origin[s]
  PROVE  Chain(Path(s))' /\ \A c : Reaches(Path(s), c) /\ last' = c => Reaches(Path(s), last)'
<1>1. Path(s)' = Path(s)
  BY DEF Path, Changes
<1> QED
  BY <1>1, PathParts, SamePath

\* A client that leaves.
LEMMA PathCut ==
  ASSUME FeedInvariant, UNCHANGED made, NEW s \in Client, queue'[s] = <<>>,
         got'[s] = got[s], origin'[s] = origin[s]
  PROVE  Chain(Path(s))'
<1> DEFINE l == <<origin[s]>> \o got[s]
<1>1. /\ l \in Seq(Position) /\ l # <<>> /\ Changes(queue[s]) \in Seq(Position)
      /\ Chain(l \o Changes(queue[s]))
  BY PathParts DEF Path
<1> HIDE DEF l
<1>2. Chain(l)
  BY <1>1, ChainBegins
<1>3. l \o <<>> = l
  BY <1>1, ConcatEmptySeq
<1>4. Path(s)' = l
  <2>1. Path(s)' = l \o <<>>
    BY DEF Path, Changes, l
  <2> QED
    BY <1>3, <2>1
<1> QED
  BY <1>2, <1>4, SamePath

LEMMA SameTypes ==
  ASSUME MadeTypes, UNCHANGED made
  PROVE  MadeTypes' /\ Head0' = Head0
  BY DEF MadeTypes, Head0

LEMMA SubscribeStep ==
  ASSUME FeedInvariant, NEW s \in Client, Subscribe(s)
  PROVE  FeedInvariant'
<1>1. /\ stage' = [stage EXCEPT ![s] = "joining"] /\ sent' = [sent EXCEPT ![s] = NoCursor]
      /\ made' = made /\ last' = last /\ timer' = timer /\ queue' = queue /\ blocked' = blocked
      /\ cursor' = cursor /\ got' = got /\ origin' = origin /\ stage[s] \in {"out", "overflowed"}
  BY DEF Subscribe, feed
<1>2. FeedTypes'
  BY <1>1, SameTypes DEF FeedInvariant, FeedTypes
<1>3. QueuesWait'
  BY <1>1 DEF FeedInvariant, FeedTypes, QueuesWait, Frames
<1>4. CursorIsLast'
  BY <1>1 DEF FeedInvariant, FeedTypes, CursorIsLast
<1>5. PathsAreChains'
  BY <1>1, PathStays DEF FeedInvariant, FeedTypes, PathsAreChains
<1> QED
  BY <1>2, <1>3, <1>4, <1>5 DEF FeedInvariant

LEMMA RejectStep ==
  ASSUME FeedInvariant, NEW s \in Client, RejectSubscriber(s)
  PROVE  FeedInvariant'
<1>1. /\ stage' = [stage EXCEPT ![s] = "out"]
      /\ cursor' = [cursor EXCEPT ![s] = NoCursor] \/ cursor' = cursor
      /\ made' = made /\ last' = last /\ timer' = timer /\ queue' = queue /\ blocked' = blocked
      /\ sent' = sent /\ got' = got /\ origin' = origin /\ stage[s] = "joining"
  BY DEF RejectSubscriber, feed
<1>2. FeedTypes'
  BY <1>1, SameTypes DEF FeedInvariant, FeedTypes
<1>3. QueuesWait'
  BY <1>1 DEF FeedInvariant, FeedTypes, QueuesWait, Frames
<1>4. CursorIsLast'
  BY <1>1 DEF FeedInvariant, FeedTypes, CursorIsLast
<1>5. PathsAreChains'
  BY <1>1, PathStays DEF FeedInvariant, FeedTypes, PathsAreChains
<1> QED
  BY <1>2, <1>3, <1>4, <1>5 DEF FeedInvariant

LEMMA LeaveStep ==
  ASSUME FeedInvariant, NEW s \in Client, Leave(s)
  PROVE  FeedInvariant'
<1>1. /\ stage' = [stage EXCEPT ![s] = "out"]
      /\ queue' = [queue EXCEPT ![s] = <<>>] /\ blocked' = [blocked EXCEPT ![s] = FALSE]
      /\ timer' \in BOOLEAN
      /\ made' = made /\ last' = last /\ cursor' = cursor
      /\ sent' = sent /\ got' = got /\ origin' = origin /\ stage[s] = "open"
  BY DEF Leave, FeedInvariant, FeedTypes
<1>2. FeedTypes'
  BY <1>1, SameTypes, EmptySeq DEF FeedInvariant, FeedTypes
<1>3. QueuesWait'
  <2>1. /\ Frames(<<>>) /\ Len(<<>>) = 0 /\ MaxQueueEvents \in Nat
    BY EmptySeq, ChangesAreFrames, ChangeFeedAssumption DEF ChangeFeedAssumption
  <2> QED
    BY <1>1, <2>1 DEF FeedInvariant, FeedTypes, QueuesWait, Frames
<1>4. CursorIsLast'
  BY <1>1 DEF FeedInvariant, FeedTypes, CursorIsLast
<1>5. PathsAreChains'
  <2>1. SUFFICES ASSUME NEW t \in Client
                 PROVE  Chain(Path(t))' /\ (stage'[t] = "open" => Reaches(Path(t), last)')
    BY DEF PathsAreChains
  <2>2. CASE t = s
    <3>1. queue'[t] = <<>> /\ stage'[t] = "out"
      BY <1>1, <2>2 DEF FeedInvariant, FeedTypes
    <3> QED
      BY <1>1, <3>1, PathCut
  <2>3. CASE t # s
    <3>1. queue'[t] = queue[t] /\ stage'[t] = stage[t]
      BY <1>1, <2>3 DEF FeedInvariant, FeedTypes
    <3> QED
      BY <1>1, <3>1, PathStays DEF FeedInvariant, PathsAreChains
  <2> QED
    BY <2>2, <2>3
<1> QED
  BY <1>2, <1>3, <1>4, <1>5 DEF FeedInvariant

\* The socket drains.
LEMMA DrainStep ==
  ASSUME FeedInvariant, NEW s \in Client, Drain(s)
  PROVE  FeedInvariant'
<1> DEFINE q == queue[s]
           l == <<origin[s]>> \o got[s]
<1>1. PICK k \in Takes(s, Len(q)) :
        /\ queue' = [queue EXCEPT ![s] = SubSeq(q, k + 1, Len(q))]
        /\ blocked' = [blocked EXCEPT ![s] = k <= Len(q)]
        /\ sent' = [sent EXCEPT ![s] = CursorAfter(Written(q, k), sent[s])]
        /\ cursor' = [cursor EXCEPT ![s] = CursorAfter(Written(q, k), cursor[s])]
        /\ got' = [got EXCEPT ![s] = got[s] \o Changes(Written(q, k))]
  BY DEF Drain
<1>2. /\ made' = made /\ last' = last /\ timer' = timer /\ stage' = stage /\ origin' = origin
      /\ stage[s] = "open" /\ blocked[s]
  BY DEF Drain, feed
<1>3. Frames(q) /\ Len(q) \in Nat /\ Len(q) <= MaxQueueEvents /\ s \notin Steady
  BY <1>2 DEF FeedInvariant, QueuesWait, Frames
<1>4. k \in 1..Len(q) + 1
  BY <1>3 DEF Takes
<1> DEFINE w == Written(q, k)
           r == SubSeq(q, k + 1, Len(q))
<1>5. /\ Frames(w) /\ Frames(r) /\ Changes(q) = Changes(w) \o Changes(r)
      /\ k = Len(q) + 1 => r = <<>>
  BY <1>3, <1>4, FramesSplit
<1>6. Len(r) <= MaxQueueEvents
  <2>1. q \in Seq(Frame)
    BY <1>3 DEF Frames
  <2>2. Len(r) \in Nat /\ Len(r) <= Len(q)
    <3>1. \A i \in k + 1..Len(q) : q[i] \in Frame
      BY <1>3, <1>4, <2>1, ElementOfSeq
    <3>2. k + 1 \in Int /\ Len(q) \in Int
      BY <1>3, <1>4
    <3>3. Len(r) = IF k + 1 <= Len(q) THEN Len(q) - (k + 1) + 1 ELSE 0
      <4> HIDE DEF q
      <4> QED
        BY <3>1, <3>2, SubSeqProperties
    <3> QED
      BY <1>3, <1>4, <3>3
  <2>3. MaxQueueEvents \in Nat
    BY ChangeFeedAssumption DEF ChangeFeedAssumption
  <2> HIDE DEF q, r
  <2> QED
    BY <1>3, <2>2, <2>3
<1>7. Changes(w) \in Seq(Position) /\ Changes(r) \in Seq(Position)
  BY <1>5, ChangesOfFrames
<1>8. /\ got[s] \in Seq(Position) /\ sent[s] \in {NoCursor, cursor[s]}
      /\ cursor[s] \in Position \cup {NoCursor}
      /\ cursor[s] # NoCursor => got[s] # <<>> /\ cursor[s] = got[s][Len(got[s])]
  BY DEF FeedInvariant, FeedTypes, CursorIsLast
<1> HIDE DEF q, w, r
<1>9. /\ CursorAfter(w, cursor[s]) \in Position \cup {NoCursor}
      /\ CursorAfter(w, sent[s]) \in {NoCursor, CursorAfter(w, cursor[s])}
      /\ CursorAfter(w, cursor[s]) # NoCursor =>
           /\ got[s] \o Changes(w) # <<>>
           /\ CursorAfter(w, cursor[s]) = (got[s] \o Changes(w))[Len(got[s] \o Changes(w))]
  BY <1>5, <1>8, CursorGoes
<1>10. got[s] \o Changes(w) \in Seq(Position)
  BY <1>7, <1>8, ConcatProperties
<1>11. /\ queue' = [queue EXCEPT ![s] = r]
       /\ sent' = [sent EXCEPT ![s] = CursorAfter(w, sent[s])]
       /\ cursor' = [cursor EXCEPT ![s] = CursorAfter(w, cursor[s])]
       /\ got' = [got EXCEPT ![s] = got[s] \o Changes(w)]
       /\ blocked' = [blocked EXCEPT ![s] = k <= Len(q)]
  BY <1>1 DEF w, r, q
<1>12. FeedTypes'
  <2>1. r \in Seq(Frame)
    BY <1>5 DEF Frames
  <2>2. (k <= Len(q)) \in BOOLEAN
    OBVIOUS
  <2>3. blocked' \in [Client -> BOOLEAN]
    BY <1>11, <2>2 DEF FeedInvariant, FeedTypes
  <2> QED
    BY <1>2, <1>9, <1>10, <1>11, <2>1, <2>3, SameTypes DEF FeedInvariant, FeedTypes
<1>13. QueuesWait'
  <2>1. ASSUME NEW t \in Client
        PROVE  /\ Frames(queue'[t]) /\ Len(queue'[t]) <= MaxQueueEvents
               /\ ~blocked'[t] => queue'[t] = <<>>
               /\ stage'[t] # "open" => ~blocked'[t]
               /\ t \in Steady => ~blocked'[t] /\ stage'[t] # "overflowed"
    <3>1. CASE t = s
      <4>1. queue'[t] = r /\ (blocked'[t] <=> k <= Len(q))
        BY <1>11, <3>1 DEF FeedInvariant, FeedTypes
      <4>2. ~(k <= Len(q)) => k = Len(q) + 1
        BY <1>3, <1>4 DEF q
      <4> QED
        BY <1>2, <1>3, <1>5, <1>6, <3>1, <4>1, <4>2
    <3>2. CASE t # s
      <4>1. queue'[t] = queue[t] /\ blocked'[t] = blocked[t]
        BY <1>11, <3>2 DEF FeedInvariant, FeedTypes
      <4> QED
        BY <1>2, <4>1 DEF FeedInvariant, QueuesWait
    <3> QED
      BY <3>1, <3>2
  <2> QED
    BY <2>1 DEF QueuesWait, Frames
<1>14. CursorIsLast'
  BY <1>2, <1>9, <1>11 DEF FeedInvariant, FeedTypes, CursorIsLast
<1>15. PathsAreChains'
  <2>1. SUFFICES ASSUME NEW t \in Client
                 PROVE  Chain(Path(t))' /\ (stage'[t] = "open" => Reaches(Path(t), last)')
    BY DEF PathsAreChains
  <2>2. CASE t = s
    <3>1. Path(t)' = (<<origin[s]>> \o (got[s] \o Changes(w))) \o Changes(r)
      BY <1>2, <1>11, <2>2 DEF Path, Changes, FeedInvariant, FeedTypes
    <3>2. Path(t)' = Path(t)
      <4> DEFINE Cat(x, y) == x \o y
                 S == Seq(Position)
                 o == <<origin[s]>>
                 g == got[s]
                 cw == Changes(w)
                 cr == Changes(r)
      <4>1. \A x, y, z \in S : Cat(Cat(x, y), z) = Cat(x, Cat(y, z)) /\ Cat(x, y) \in S
        BY Associates
      <4>2. o \in S /\ g \in S /\ cw \in S /\ cr \in S /\ Cat(cw, cr) = Changes(q)
        BY <1>5, <1>7, PathParts
      <4>3. Path(t) = Cat(Cat(o, g), Changes(q))
        BY <2>2 DEF Path, q
      <4>4. Path(t)' = Cat(Cat(o, Cat(g, cw)), cr)
        BY <3>1
      <4> HIDE DEF Cat, S, o, g, cw, cr
      <4>5. Cat(o, Cat(g, cw)) = Cat(Cat(o, g), cw)
        BY <4>1, <4>2
      <4>6. Cat(o, g) \in S
        BY <4>1, <4>2
      <4> QED
        BY <4>1, <4>2, <4>3, <4>4, <4>5, <4>6
    <3> QED
      BY <1>2, <3>2, PathParts, SamePath DEF FeedInvariant, PathsAreChains
  <2>3. CASE t # s
    <3>1. queue'[t] = queue[t] /\ got'[t] = got[t]
      BY <1>11, <2>3 DEF FeedInvariant, FeedTypes
    <3> QED
      BY <1>2, <3>1, PathStays DEF FeedInvariant, PathsAreChains
  <2> QED
    BY <2>2, <2>3
<1> QED
  BY <1>12, <1>13, <1>14, <1>15 DEF FeedInvariant

-----------------------------------------------------------------------------
(* Frames for a client                                                     *)

\* The invariant, of one client.
Sound(s) ==
  /\ queue[s] \in Seq(Frame) /\ blocked[s] \in BOOLEAN
  /\ cursor[s] \in Position \cup {NoCursor} /\ sent[s] \in Position \cup {NoCursor}
  /\ got[s] \in Seq(Position) /\ origin[s] \in Position
  /\ Frames(queue[s]) /\ Len(queue[s]) <= MaxQueueEvents
  /\ ~blocked[s] => queue[s] = <<>>
  /\ stage[s] # "open" => ~blocked[s]
  /\ s \in Steady => ~blocked[s] /\ stage[s] # "overflowed"
  /\ sent[s] \in {NoCursor, cursor[s]}
  /\ stage[s] = "joining" => sent[s] = NoCursor
  /\ cursor[s] # NoCursor => got[s] # <<>> /\ cursor[s] = got[s][Len(got[s])]
  /\ Chain(Path(s)) /\ (stage[s] = "open" => Reaches(Path(s), last))

\* A client that is left alone stays so, when its feed goes nowhere.
LEMMA StaysSound ==
  ASSUME FeedInvariant, UNCHANGED made, NEW s \in Client, queue'[s] = queue[s],
         blocked'[s] = blocked[s], sent'[s] = sent[s], cursor'[s] = cursor[s],
         got'[s] = got[s], origin'[s] = origin[s], stage'[s] = stage[s],
         stage[s] = "open" => last' = last
  PROVE  Sound(s)'
<1>1. /\ queue[s] \in Seq(Frame) /\ blocked[s] \in BOOLEAN
      /\ cursor[s] \in Position \cup {NoCursor} /\ sent[s] \in Position \cup {NoCursor}
      /\ got[s] \in Seq(Position) /\ origin[s] \in Position
  BY DEF FeedInvariant, FeedTypes
<1>2. Chain(Path(s))' /\ (stage'[s] = "open" => Reaches(Path(s), last)')
  BY PathStays DEF FeedInvariant, PathsAreChains
<1>3. /\ Frames(queue[s])' /\ Len(queue'[s]) <= MaxQueueEvents
      /\ ~blocked'[s] => queue'[s] = <<>>
      /\ stage'[s] # "open" => ~blocked'[s]
      /\ s \in Steady => ~blocked'[s] /\ stage'[s] # "overflowed"
  BY DEF FeedInvariant, QueuesWait, Frames
<1>4. /\ sent'[s] \in {NoCursor, cursor'[s]} /\ (stage'[s] = "joining" => sent'[s] = NoCursor)
      /\ cursor'[s] # NoCursor => got'[s] # <<>> /\ cursor'[s] = got'[s][Len(got'[s])]
  BY DEF FeedInvariant, CursorIsLast
<1> QED
  BY <1>1, <1>2, <1>3, <1>4 DEF Sound

\* When every client is, the invariant holds.
LEMMA AllSound ==
  ASSUME FeedInvariant, UNCHANGED made, last' \in 0..Head0, timer' \in BOOLEAN,
         stage' \in [Client -> {"out", "joining", "open", "overflowed"}],
         queue' = [s \in Client |-> queue'[s]], blocked' = [s \in Client |-> blocked'[s]],
         sent' = [s \in Client |-> sent'[s]], cursor' = [s \in Client |-> cursor'[s]],
         got' = [s \in Client |-> got'[s]], origin' = [s \in Client |-> origin'[s]],
         \A s \in Client : Sound(s)'
  PROVE  FeedInvariant'
<1>1. MadeTypes' /\ Head0' = Head0
  BY SameTypes DEF FeedInvariant, FeedTypes
<1>2. queue' \in [Client -> Seq(Frame)] /\ blocked' \in [Client -> BOOLEAN]
  BY DEF Sound
<1>3. /\ sent' \in [Client -> Position \cup {NoCursor}]
      /\ cursor' \in [Client -> Position \cup {NoCursor}]
  BY DEF Sound
<1>4. got' \in [Client -> Seq(Position)] /\ origin' \in [Client -> Position]
  BY DEF Sound
<1>5. FeedTypes'
  BY <1>1, <1>2, <1>3, <1>4 DEF FeedTypes
<1>6. QueuesWait'
  BY DEF QueuesWait, Sound
<1>7. CursorIsLast'
  BY DEF CursorIsLast, Sound
<1>8. PathsAreChains'
  BY DEF PathsAreChains, Sound
<1> QED
  BY <1>5, <1>6, <1>7, <1>8 DEF FeedInvariant

\* The client after the frames: g is what it had received since o.
LEMMA ClientAfter ==
  ASSUME FeedInvariant, UNCHANGED made, NEW s \in Client,
         NEW fs, Frames(fs), NEW k \in Takes(s, Len(fs)), blocked[s] => fs \in Seq(Position),
         NEW g \in Seq(Position), NEW o \in Position,
         cursor[s] # NoCursor => g # <<>> /\ cursor[s] = g[Len(g)],
         Chain(((<<o>> \o g) \o Changes(queue[s])) \o Changes(fs)),
         Reaches(((<<o>> \o g) \o Changes(queue[s])) \o Changes(fs), last'),
         NEW leaves \in BOOLEAN, Overflows(s, fs, k) => leaves,
         queue'[s] = IF leaves THEN <<>> ELSE Waits(s, fs, k),
         blocked'[s] = IF leaves THEN FALSE ELSE Blocks(s, fs, k),
         sent'[s] = SentAfter(s, fs, k),
         cursor'[s] = IF Overflows(s, fs, k) /\ sent'[s] # NoCursor THEN sent'[s]
                      ELSE CursorAfter(Wrote(s, fs, k), cursor[s]),
         got'[s] = g \o Receives(s, fs, k), origin'[s] = o,
         stage'[s] \in {"open", "out", "overflowed"}, stage'[s] = "open" <=> ~leaves,
         stage'[s] = "overflowed" => Overflows(s, fs, k)
  PROVE  Sound(s)'
<1> DEFINE w == Wrote(s, fs, k)
           r == Waits(s, fs, k)
<1>1. FeedTypes /\ QueuesWait /\ MaxQueueEvents \in Nat
  BY ChangeFeedAssumption DEF FeedInvariant, ChangeFeedAssumption
<1>2. /\ Frames(w) /\ Frames(r) /\ Blocks(s, fs, k) \in BOOLEAN
      /\ ~Blocks(s, fs, k) => r = <<>>
      /\ s \in Steady => ~Blocks(s, fs, k) /\ ~Overflows(s, fs, k)
  BY <1>1, FramesGo
<1>3. Frames(<<>>) /\ Len(<<>>) = 0
  BY EmptySeq, ChangesAreFrames
<1>4. /\ g \o Receives(s, fs, k) \in Seq(Position)
      /\ (<<o>> \o (g \o Receives(s, fs, k))) \o Changes(r)
           = ((<<o>> \o g) \o Changes(queue[s])) \o Changes(fs)
      /\ Chain((<<o>> \o (g \o Receives(s, fs, k))) \o Changes(<<>>))
  BY <1>1, PathGoes
<1>5. /\ sent[s] \in {NoCursor, cursor[s]} /\ cursor[s] \in Position \cup {NoCursor}
  BY DEF FeedInvariant, FeedTypes, CursorIsLast
<1>6. /\ CursorAfter(w, cursor[s]) \in Position \cup {NoCursor}
      /\ CursorAfter(w, sent[s]) \in {NoCursor, CursorAfter(w, cursor[s])}
      /\ CursorAfter(w, cursor[s]) # NoCursor =>
           /\ g \o Changes(w) # <<>>
           /\ CursorAfter(w, cursor[s]) = (g \o Changes(w))[Len(g \o Changes(w))]
  BY <1>2, <1>5, CursorGoes
<1>7. /\ sent'[s] \in {NoCursor, cursor'[s]} /\ cursor'[s] = CursorAfter(w, cursor[s])
      /\ got'[s] = g \o Changes(w)
  BY <1>6 DEF SentAfter, Receives
<1>8. ~leaves => Len(r) <= MaxQueueEvents
  <2>1. Len(r) \in Nat
    BY <1>2 DEF Frames
  <2>2. ~leaves => ~(Len(r) > MaxQueueEvents)
    BY DEF Overflows
  <2> HIDE DEF r
  <2> QED
    BY <1>1, <2>1, <2>2
<1>9. queue'[s] = (IF leaves THEN <<>> ELSE r) /\ r \in Seq(Frame) /\ <<>> \in Seq(Frame)
  BY <1>2, <1>3 DEF Frames
<1> HIDE DEF w, r
<1>10. /\ queue'[s] \in Seq(Frame) /\ Frames(queue[s])' /\ Len(queue'[s]) <= MaxQueueEvents
  BY <1>1, <1>2, <1>3, <1>8, <1>9 DEF Frames
<1>11. /\ blocked'[s] \in BOOLEAN /\ (~blocked'[s] => queue'[s] = <<>>)
       /\ stage'[s] # "open" => ~blocked'[s]
       /\ s \in Steady => ~blocked'[s] /\ stage'[s] # "overflowed"
  BY <1>2, <1>9
<1>12. /\ cursor'[s] \in Position \cup {NoCursor} /\ sent'[s] \in Position \cup {NoCursor}
       /\ cursor'[s] # NoCursor => got'[s] # <<>> /\ cursor'[s] = got'[s][Len(got'[s])]
  BY <1>6, <1>7
<1>13. Chain(Path(s))' /\ (stage'[s] = "open" => Reaches(Path(s), last)')
  <2>1. Path(s)' = (<<o>> \o (g \o Receives(s, fs, k))) \o Changes(queue'[s])
    BY DEF Path, Changes
  <2>2. CASE leaves
    <3>1. Path(s)' = (<<o>> \o (g \o Receives(s, fs, k))) \o Changes(<<>>)
      BY <1>9, <2>1, <2>2
    <3> QED
      BY <1>4, <2>2, <3>1, SamePath
  <2>3. CASE ~leaves
    <3>1. Path(s)' = ((<<o>> \o g) \o Changes(queue[s])) \o Changes(fs)
      BY <1>4, <1>9, <2>1, <2>3
    <3> QED
      BY <3>1, SamePath
  <2> QED
    BY <2>2, <2>3
<1> QED
  BY <1>4, <1>7, <1>10, <1>11, <1>12, <1>13 DEF Sound

\* The rest of the commit of a cursor, and the commits after it.
LEMMA ReplayContinues ==
  ASSUME MadeTypes, NEW p, Chain(p), NEW c, c = p[Len(p)], Change(c),
         NEW b \in c.commit..Head0, \A d \in c.commit..b : made[d].derives
  PROVE  /\ ReplayFrames(c, b) \in Seq(Position)
         /\ Chain(p \o ReplayFrames(c, b)) /\ Reaches(p \o ReplayFrames(c, b), b)
<1> DEFINE cs == ChangesOf(c.commit)
           n == Size(c.commit)
           rest == SubSeq(cs, c.ordinal + 1, n)
           more == ChangesBetween(c.commit, b)
<1>1. /\ Head0 \in Nat /\ c.commit \in 1..Head0 /\ n \in Nat /\ c.ordinal \in 1..n
      /\ b \in Nat /\ c \in Position /\ p \in Seq(Position)
  <2>1. Len(p) \in 1..Len(p) /\ p[Len(p)] \in Position
    BY ChainElements
  <2>2. c.commit \in 1..Head0 /\ c.ordinal \in 1..n
    BY DEF Change
  <2>3. Head0 \in Nat /\ n \in 0..MaxChanges /\ MaxChanges \in Nat
    BY <2>2, CommitParts, ChangeFeedAssumption DEF ChangeFeedAssumption
  <2>4. n \in Nat
    <3> HIDE DEF n
    <3> QED
      BY <2>3
  <2>5. b \in Nat
    <3> DEFINE m == c.commit
    <3>1. m \in 1..Head0 /\ b \in m..Head0
      BY <2>2
    <3> HIDE DEF m
    <3> QED
      BY <2>3, <3>1
  <2>6. p \in Seq(Position)
    BY DEF Chain
  <2> QED
    BY <2>1, <2>2, <2>3, <2>4, <2>5, <2>6
<1>2. /\ cs \in Seq(Position) /\ Len(cs) = n
      /\ \A o \in 1..n : cs[o] = [commit |-> c.commit, ordinal |-> o]
  BY <1>1, ChangesOfCommit
<1> HIDE DEF cs
<1>3. /\ rest \in Seq(Position) /\ Len(rest) = n - c.ordinal
      /\ \A i \in 1..n - c.ordinal : rest[i] = cs[c.ordinal + i]
  <2> HIDE DEF n
  <2>1. /\ c.ordinal + 1 \in Int /\ n \in Int /\ \A i \in c.ordinal + 1..n : cs[i] \in Position
    BY <1>1, <1>2, ElementOfSeq
  <2>2. /\ rest \in Seq(Position)
        /\ Len(rest) = IF c.ordinal + 1 <= n THEN n - (c.ordinal + 1) + 1 ELSE 0
        /\ \A i \in 1..n - (c.ordinal + 1) + 1 : rest[i] = cs[c.ordinal + 1 + i - 1]
    BY <2>1, SubSeqProperties
  <2> HIDE DEF rest
  <2>3. Len(rest) = n - c.ordinal
    BY <1>1, <2>2
  <2>4. ASSUME NEW i \in 1..n - c.ordinal
        PROVE  i \in 1..n - (c.ordinal + 1) + 1 /\ c.ordinal + 1 + i - 1 = c.ordinal + i
    BY <1>1
  <2>5. \A i \in 1..n - c.ordinal : rest[i] = cs[c.ordinal + i]
    BY <2>2, <2>4
  <2> QED
    BY <2>2, <2>3, <2>5
<1> HIDE DEF rest
<1>4. \A i \in 1..Len(rest) : rest[i] = [commit |-> c.commit, ordinal |-> c.ordinal + i]
  <2>1. \A i \in 1..Len(rest) : c.ordinal + i \in 1..n
    BY <1>1, <1>3
  <2> QED
    BY <1>2, <1>3, <2>1
<1>5. \A i \in 1..Len(rest) : Change(rest[i])
  <2>1. TAKE i \in 1..Len(rest)
  <2>2. c.ordinal + i \in 1..n
    BY <1>1, <1>3
  <2>3. rest[i] = [commit |-> c.commit, ordinal |-> c.ordinal + i]
    BY <1>4
  <2>4. rest[i].commit = c.commit /\ rest[i].ordinal = c.ordinal + i
    BY <2>3
  <2> QED
    BY <1>1, <2>2, <2>4 DEF Change
<1>6. \A i \in 1..Len(rest) - 1 : Follows(rest[i], rest[i + 1])
  <2>1. TAKE i \in 1..Len(rest) - 1
  <2>2. i \in 1..Len(rest) /\ i + 1 \in 1..Len(rest) /\ c.ordinal + i + 1 = c.ordinal + (i + 1)
    <3> DEFINE m == Len(rest)
               o == c.ordinal
    <3>1. m \in Nat /\ o \in Nat /\ i \in 1..m - 1
      BY <1>1, <1>3
    <3> HIDE DEF m, n, o
    <3>2. i \in 1..m /\ i + 1 \in 1..m /\ o + i + 1 = o + (i + 1)
      BY <3>1
    <3> QED
      BY <3>2 DEF m, o
  <2>3. /\ rest[i] = [commit |-> c.commit, ordinal |-> c.ordinal + i]
        /\ rest[i + 1] = [commit |-> c.commit, ordinal |-> c.ordinal + i + 1]
    BY <1>4, <2>2
  <2>4. rest[i + 1] = [rest[i] EXCEPT !.ordinal = @ + 1]
    BY <2>3
  <2> QED
    BY <2>4 DEF Follows
<1>7. rest # <<>> => Follows(c, rest[1])
  <2>1. SUFFICES ASSUME rest # <<>> PROVE Follows(c, rest[1])
    OBVIOUS
  <2>2. 1 \in 1..Len(rest)
    BY <1>3, <2>1, EmptySeq
  <2>3. rest[1] = [commit |-> c.commit, ordinal |-> c.ordinal + 1]
    BY <1>4, <2>2
  <2>4. c = [commit |-> c.commit, ordinal |-> c.ordinal]
    BY <1>1 DEF Position
  <2>5. [c EXCEPT !.ordinal = @ + 1] = [commit |-> c.commit, ordinal |-> c.ordinal + 1]
    BY <2>4
  <2> QED
    BY <2>3, <2>5 DEF Follows
<1>8. /\ Chain(p \o rest)
      /\ (p \o rest)[Len(p \o rest)] = IF rest = <<>> THEN c ELSE rest[Len(rest)]
  BY <1>3, <1>5, <1>6, <1>7, ChainContinues
<1>9. Reaches(p \o rest, c.commit)
  <2> DEFINE e == IF rest = <<>> THEN c ELSE rest[Len(rest)]
  <2>1. e.commit = c.commit /\ e.ordinal = n
    <3>1. CASE rest = <<>>
      BY <1>1, <1>3, <3>1, EmptySeq
    <3>2. CASE rest # <<>>
      <4>1. Len(rest) \in 1..Len(rest)
        BY <1>3, <3>2, EmptySeq
      <4>2. rest[Len(rest)] = [commit |-> c.commit, ordinal |-> c.ordinal + Len(rest)]
        BY <1>4, <4>1
      <4> QED
        BY <1>1, <1>3, <3>2, <4>2
    <3> QED
      BY <3>1, <3>2
  <2> HIDE DEF e
  <2>2. Complete(e, c.commit) /\ e.commit <= c.commit
    BY <1>1, <2>1 DEF Complete
  <2> QED
    BY <1>8, <2>2 DEF Reaches, e
<1>10. Run(more, c.commit, b)
  <2>1. /\ c.commit \in 0..Head0 /\ \A d \in c.commit + 1..b : made[d].derives
    BY <1>1
  <2> QED
    BY <2>1, BetweenIsRun
<1>11. Chain((p \o rest) \o more) /\ Reaches((p \o rest) \o more, b)
  <2>1. /\ c.commit \in 0..Head0 /\ \A d \in c.commit + 1..b : made[d].derives
    BY <1>1
  <2> HIDE DEF more
  <2> QED
    BY <1>8, <1>9, <1>10, <2>1, RunContinues
<1>12. ReplayFrames(c, b) = rest \o more
  BY DEF ReplayFrames, rest, cs
<1>13. more \in Seq(Position)
  BY <1>10 DEF Run
<1> HIDE DEF more
<1>14. rest \o more \in Seq(Position) /\ (p \o rest) \o more = p \o (rest \o more)
  <2> DEFINE Cat(x, y) == x \o y
             S == Seq(Position)
  <2>1. \A x, y, z \in S : Cat(Cat(x, y), z) = Cat(x, Cat(y, z)) /\ Cat(x, y) \in S
    BY Associates
  <2>2. p \in S /\ rest \in S /\ more \in S
    BY <1>1, <1>3, <1>13
  <2> HIDE DEF Cat, S
  <2>3. Cat(rest, more) \in S /\ Cat(Cat(p, rest), more) = Cat(p, Cat(rest, more))
    BY <2>1, <2>2
  <2> QED
    BY <2>3 DEF Cat, S
<1> QED
  BY <1>11, <1>12, <1>14

LEMMA AttachStep ==
  ASSUME FeedInvariant, NEW s \in Client, Attach(s)
  PROVE  FeedInvariant'
<1> DEFINE c == cursor[s]
           through == ReplayThrough
           rep == IF c = NoCursor THEN <<>> ELSE ReplayFrames(c, through)
           fs == <<Ready>> \o rep
           g == IF c = NoCursor THEN <<>> ELSE got[s]
           o == IF c = NoCursor THEN EndOf(through) ELSE origin[s]
<1>1. PICK k \in Takes(s, Len(fs)) :
        /\ Enqueue({s}, fs, [t \in {s} |-> k], IF Overflows(s, fs, k) THEN {s} ELSE {})
        /\ stage' = [stage EXCEPT ![s] = IF Overflows(s, fs, k) THEN "overflowed" ELSE "open"]
        /\ got' = [got EXCEPT ![s] = g \o Receives(s, fs, k)]
  BY DEF Attach
<1>2. /\ stage[s] = "joining" /\ ~Refused(c, through) /\ ~Unreadable(c, through)
      /\ origin' = [origin EXCEPT ![s] = o] /\ last' = through /\ timer' = TRUE /\ made' = made
  BY DEF Attach, ReplayThrough
<1>3. /\ FeedTypes /\ MadeTypes /\ queue[s] = <<>> /\ ~blocked[s] /\ Head0 \in Nat
      /\ through \in 0..Head0
      /\ c \in Position \cup {NoCursor} /\ got[s] \in Seq(Position) /\ origin[s] \in Position
      /\ c # NoCursor => got[s] # <<>> /\ c = got[s][Len(got[s])]
  <2>1. MadeTypes /\ last \in 0..Head0
    BY DEF FeedInvariant, FeedTypes
  <2>2. Head0 \in Nat
    BY <2>1, CommitParts
  <2>3. ReplayThrough \in 0..Head0
    BY <2>1, <2>2 DEF ReplayThrough
  <2> QED
    BY <1>2, <2>1, <2>2, <2>3 DEF FeedInvariant, FeedTypes, QueuesWait, CursorIsLast
<1> DEFINE base == (<<o>> \o g) \o Changes(queue[s])
<1>4. /\ rep \in Seq(Position) /\ g \in Seq(Position) /\ o \in Position
      /\ Chain(base \o rep) /\ Reaches(base \o rep, through)
      /\ c # NoCursor => g # <<>> /\ c = g[Len(g)]
  <2>1. CASE c = NoCursor
    <3> HIDE DEF through
    <3> DEFINE e == EndOf(through)
    <3>1. e \in Position /\ End(e) /\ e.commit = through /\ e.ordinal = Size(through)
      <4>1. MaxCommits \in Nat /\ MaxChanges \in Nat
        BY ChangeFeedAssumption DEF ChangeFeedAssumption
      <4>2. through \in 0..MaxCommits /\ (through = 0 \/ through \in 1..Head0)
        BY <1>3, <4>1, CommitParts
      <4>3. Size(through) \in 0..MaxChanges
        BY <1>3, <4>1, <4>2, CommitParts
      <4> QED
        BY <1>3, <4>2, <4>3 DEF EndOf, Position, End
    <3>2. rep = <<>> /\ g = <<>> /\ o = e
      BY <2>1
    <3> HIDE DEF e, rep, g, o
    <3>3. base \o rep = <<e>>
      <4>1. Changes(queue[s]) = <<>>
        BY <1>3, EmptySeq, ChangesAreFrames
      <4> QED
        BY <3>1, <3>2, <4>1
    <3>4. Chain(<<e>>)
      BY <3>1 DEF Chain
    <3>5. Reaches(<<e>>, through)
      BY <1>3, <3>1 DEF Reaches, Complete
    <3> QED
      BY <2>1, <3>1, <3>2, <3>3, <3>4, <3>5, EmptySeq
  <2>2. CASE c # NoCursor
    <3>1. rep = ReplayFrames(c, through) /\ g = got[s] /\ o = origin[s]
      BY <2>2
    <3> HIDE DEF rep, g, o
    <3>2. base = Path(s)
      BY <3>1 DEF Path
    <3> HIDE DEF base
    <3>3. Chain(Path(s)) /\ Path(s) = <<origin[s]>> \o got[s]
      <4>1. Changes(queue[s]) = <<>>
        BY <1>3, EmptySeq, ChangesAreFrames
      <4>2. (<<origin[s]>> \o got[s]) \o <<>> = <<origin[s]>> \o got[s]
        BY PathParts, ConcatEmptySeq
      <4> QED
        BY <4>1, <4>2, PathParts DEF Path
    <3>4. Path(s)[Len(Path(s))] = c /\ Change(c)
      <4>1. /\ Len(Path(s)) = 1 + Len(got[s]) /\ Len(got[s]) \in Nat \ {0}
            /\ Path(s)[1 + Len(got[s])] = got[s][Len(got[s])]
        <5>1. <<origin[s]>> \in Seq(Position) /\ Len(<<origin[s]>>) = 1
          BY <1>3
        <5>2. Len(got[s]) \in Nat \ {0}
          BY <1>3, <2>2, EmptySeq
        <5> QED
          BY <1>3, <3>3, <5>1, <5>2, CatParts
      <4>2. Len(Path(s)) \in 2..Len(Path(s))
        BY <4>1
      <4> QED
        BY <1>3, <2>2, <3>3, <4>1, <4>2 DEF Chain
    <3>5. /\ Ancestor(c.commit, through) /\ \A d \in c.commit..through : made[d].derives
      BY <1>2, <2>2 DEF Refused, Unreadable
    <3>6. through \in c.commit..Head0
      BY <1>3, <3>4, <3>5 DEF Ancestor, Change
    <3> HIDE DEF through, c
    <3>7. /\ ReplayFrames(c, through) \in Seq(Position)
          /\ Chain(Path(s) \o ReplayFrames(c, through))
          /\ Reaches(Path(s) \o ReplayFrames(c, through), through)
      BY <1>3, <3>3, <3>4, <3>5, <3>6, ReplayContinues
    <3> QED
      BY <1>3, <2>2, <3>1, <3>2, <3>7
  <2> QED
    BY <2>1, <2>2
<1> HIDE DEF rep, g, o
<1>5. Frames(fs) /\ Changes(fs) = rep
  <2>1. /\ <<Ready>> \in Seq(Frame) /\ Len(<<Ready>>) = 1 /\ <<Ready>>[1] = Ready
    BY DEF Frame
  <2>2. Frames(<<Ready>>)
    BY <2>1 DEF Frames
  <2>3. \A i \in 1..Len(rep) : rep[i] # Ready
    BY <1>4, ElementOfSeq, FrameAssumption DEF FrameAssumption
  <2>4. Frames(fs) /\ Changes(fs) = Changes(<<Ready>>) \o rep
    BY <1>4, <2>2, <2>3, ChangesOfCat
  <2>5. Changes(<<Ready>>) = <<>>
    BY <2>1 DEF Changes
  <2>6. <<>> \o rep = rep
    BY <1>4, ConcatEmptySeq
  <2> QED
    BY <2>4, <2>5, <2>6
<1> HIDE DEF fs, base, through
<1> DEFINE leaves == Overflows(s, fs, k)
<1>6. /\ queue' = [t \in Client |-> IF t = s THEN IF leaves THEN <<>> ELSE Waits(s, fs, k)
                                    ELSE queue[t]]
      /\ blocked' = [t \in Client |-> IF t = s THEN IF leaves THEN FALSE ELSE Blocks(s, fs, k)
                                      ELSE blocked[t]]
      /\ sent' = [t \in Client |-> IF t = s THEN SentAfter(s, fs, k) ELSE sent[t]]
      /\ cursor' = [t \in Client |-> IF t # s THEN cursor[t]
                                     ELSE IF leaves /\ sent'[t] # NoCursor THEN sent'[t]
                                     ELSE CursorAfter(Wrote(s, fs, k), cursor[t])]
  <2>1. Enqueue({s}, fs, [t \in {s} |-> k], IF leaves THEN {s} ELSE {})
    BY <1>1
  <2> HIDE DEF leaves
  <2>2. \A t \in Client : t \in (IF leaves THEN {s} ELSE {}) <=> t = s /\ leaves
    OBVIOUS
  <2>3. \A t \in Client : t \in {u \in {s} : Overflows(u, fs, [v \in {s} |-> k][u])} <=> t = s /\ leaves
    BY DEF leaves
  <2> QED
    BY <2>1, <2>2, <2>3 DEF Enqueue
<1>7. leaves \in BOOLEAN
  BY DEF Overflows
<1> HIDE DEF leaves
<1>8. ASSUME NEW t \in Client
      PROVE  Sound(t)'
  <2>1. CASE t = s
    <3>1. /\ got'[t] = g \o Receives(s, fs, k) /\ origin'[t] = o
          /\ stage'[t] = IF leaves THEN "overflowed" ELSE "open"
      BY <1>1, <1>2, <1>3, <2>1 DEF FeedTypes, leaves
    <3>2. /\ queue'[t] = IF leaves THEN <<>> ELSE Waits(s, fs, k)
          /\ blocked'[t] = IF leaves THEN FALSE ELSE Blocks(s, fs, k)
          /\ sent'[t] = SentAfter(s, fs, k)
          /\ cursor'[t] = IF leaves /\ sent'[t] # NoCursor THEN sent'[t]
                          ELSE CursorAfter(Wrote(s, fs, k), cursor[t])
      BY <1>6, <2>1
    <3>3. /\ Chain(((<<o>> \o g) \o Changes(queue[s])) \o Changes(fs))
          /\ Reaches(((<<o>> \o g) \o Changes(queue[s])) \o Changes(fs), last')
      BY <1>2, <1>4, <1>5 DEF base
    <3>4. /\ stage'[s] \in {"open", "out", "overflowed"} /\ (stage'[s] = "open" <=> ~leaves)
          /\ stage'[s] = "overflowed" => Overflows(s, fs, k)
          /\ Overflows(s, fs, k) => leaves
      BY <1>7, <2>1, <3>1 DEF leaves
    <3>5. /\ queue'[s] = IF leaves THEN <<>> ELSE Waits(s, fs, k)
          /\ blocked'[s] = IF leaves THEN FALSE ELSE Blocks(s, fs, k)
          /\ sent'[s] = SentAfter(s, fs, k)
          /\ cursor'[s] = IF Overflows(s, fs, k) /\ sent'[s] # NoCursor THEN sent'[s]
                          ELSE CursorAfter(Wrote(s, fs, k), cursor[s])
          /\ got'[s] = g \o Receives(s, fs, k) /\ origin'[s] = o
      BY <2>1, <3>1, <3>2 DEF leaves
    <3>6. /\ cursor[s] # NoCursor => g # <<>> /\ cursor[s] = g[Len(g)]
          /\ Frames(fs) /\ k \in Takes(s, Len(fs)) /\ ~blocked[s]
          /\ g \in Seq(Position) /\ o \in Position /\ made' = made
      BY <1>1, <1>2, <1>3, <1>4, <1>5 DEF fs, c
    <3> HIDE DEF leaves, c
    <3>7. Sound(s)'
      BY <1>7, <3>3, <3>4, <3>5, <3>6, ClientAfter
    <3> QED
      BY <2>1, <3>7
  <2>2. CASE t # s
    <3>1. /\ queue'[t] = queue[t] /\ blocked'[t] = blocked[t] /\ sent'[t] = sent[t]
          /\ cursor'[t] = cursor[t]
      BY <1>6, <2>2
    <3>2. got'[t] = got[t] /\ origin'[t] = origin[t] /\ stage'[t] = stage[t]
      BY <1>1, <1>2, <1>3, <2>2 DEF FeedTypes
    <3>3. stage[t] = "open" => last' = last
      <4>1. stage[t] = "open" => Members # {}
        BY DEF Members
      <4> QED
        BY <1>2, <4>1 DEF ReplayThrough, through
    <3> QED
      BY <1>2, <3>1, <3>2, <3>3, StaysSound
  <2> QED
    BY <2>1, <2>2
<1>9. /\ queue' = [t \in Client |-> queue'[t]] /\ blocked' = [t \in Client |-> blocked'[t]]
      /\ sent' = [t \in Client |-> sent'[t]] /\ cursor' = [t \in Client |-> cursor'[t]]
  BY <1>6
<1>10. /\ got' = [t \in Client |-> got'[t]] /\ origin' = [t \in Client |-> origin'[t]]
       /\ stage' \in [Client -> {"out", "joining", "open", "overflowed"}]
  BY <1>1, <1>2, <1>3 DEF FeedTypes
<1>11. last' \in 0..Head0 /\ timer' \in BOOLEAN
  BY <1>2, <1>3
<1> QED
  BY <1>2, <1>8, <1>9, <1>10, <1>11, AllSound

-----------------------------------------------------------------------------
(* The check                                                               *)

\* The first commit of the present history: the last rewrite, or the first.
LEMMA RootIs ==
  ASSUME MadeTypes
  PROVE  /\ Root \in Nat \ {0}
         /\ Root = 1 \/ (Root \in 1..Head0 /\ made[Root].rewrite)
<1>1. Head0 \in Nat
  BY CommitParts
<1>2. CASE ~\E c \in 1..Head0 : made[c].rewrite
  BY <1>2 DEF Root
<1>3. CASE \E c \in 1..Head0 : made[c].rewrite
  <2> DEFINE S == {m \in Nat : m <= Head0 /\ Head0 - m \in 1..Head0 /\ made[Head0 - m].rewrite}
  <2>1. S # {}
    <3>1. PICK c \in 1..Head0 : made[c].rewrite
      BY <1>3
    <3>2. Head0 - c \in Nat /\ Head0 - (Head0 - c) = c /\ Head0 - c <= Head0
      BY <1>1
    <3>3. Head0 - c \in S
      BY <3>1, <3>2
    <3> QED
      BY <3>3
  <2>2. PICK m \in S : \A n \in S : m <= n
    <3> HIDE DEF S
    <3>1. S \in SUBSET Nat
      BY DEF S
    <3> QED
      BY <2>1, <3>1, SmallestExists
  <2> DEFINE c == Head0 - m
  <2>3. c \in 1..Head0 /\ made[c].rewrite
    BY <2>2
  <2>4. ASSUME NEW d \in c + 1..Head0, made[d].rewrite
        PROVE  FALSE
    <3>1. Head0 - d \in Nat /\ Head0 - (Head0 - d) = d /\ d \in 1..Head0 /\ Head0 - d <= Head0
      BY <1>1, <2>2, <2>4
    <3>2. Head0 - d \in S
      BY <2>4, <3>1
    <3>3. Head0 - d < m
      BY <1>1, <2>2, <2>4
    <3> QED
      BY <1>1, <2>2, <3>1, <3>2, <3>3
  <2> HIDE DEF c, S
  <2>5. Root = CHOOSE r \in 1..Head0 : made[r].rewrite /\ \A d \in r + 1..Head0 : ~made[d].rewrite
    BY <1>3 DEF Root
  <2>6. Root \in 1..Head0 /\ made[Root].rewrite
    BY <2>3, <2>4, <2>5
  <2> QED
    BY <1>1, <2>6
<1> QED
  BY <1>2, <1>3

\* Where a check starts, and where it stops.
LEMMA CheckParts ==
  ASSUME FeedTypes
  PROVE  /\ Head0 \in Nat /\ CheckFrom \in 0..Head0 /\ CheckThrough \in CheckFrom..Head0
         /\ \A d \in CheckFrom + 1..CheckThrough : made[d].derives
         /\ CheckThrough = CheckFrom => CheckFrom = Head0 \/ ~made[CheckFrom + 1].derives
<1>1. MadeTypes /\ Head0 \in Nat /\ last \in 0..Head0 /\ MaxReplayEvents \in Nat
  BY CommitParts, ChangeFeedAssumption DEF FeedTypes, ChangeFeedAssumption
<1>2. CheckFrom \in 0..Head0
  BY <1>1, RootIs DEF CheckFrom
<1> DEFINE Stops(c) == c = Head0 \/ Filled(c) \/ Broken(c + 1)
           S == {c \in Nat : c \in CheckFrom..Head0 /\ Stops(c)}
<1>3. PICK c \in S : \A d \in S : c <= d
  <2>1. Head0 \in S
    BY <1>1, <1>2
  <2> HIDE DEF S
  <2>2. S \in SUBSET Nat
    BY DEF S
  <2> QED
    BY <2>1, <2>2, SmallestExists
<1>4. c \in CheckFrom..Head0 /\ Stops(c)
  BY <1>3
<1>5. ASSUME NEW d \in CheckFrom..c - 1
      PROVE  ~Stops(d)
  <2>1. d \in Nat /\ d \in CheckFrom..Head0 /\ ~(c <= d)
    BY <1>1, <1>2, <1>4
  <2>2. d \notin S
    BY <1>3, <2>1
  <2> HIDE DEF Stops
  <2> QED
    BY <2>1, <2>2
<1>6. /\ CheckThrough \in CheckFrom..Head0 /\ Stops(CheckThrough)
      /\ \A d \in CheckFrom..CheckThrough - 1 : ~Broken(d + 1)
  <2> DEFINE Is(e) == /\ e = Head0 \/ Filled(e) \/ Broken(e + 1)
                      /\ \A d \in CheckFrom..e - 1 : ~Filled(d) /\ ~Broken(d + 1)
  <2>1. Is(c)
    BY <1>4, <1>5
  <2>2. CheckThrough = CHOOSE e \in CheckFrom..Head0 : Is(e)
    BY DEF CheckThrough
  <2> HIDE DEF Is
  <2>3. CheckThrough \in CheckFrom..Head0 /\ Is(CheckThrough)
    BY <1>4, <2>1, <2>2
  <2> QED
    BY <2>3 DEF Is
<1>7. \A d \in CheckFrom + 1..CheckThrough : made[d].derives
  <2>1. TAKE d \in CheckFrom + 1..CheckThrough
  <2>2. d - 1 \in CheckFrom..CheckThrough - 1 /\ d - 1 + 1 = d /\ d <= Head0
    BY <1>1, <1>2, <1>6
  <2>3. ~Broken(d)
    BY <1>6, <2>2
  <2> QED
    BY <2>2, <2>3 DEF Broken
<1>8. CheckThrough = CheckFrom => CheckFrom = Head0 \/ ~made[CheckFrom + 1].derives
  <2>1. SUFFICES ASSUME CheckThrough = CheckFrom, CheckFrom # Head0
                 PROVE  ~made[CheckFrom + 1].derives
    OBVIOUS
  <2>2. ~Filled(CheckFrom)
    <3>1. ChangesBetween(CheckFrom, CheckFrom) = <<>>
      BY <1>1, <1>2 DEF ChangesBetween
    <3>2. Len(<<>>) = 0
      OBVIOUS
    <3> QED
      BY <1>1, <3>1, <3>2 DEF Filled
  <2>3. Broken(CheckFrom + 1)
    BY <1>6, <2>1, <2>2
  <2> QED
    BY <2>3 DEF Broken
<1> QED
  BY <1>1, <1>2, <1>6, <1>7, <1>8

\* What a check delivers continues a chain that reached the commit before.
LEMMA CheckContinues ==
  ASSUME FeedTypes, NEW p, Chain(p), Reaches(p, last)
  PROVE  LET fs == ChangesBetween(CheckFrom, CheckThrough) IN
         /\ fs \in Seq(Position)
         /\ Chain(p \o fs) /\ Reaches(p \o fs, CheckThrough)
<1> DEFINE a == CheckFrom
           b == CheckThrough
           fs == ChangesBetween(CheckFrom, CheckThrough)
           e == p[Len(p)]
<1>1. /\ Head0 \in Nat /\ a \in 0..Head0 /\ b \in a..Head0 /\ \A d \in a + 1..b : made[d].derives
      /\ b = a => a = Head0 \/ ~made[a + 1].derives
      /\ MadeTypes /\ a = IF last = 0 THEN Root - 1 ELSE last
  BY CheckParts DEF FeedTypes, CheckFrom
<1>2. Run(fs, a, b)
  BY <1>1, BetweenIsRun
<1> HIDE DEF a, b, fs
<1>3. fs \in Seq(Position)
  BY <1>2 DEF Run
<1>4. CASE a = last
  BY <1>1, <1>2, <1>3, <1>4, RunContinues DEF fs, b
<1>5. CASE a # last
  <2>1. /\ last = 0 /\ a = Root - 1 /\ Root \in 1..Head0 /\ made[Root].rewrite
        /\ made[Root].derives
    <3>1. last = 0 /\ a = Root - 1 /\ Root \in Nat
      BY <1>1, <1>5, RootIs
    <3>2. Root # 1
      BY <1>5, <3>1
    <3> QED
      BY <1>1, <3>1, <3>2, RootIs, CommitParts
  <2>2. Root \in 1..b /\ Root \in a + 1..b
    <3>1. a + 1 = Root /\ a # Head0
      BY <1>1, <2>1
    <3> QED
      BY <1>1, <2>1, <3>1
  <2>3. e.commit = 0
    <3>1. e.commit \in Nat
      BY <1>1, ChainElements
    <3> QED
      BY <2>1, <3>1 DEF Reaches
  <2>4. \A c \in Root..Head0 : Complete(e, c)
    <3>1. \A c \in Root..Head0 : Root \in e.commit + 1..c
      BY <1>1, <2>1, <2>3
    <3> QED
      BY <2>1, <3>1 DEF Complete
  <2> HIDE DEF e
  <2>5. /\ Len(fs) \in Nat /\ (fs # <<>> => 1 \in 1..Len(fs) /\ Len(fs) \in 1..Len(fs))
        /\ \A i \in 1..Len(fs) : Change(fs[i]) /\ fs[i].commit \in a + 1..b
    BY <1>2, <1>3, EmptySeq DEF Run
  <2>6. fs # <<>> => Follows(e, fs[1])
    <3>1. SUFFICES ASSUME fs # <<>> PROVE Follows(e, fs[1])
      OBVIOUS
    <3>2. fs[1].ordinal = 1 /\ fs[1].commit \in a + 1..b
      BY <1>2, <2>5, <3>1 DEF Run
    <3>3. CASE fs[1].commit = Root
      BY <2>1, <2>3, <3>2, <3>3 DEF Follows
    <3>4. CASE fs[1].commit # Root
      <4>1. fs[1].commit - 1 \in Root..Head0 /\ fs[1].commit > e.commit
        BY <1>1, <2>1, <2>3, <3>2, <3>4
      <4>2. Complete(e, fs[1].commit - 1)
        BY <2>4, <4>1
      <4> QED
        BY <3>2, <4>1, <4>2 DEF Follows
    <3> QED
      BY <3>3, <3>4
  <2>7. Chain(p \o fs) /\ (p \o fs)[Len(p \o fs)] = IF fs = <<>> THEN e ELSE fs[Len(fs)]
    BY <1>2, <1>3, <2>5, <2>6, ChainContinues DEF Run, e
  <2>8. fs = <<>> => Complete(e, b) /\ e.commit <= b
    BY <1>1, <2>1, <2>2, <2>3, <2>4
  <2>9. fs # <<>> => Complete(fs[Len(fs)], b) /\ fs[Len(fs)].commit <= b
    <3>1. SUFFICES ASSUME fs # <<>> PROVE Complete(fs[Len(fs)], b) /\ fs[Len(fs)].commit <= b
      OBVIOUS
    <3>2. fs[Len(fs)].commit \in a + 1..b
      BY <2>5, <3>1
    <3>3. /\ fs[Len(fs)].ordinal = Size(fs[Len(fs)].commit)
          /\ \A d \in fs[Len(fs)].commit + 1..b : Size(d) = 0
      BY <1>2, <3>1 DEF Run
    <3>4. \A d \in fs[Len(fs)].commit + 1..b : d \in a + 1..b
      BY <1>1, <3>2
    <3> QED
      BY <1>1, <3>2, <3>3, <3>4 DEF Complete
  <2>10. Reaches(p \o fs, b)
    BY <2>7, <2>8, <2>9 DEF Reaches
  <2> QED
    BY <1>3, <2>7, <2>10 DEF fs, b
<1> QED
  BY <1>4, <1>5


\* The commits are delivered to every subscriber.
LEMMA DeliverStep ==
  ASSUME FeedInvariant, UNCHANGED made, DeliverCommits
  PROVE  FeedInvariant'
<1> DEFINE through == CheckThrough
           fs == ChangesBetween(CheckFrom, through)
           closes == Broken(through + 1) /\ ~Filled(through)
           over(k) == {s \in Members : Overflows(s, fs, k[s])}
<1>1. PICK k \in [Members -> 1..Len(fs) + 1] :
        /\ \A s \in Members : k[s] \in Takes(s, Len(fs))
        /\ last' = through
        /\ got' = [s \in Client |-> got[s] \o (IF s \in Members THEN Receives(s, fs, k[s]) ELSE <<>>)]
        /\ stage' = [s \in Client |-> IF s \notin Members THEN stage[s]
                                      ELSE IF s \in over(k) THEN "overflowed"
                                      ELSE IF closes THEN "out" ELSE "open"]
        /\ timer' = (timer /\ ~closes /\ over(k) # Members)
        /\ Enqueue(Members, fs, k, IF closes THEN Members ELSE over(k))
        /\ origin' = origin
  BY DEF DeliverCommits
<1>2. FeedTypes /\ MadeTypes /\ through \in 0..Head0
  BY CheckParts DEF FeedInvariant, FeedTypes
<1>3. ASSUME NEW p, Chain(p), Reaches(p, last)
      PROVE  fs \in Seq(Position) /\ Chain(p \o fs) /\ Reaches(p \o fs, through)
  BY <1>2, <1>3, CheckContinues
<1>4. Members \subseteq Client /\ \A s \in Client : s \in Members <=> stage[s] = "open"
  BY DEF Members
<1>5. closes \in BOOLEAN
  OBVIOUS
<1> HIDE DEF through, fs, closes
<1> DEFINE leaves(s) == closes \/ Overflows(s, fs, k[s])
<1>6. ASSUME NEW s \in Members
      PROVE  /\ queue'[s] = IF leaves(s) THEN <<>> ELSE Waits(s, fs, k[s])
             /\ blocked'[s] = IF leaves(s) THEN FALSE ELSE Blocks(s, fs, k[s])
             /\ sent'[s] = SentAfter(s, fs, k[s])
             /\ cursor'[s] = IF Overflows(s, fs, k[s]) /\ sent'[s] # NoCursor THEN sent'[s]
                             ELSE CursorAfter(Wrote(s, fs, k[s]), cursor[s])
  <2>1. s \in (IF closes THEN Members ELSE over(k)) <=> leaves(s)
    OBVIOUS
  <2>2. Enqueue(Members, fs, k, IF closes THEN Members ELSE over(k)) /\ s \in Client
    BY <1>1, <1>4
  <2> HIDE DEF leaves
  <2> QED
    BY <2>1, <2>2 DEF Enqueue
<1>7. ASSUME NEW s \in Client, s \notin Members
      PROVE  /\ queue'[s] = queue[s] /\ blocked'[s] = blocked[s]
             /\ sent'[s] = sent[s] /\ cursor'[s] = cursor[s]
  <2>1. s \notin (IF closes THEN Members ELSE over(k))
    BY <1>7
  <2> QED
    BY <1>1, <1>7, <2>1 DEF Enqueue
<1>8. ASSUME NEW s \in Members
      PROVE  Sound(s)'
  <2> DEFINE g == got[s]
             o == origin[s]
  <2>1. /\ s \in Client /\ stage[s] = "open" /\ g \in Seq(Position) /\ o \in Position
        /\ cursor[s] # NoCursor => g # <<>> /\ cursor[s] = g[Len(g)]
    BY <1>4 DEF FeedInvariant, FeedTypes, CursorIsLast
  <2>2. Chain(Path(s)) /\ Reaches(Path(s), last)
    BY <2>1 DEF FeedInvariant, PathsAreChains
  <2>3. fs \in Seq(Position) /\ Chain(Path(s) \o fs) /\ Reaches(Path(s) \o fs, through)
    BY <1>3, <2>2
  <2>4. Frames(fs) /\ Changes(fs) = fs
    BY <2>3, ChangesAreFrames
  <2>5. /\ Chain(((<<o>> \o g) \o Changes(queue[s])) \o Changes(fs))
        /\ Reaches(((<<o>> \o g) \o Changes(queue[s])) \o Changes(fs), last')
    BY <1>1, <2>3, <2>4 DEF Path
  <2>6. /\ got'[s] = g \o Receives(s, fs, k[s]) /\ origin'[s] = o
        /\ stage'[s] = IF Overflows(s, fs, k[s]) THEN "overflowed"
                       ELSE IF closes THEN "out" ELSE "open"
    BY <1>1, <2>1
  <2>7. k[s] \in Takes(s, Len(fs))
    BY <1>1
  <2>8. /\ leaves(s) \in BOOLEAN /\ (Overflows(s, fs, k[s]) => leaves(s))
        /\ stage'[s] \in {"open", "out", "overflowed"} /\ (stage'[s] = "open" <=> ~leaves(s))
        /\ stage'[s] = "overflowed" => Overflows(s, fs, k[s])
    BY <1>5, <2>6
  <2> HIDE DEF g, o, leaves
  <2>9. blocked[s] => fs \in Seq(Position)
    BY <2>3
  <2> QED
    BY <1>6, <2>1, <2>4, <2>5, <2>6, <2>7, <2>8, <2>9, ClientAfter
<1>9. ASSUME NEW s \in Client, s \notin Members
      PROVE  Sound(s)'
  <2>1. got'[s] = got[s]
    <3>1. got'[s] = got[s] \o <<>> /\ got[s] \in Seq(Position)
      BY <1>1, <1>2, <1>9 DEF FeedTypes
    <3> QED
      BY <3>1, ConcatEmptySeq
  <2>2. stage'[s] = stage[s] /\ origin'[s] = origin[s]
    BY <1>1, <1>9
  <2>3. stage[s] # "open"
    BY <1>4, <1>9
  <2> QED
    BY <1>7, <1>9, <2>1, <2>2, <2>3, StaysSound
<1>10. \A s \in Client : Sound(s)'
  BY <1>8, <1>9
<1>11. /\ queue' = [s \in Client |-> queue'[s]] /\ blocked' = [s \in Client |-> blocked'[s]]
       /\ sent' = [s \in Client |-> sent'[s]] /\ cursor' = [s \in Client |-> cursor'[s]]
  BY <1>1 DEF Enqueue
<1>12. got' = [s \in Client |-> got'[s]] /\ origin' = [s \in Client |-> origin'[s]]
  BY <1>1, <1>2 DEF FeedTypes
<1>13. stage' \in [Client -> {"out", "joining", "open", "overflowed"}]
  BY <1>1, <1>2 DEF FeedTypes
<1>14. last' \in 0..Head0 /\ timer' \in BOOLEAN
  <2>1. timer' = (timer /\ ~closes /\ over(k) # Members)
    BY <1>1
  <2>2. timer' \in BOOLEAN
    BY <2>1, Zenon
  <2> QED
    BY <1>1, <1>2, <2>2
<1> QED
  BY <1>10, <1>11, <1>12, <1>13, <1>14, AllSound

\* The history was rewritten: the feed goes on from the new HEAD.
LEMMA ReanchorStep ==
  ASSUME FeedInvariant, UNCHANGED made, ~Ancestor(last, Head0), Reanchor
  PROVE  FeedInvariant'
<1>1. /\ last' = Head0 /\ timer' = timer /\ stage' = stage /\ queue' = queue /\ blocked' = blocked
      /\ sent' = sent /\ cursor' = cursor /\ got' = got /\ origin' = origin
  BY DEF Reanchor, client
<1>2. FeedTypes /\ MadeTypes /\ last \in 0..Head0 /\ Head0 \in Nat
  BY CommitParts DEF FeedInvariant, FeedTypes
<1>3. PICK r \in last + 1..Head0 : made[r].rewrite
  BY <1>2 DEF Ancestor
<1>4. ASSUME NEW p, Chain(p), Reaches(p, last)
      PROVE  Reaches(p, Head0)
  <2> DEFINE e == p[Len(p)]
  <2>1. e.commit \in Nat /\ e.commit <= last
    BY <1>2, <1>4, ChainElements DEF Reaches
  <2> HIDE DEF e
  <2>2. r \in e.commit + 1..Head0 /\ e.commit <= Head0
    BY <1>2, <2>1
  <2> QED
    BY <1>3, <2>2 DEF Reaches, Complete, e
<1>5. FeedTypes'
  BY <1>1, <1>2, SameTypes DEF FeedTypes
<1>6. QueuesWait' /\ CursorIsLast'
  BY <1>1 DEF FeedInvariant, QueuesWait, CursorIsLast, Frames
<1>7. PathsAreChains'
  <2>1. SUFFICES ASSUME NEW s \in Client
                 PROVE  Chain(Path(s))' /\ (stage'[s] = "open" => Reaches(Path(s), last)')
    BY DEF PathsAreChains
  <2>2. Chain(Path(s)) /\ (stage[s] = "open" => Reaches(Path(s), Head0))
    BY <1>4 DEF FeedInvariant, PathsAreChains
  <2> QED
    BY <1>1, <2>2, PathStays
<1> QED
  BY <1>5, <1>6, <1>7 DEF FeedInvariant

LEMMA CheckStep ==
  ASSUME FeedInvariant, UNCHANGED made, Check
  PROVE  FeedInvariant'
<1>1. CASE last # 0 /\ ~Ancestor(last, Head0)
  <2>1. Reanchor
    BY <1>1 DEF Check
  <2> QED
    BY <1>1, <2>1, ReanchorStep
<1>2. CASE ~(last # 0 /\ ~Ancestor(last, Head0))
  <2>1. DeliverCommits
    BY <1>2 DEF Check
  <2> QED
    BY <2>1, DeliverStep
<1> QED
  BY <1>1, <1>2

-----------------------------------------------------------------------------
(* The theorems                                                            *)

\* FeedInvariant is inductive.
LEMMA NextFeed == FeedInvariant /\ [Next]_vars => FeedInvariant'
<1> SUFFICES ASSUME FeedInvariant, [Next]_vars PROVE FeedInvariant'
  OBVIOUS
<1>1. MaxChanges \in Nat /\ MaxCommits \in Nat
  BY ChangeFeedAssumption DEF ChangeFeedAssumption
<1>2. CASE UNCHANGED vars
  <2>1. /\ made' = made /\ last' = last /\ timer' = timer /\ stage' = stage /\ queue' = queue
        /\ blocked' = blocked /\ sent' = sent /\ cursor' = cursor /\ got' = got /\ origin' = origin
    BY <1>2 DEF vars, feed, client
  <2>2. FeedTypes'
    BY <2>1, SameTypes DEF FeedInvariant, FeedTypes
  <2>3. QueuesWait' /\ CursorIsLast'
    BY <2>1 DEF FeedInvariant, QueuesWait, CursorIsLast, Frames
  <2>4. PathsAreChains'
    BY <2>1, PathStays DEF FeedInvariant, PathsAreChains
  <2> QED
    BY <2>2, <2>3, <2>4 DEF FeedInvariant
<1>3. ASSUME NEW n \in 0..MaxChanges, MakeCommit(n, TRUE) PROVE FeedInvariant'
  BY <1>3, HistoryGrows DEF MakeCommit
<1>4. ASSUME NEW n \in 1..MaxChanges, MakeCommit(n, FALSE) PROVE FeedInvariant'
  <2>1. n \in 0..MaxChanges
    BY <1>1
  <2> QED
    BY <1>4, <2>1, HistoryGrows DEF MakeCommit
<1>5. ASSUME NEW n \in 1..MaxChanges, RewriteHistory(n) PROVE FeedInvariant'
  <2>1. n \in 0..MaxChanges /\ Head0 < MaxCommits
    <3>1. Head0 \in 1..MaxCommits - 1
      BY <1>5 DEF RewriteHistory
    <3> QED
      BY <1>1, <3>1
  <2> QED
    BY <1>5, <2>1, HistoryGrows DEF RewriteHistory
<1>6. ASSUME NEW s \in Client,
             Subscribe(s) \/ RejectSubscriber(s) \/ Attach(s) \/ Drain(s) \/ Leave(s)
      PROVE  FeedInvariant'
  BY <1>6, SubscribeStep, RejectStep, AttachStep, DrainStep, LeaveStep
<1>7. CASE Poll \/ Wake
  BY <1>7, CheckStep DEF Poll, Wake
<1> QED
  BY <1>2, <1>3, <1>4, <1>5, <1>6, <1>7 DEF Next

LEMMA FeedInvariantHolds == Spec => []FeedInvariant
<1> QED
  BY InitFeed, NextFeed, PTL DEF Spec

\* Whatever a client was sent since it began, over every resumption from its
\* cursor, and what waits for it is the committed history in order, each
\* change once, up to where the feed has got; only a rewrite of the history
\* cuts it.  So it is for any number of clients and commits, any sizes of
\* queue, replay and backlog, and sockets that push back at any frame.
THEOREM NothingMissing == Spec => []NoGap
<1>1. FeedInvariant => NoGap
  <2> SUFFICES ASSUME FeedInvariant PROVE NoGap
    OBVIOUS
  <2>1. TypeOK
    <3>1. /\ Position \cup {Ready} = Frame
          /\ \A s \in Client : Len(queue[s]) <= MaxQueueEvents
      BY DEF FeedInvariant, QueuesWait, Frame
    <3> QED
      BY <3>1 DEF FeedInvariant, FeedTypes, MadeTypes, TypeOK
  <2>2. ASSUME NEW s \in Client
        PROVE  LET path == <<origin[s]>> \o got[s] \o Changes(queue[s])
               IN /\ \A i \in 1..Len(path) - 1 : Follows(path[i], path[i + 1])
                  /\ stage[s] = "open" => Complete(Last(path), last)
    <3>1. Chain(Path(s)) /\ (stage[s] = "open" => Reaches(Path(s), last))
      BY DEF FeedInvariant, PathsAreChains
    <3>2. Path(s) = <<origin[s]>> \o got[s] \o Changes(queue[s])
      BY DEF Path
    <3> HIDE DEF Path
    <3> QED
      BY <3>1, <3>2 DEF Chain, Reaches, Last
  <2> QED
    BY <2>1, <2>2 DEF NoGap
<1> QED
  BY <1>1, FeedInvariantHolds, PTL

\* A client whose socket never pushes back is never disconnected for
\* overflow: its frames never wait, whatever the size of a replay or of a
\* backlog and whatever the other clients do.
THEOREM SteadyStays == Spec => []SteadyNeverOverflows
<1>1. FeedInvariant => SteadyNeverOverflows
  BY ChangeFeedAssumption
    DEF FeedInvariant, QueuesWait, SteadyNeverOverflows, ChangeFeedAssumption
<1> QED
  BY <1>1, FeedInvariantHolds, PTL


=============================================================================
