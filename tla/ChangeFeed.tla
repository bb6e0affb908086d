----------------------------- MODULE ChangeFeed -----------------------------
(***************************************************************************)
(* One namespace's feed of RealtimeHub (http/realtime/hub.ts).  The feed   *)
(* observes the namespace's first-parent history and fans out the changes  *)
(* of each commit, in order, to its subscribers.  A subscriber joins under *)
(* the feed lock, after a replay from its cursor; what its socket does not *)
(* take at once waits in a bounded queue, and a full queue ends that       *)
(* subscription alone.                                                     *)
(*                                                                         *)
(* The work under the feed lock has no await inside, so it is one action.  *)
(* A commit is known by its number in order of creation; how a commit's    *)
(* changes are derived is the module TableChanges.                         *)
(***************************************************************************)
EXTENDS Integers, FiniteSets, SequencesExt

CONSTANTS
  Client,           \* clients, each with at most one subscription at a time
  Steady,           \* clients whose sockets never push back
  NoCursor,         \* the client has received no change yet
  Ready,            \* the ready frame, which carries no cursor
  MaxSubscribers, MaxQueueEvents, MaxReplayEvents, MaxReplayCommits,
  MaxChanges,       \* bound: changes in one commit
  MaxCommits        \* bound: commits made, rewritten ones included

ASSUME ChangeFeedAssumption ==
  /\ Steady \subseteq Client
  /\ {MaxSubscribers, MaxQueueEvents, MaxReplayCommits} \subseteq Nat \ {0}
  /\ {MaxReplayEvents, MaxChanges, MaxCommits} \subseteq Nat

VARIABLES
  made,      \* every commit made: its changes, whether they derive, whether
             \* it replaced the history before it
  last,      \* feed.lastDeliveredCommit, 0 for null
  timer,     \* the poll timer runs
  stage,     \* per client: no subscription, past the limit check, in the feed
  queue,     \* frames waiting for the client's socket
  blocked,   \* the socket pushed back and has not drained
  sent,      \* lastDeliveredCursor of the subscription
  cursor,    \* the client's own cursor
  got,       \* changes the client received since origin, over resumptions
  origin     \* the position after which got begins

feed == <<last, timer>>
client == <<stage, queue, blocked, sent, cursor, got, origin>>
vars == <<made, feed, client>>

Position == [commit : 0..MaxCommits, ordinal : 0..MaxChanges]

ASSUME FrameAssumption == Ready \notin Position /\ NoCursor \notin Position

Members == {s \in Client : stage[s] = "open"}

-----------------------------------------------------------------------------
(* The repository                                                          *)

\* resolveHeadSha; 0 when nothing is committed yet.
Head0 == Len(made)

\* The first commit of the present first-parent history.
Root == IF \E c \in 1..Head0 : made[c].rewrite
        THEN CHOOSE c \in 1..Head0 : made[c].rewrite /\ \A d \in c + 1..Head0 : ~made[d].rewrite
        ELSE 1

Size(c) == IF c = 0 THEN 0 ELSE made[c].changes

\* isAncestor, for a commit a of any history and a commit b of any.
Ancestor(a, b) == a <= b /\ \A r \in a + 1..b : ~made[r].rewrite

\* deriveCommitChanges: the positions of a commit's changes, in order.
ChangesOf(c) == [o \in 1..made[c].changes |-> [commit |-> c, ordinal |-> o]]

\* The changes of the commits after a position, through a commit.
ChangesBetween(a, b) ==
  LET through[c \in a..b] == IF c = a THEN <<>> ELSE through[c - 1] \o ChangesOf(c)
  IN IF b <= a THEN <<>> ELSE through[b]

\* A commit lands, of this process or another.
MakeCommit(n, derives) ==
  /\ Head0 < MaxCommits
  /\ made' = Append(made, [changes |-> n, derives |-> derives, rewrite |-> FALSE])
  /\ UNCHANGED <<feed, client>>

\* History is replaced by one commit that holds n changes.
RewriteHistory(n) ==
  /\ Head0 \in 1..MaxCommits - 1
  /\ made' = Append(made, [changes |-> n, derives |-> TRUE, rewrite |-> TRUE])
  /\ UNCHANGED <<feed, client>>

-----------------------------------------------------------------------------
(* enqueueFrame, pump and overflow                                         *)

\* How many of n frames a socket takes before it pushes back, the one it
\* pushes back on included; n + 1 when it takes them all.
Takes(s, n) == IF s \in Steady THEN {n + 1} ELSE 1..n + 1

\* pump: what is written of the waiting frames when the socket takes k.
Written(frames, k) == SubSeq(frames, 1, IF k < Len(frames) THEN k ELSE Len(frames))

\* What a subscriber is left with after the frames are enqueued one by one:
\* a blocked socket takes none, another has an empty queue.
Wrote(s, frames, k) == IF blocked[s] THEN <<>> ELSE Written(frames, k)
Waits(s, frames, k) ==
  IF blocked[s] THEN queue[s] \o frames ELSE SubSeq(frames, k + 1, Len(frames))
Blocks(s, frames, k) == blocked[s] \/ k <= Len(frames)

\* Mutant: the queue bound counts what was written at once as waiting.
OverflowsOnBurst(s, frames, k) == Len(queue[s] \o frames) > MaxQueueEvents

Overflows(s, frames, k) == Len(Waits(s, frames, k)) > MaxQueueEvents

\* The change frames of a sequence of frames, of which only the first may be
\* the ready frame, and the cursor after them.
Changes(frames) == IF frames # <<>> /\ Head(frames) = Ready THEN Tail(frames) ELSE frames
CursorAfter(frames, before) ==
  IF Changes(frames) = <<>> THEN before ELSE Last(Changes(frames))

\* lastDeliveredCursor.
SentAfter(s, frames, k) == CursorAfter(Wrote(s, frames, k), sent[s])

\* The frames go to the subscribers in S, whose sockets take k[s] of them;
\* those that leave the feed in this step keep no queue.
\* A client keeps the cursor of each change it receives; after an overflow
\* it goes by the overflow frame, if that names a cursor.
Enqueue(S, frames, k, leaving) ==
  LET over == {s \in S : Overflows(s, frames, k[s])}
  IN /\ queue' = [s \in Client |-> IF s \in leaving THEN <<>>
                                   ELSE IF s \in S THEN Waits(s, frames, k[s]) ELSE queue[s]]
     /\ blocked' = [s \in Client |-> IF s \in leaving THEN FALSE
                                     ELSE IF s \in S THEN Blocks(s, frames, k[s]) ELSE blocked[s]]
     /\ sent' = [s \in Client |-> IF s \in S THEN SentAfter(s, frames, k[s]) ELSE sent[s]]
     /\ cursor' = [s \in Client |->
          IF s \notin S THEN cursor[s]
          ELSE IF s \in over /\ sent'[s] # NoCursor THEN sent'[s]
          ELSE CursorAfter(Wrote(s, frames, k[s]), cursor[s])]

\* The changes of frames that the socket of s takes.
Receives(s, frames, k) == Changes(Wrote(s, frames, k))

\* onDrain: the socket takes frames again, and pump goes on.
Drain(s) ==
  /\ stage[s] = "open"
  /\ blocked[s]
  /\ \E k \in Takes(s, Len(queue[s])) :
       LET written == Written(queue[s], k)
       IN /\ queue' = [queue EXCEPT ![s] = SubSeq(@, k + 1, Len(@))]
          /\ blocked' = [blocked EXCEPT ![s] = k <= Len(queue[s])]
          /\ sent' = [sent EXCEPT ![s] = CursorAfter(written, @)]
          /\ cursor' = [cursor EXCEPT ![s] = CursorAfter(written, @)]
          /\ got' = [got EXCEPT ![s] = @ \o Changes(written)]
  /\ UNCHANGED <<made, feed, stage, origin>>

-----------------------------------------------------------------------------
(* subscribe                                                               *)

\* The limit is read before the feed lock is asked for.
Subscribe(s) ==
  /\ stage[s] \in {"out", "overflowed"}
  /\ Cardinality(Members) < MaxSubscribers
  /\ stage' = [stage EXCEPT ![s] = "joining"]
  /\ sent' = [sent EXCEPT ![s] = NoCursor]
  /\ UNCHANGED <<made, feed, queue, blocked, cursor, got, origin>>

\* Mutant: every replay goes through HEAD.
ReplayThroughHead == Head0

\* A subscriber that joins a live feed is replayed through the commit the
\* feed has delivered; the first one through HEAD.
ReplayThrough == IF Members = {} THEN Head0 ELSE last

\* validateCursor: the commit is on HEAD's first-parent history, within the
\* retained window.
ValidCursor(c) == Ancestor(c.commit, Head0) /\ Head0 - c.commit < MaxReplayCommits

\* The replay of a valid cursor: the rest of its commit, then the commits
\* after it.
ReplayFrames(c, through) ==
  SubSeq(ChangesOf(c.commit), c.ordinal + 1, Size(c.commit)) \o ChangesBetween(c.commit, through)

\* INVALID_CURSOR and CHANGE_CURSOR_GONE: the client must start over.
Refused(c, through) ==
  /\ c # NoCursor
  /\ \/ ~ValidCursor(c)
     \/ ~Ancestor(c.commit, through)
     \/ Len(ReplayFrames(c, through)) > MaxReplayEvents

\* CHANGELOG_CORRUPT: a commit of the replay, or HEAD, does not derive.
Unreadable(c, through) ==
  \/ Head0 > 0 /\ ~made[Head0].derives
  \/ c # NoCursor /\ \E d \in c.commit..through : ~made[d].derives

RejectSubscriber(s) ==
  /\ stage[s] = "joining"
  /\ \/ /\ Refused(cursor[s], ReplayThrough)
        /\ cursor' = [cursor EXCEPT ![s] = NoCursor]
     \/ /\ ~Refused(cursor[s], ReplayThrough)
        /\ Unreadable(cursor[s], ReplayThrough)
        /\ UNCHANGED cursor
  /\ stage' = [stage EXCEPT ![s] = "out"]
  /\ UNCHANGED <<made, feed, queue, blocked, sent, got, origin>>

\* The end of a commit, as the position a subscription without a cursor
\* starts from.
EndOf(c) == [commit |-> c, ordinal |-> Size(c)]

\* The subscriber is created, given the ready frame and its replay, and added
\* to the feed; one that overflowed on the way is taken out again, which
\* leaves the timer it started running.
Attach(s) ==
  LET c == cursor[s]
      through == ReplayThrough
      frames == <<Ready>> \o (IF c = NoCursor THEN <<>> ELSE ReplayFrames(c, through))
      start == IF Members = {} THEN Head0 ELSE last
  IN /\ stage[s] = "joining"
     /\ ~Refused(c, through) /\ ~Unreadable(c, through)
     /\ \E k \in Takes(s, Len(frames)) :
          LET over == Overflows(s, frames, k)
          IN /\ Enqueue({s}, frames, [t \in {s} |-> k], IF over THEN {s} ELSE {})
             /\ stage' = [stage EXCEPT ![s] = IF over THEN "overflowed" ELSE "open"]
             /\ got' = [got EXCEPT ![s] = (IF c = NoCursor THEN <<>> ELSE @) \o Receives(s, frames, k)]
     /\ origin' = [origin EXCEPT ![s] = IF c = NoCursor THEN EndOf(start) ELSE @]
     /\ last' = start
     /\ timer' = TRUE
     /\ UNCHANGED made

\* Mutant: every subscriber that leaves stops the timer.
LeaveStopsTimer(s) ==
  /\ stage[s] = "open"
  /\ stage' = [stage EXCEPT ![s] = "out"]
  /\ queue' = [queue EXCEPT ![s] = <<>>]
  /\ blocked' = [blocked EXCEPT ![s] = FALSE]
  /\ timer' = FALSE
  /\ UNCHANGED <<made, last, sent, cursor, got, origin>>

\* removeSubscriber: the client went away, its socket failed, or its grant
\* was revoked.  The last one out stops the timer.
Leave(s) ==
  /\ stage[s] = "open"
  /\ stage' = [stage EXCEPT ![s] = "out"]
  /\ queue' = [queue EXCEPT ![s] = <<>>]
  /\ blocked' = [blocked EXCEPT ![s] = FALSE]
  /\ timer' = (timer /\ Members # {s})
  /\ UNCHANGED <<made, last, sent, cursor, got, origin>>

-----------------------------------------------------------------------------
(* check                                                                   *)

\* The commits a check has to go through start after this one.
CheckFrom == IF last = 0 THEN Root - 1 ELSE last

\* A check stops at HEAD, at the first commit that takes it over
\* MaxReplayEvents, and before a commit that does not derive.
Broken(c) == c <= Head0 /\ ~made[c].derives
Filled(c) == Len(ChangesBetween(CheckFrom, c)) > MaxReplayEvents
CheckThrough ==
  CHOOSE c \in CheckFrom..Head0 :
    /\ c = Head0 \/ Filled(c) \/ Broken(c + 1)
    /\ \A d \in CheckFrom..c - 1 : ~Filled(d) /\ ~Broken(d + 1)

\* A history that was rewritten: the feed goes on from the new HEAD.
Reanchor ==
  /\ last' = Head0
  /\ UNCHANGED <<timer, client>>

\* The changes of each commit, to every subscriber; a subscriber that
\* overflows leaves, and all of them do when a commit that does not derive is
\* reached: closeFeed.
DeliverCommits ==
  LET through == CheckThrough
      frames == ChangesBetween(CheckFrom, through)
      closes == Broken(through + 1) /\ ~Filled(through)
      over(k) == {s \in Members : Overflows(s, frames, k[s])}
  IN \E k \in [Members -> 1..Len(frames) + 1] :
       /\ \A s \in Members : k[s] \in Takes(s, Len(frames))
       /\ last' = through
       /\ got' = [s \in Client |-> got[s] \o (IF s \in Members THEN Receives(s, frames, k[s]) ELSE <<>>)]
       /\ stage' = [s \in Client |-> IF s \notin Members THEN stage[s]
                                     ELSE IF s \in over(k) THEN "overflowed"
                                     ELSE IF closes THEN "out" ELSE "open"]
       /\ timer' = (timer /\ ~closes /\ over(k) # Members)
       /\ Enqueue(Members, frames, k, IF closes THEN Members ELSE over(k))
       /\ UNCHANGED origin

\* There is something to do: subscribers, and a HEAD they have not seen.
CheckDue == Members # {} /\ Head0 # last

Check == IF last # 0 /\ ~Ancestor(last, Head0) THEN Reanchor ELSE DeliverCommits

\* A poll that finds nothing to do changes nothing.
Poll == timer /\ CheckDue /\ Check /\ UNCHANGED made

\* A check started by the commit notifier or by a subscriber that joined, when
\* its turn on the feed lock comes.
Wake == CheckDue /\ Check /\ UNCHANGED made

-----------------------------------------------------------------------------
Init ==
  /\ made = <<>>
  /\ last = 0 /\ timer = FALSE
  /\ stage = [s \in Client |-> "out"]
  /\ queue = [s \in Client |-> <<>>]
  /\ blocked = [s \in Client |-> FALSE]
  /\ sent = [s \in Client |-> NoCursor]
  /\ cursor = [s \in Client |-> NoCursor]
  /\ got = [s \in Client |-> <<>>]
  /\ origin = [s \in Client |-> EndOf(0)]

Next ==
  \/ \E n \in 0..MaxChanges : MakeCommit(n, TRUE)
  \/ \E n \in 1..MaxChanges : MakeCommit(n, FALSE) \/ RewriteHistory(n)
  \/ \E s \in Client : Subscribe(s) \/ RejectSubscriber(s) \/ Attach(s) \/ Drain(s) \/ Leave(s)
  \/ Poll
  \/ Wake

Spec == Init /\ [][Next]_vars

\* setInterval keeps firing while the timer is set; nothing is assumed of the
\* wake-ups, of clients or of writers.
FairSpec == Spec /\ WF_vars(Poll)

-----------------------------------------------------------------------------
(* Properties                                                              *)

\* The shape of the state: what the variables above may hold.
TypeOK ==
  /\ made \in Seq([changes : 0..MaxChanges, derives : BOOLEAN, rewrite : BOOLEAN])
  /\ last \in 0..Head0
  /\ timer \in BOOLEAN
  /\ stage \in [Client -> {"out", "joining", "open", "overflowed"}]
  /\ queue \in [Client -> Seq(Position \cup {Ready})]
  /\ \A s \in Client : Len(queue[s]) <= MaxQueueEvents
  /\ blocked \in [Client -> BOOLEAN]
  /\ {sent, cursor} \subseteq [Client -> Position \cup {NoCursor}]
  /\ got \in [Client -> Seq(Position)]
  /\ origin \in [Client -> Position]

\* Nothing is missing between a position and the end of commit c: p is the
\* last change up to there, or the history after p was replaced.
Complete(p, c) ==
  \/ p.ordinal = Size(p.commit) /\ \A d \in p.commit + 1..c : made[d].derives /\ Size(d) = 0
  \/ \E r \in p.commit + 1..c : made[r].rewrite

Follows(p, q) ==
  \/ q = [p EXCEPT !.ordinal = @ + 1]
  \/ /\ q.ordinal = 1 /\ q.commit > p.commit
     /\ \/ Complete(p, q.commit - 1)
        \/ p.commit = 0 /\ made[q.commit].rewrite

\* No gap and no duplicate: what a client was sent since it began, over every
\* resumption from its cursor, and what waits for it, is the committed
\* history in order, each change once, up to where the feed has got; only a
\* rewrite of the history cuts it.
NoGap ==
  /\ TypeOK
  /\ \A s \in Client :
       LET path == <<origin[s]>> \o got[s] \o Changes(queue[s])
       IN /\ \A i \in 1..Len(path) - 1 : Follows(path[i], path[i + 1])
          /\ stage[s] = "open" => Complete(Last(path), last)

\* A slow client is cut off alone: a client whose socket never pushes back
\* is never disconnected for overflow, however large the replay or the
\* backlog and whatever the others do.
SteadyNeverOverflows == \A s \in Steady : stage[s] # "overflowed"

\* A feed that is behind catches up with HEAD as long as a subscription is
\* open: a lost wake-up and a check cut short by MaxReplayEvents are made up
\* for.  The commits of a run are bounded, so HEAD holds still in the end.
FeedCatchesUp ==
  \A s \in Client : (stage[s] = "open" /\ last # Head0) ~> (stage[s] # "open" \/ last = Head0)

=============================================================================
