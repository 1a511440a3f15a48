-------------------------- MODULE FragmentReassembly --------------------------
(* One message too long for a frame: Fragmenter.FragmentMessage cuts it,    *)
(* Daemon.handleFRAG and Fragmenter.AddFragment put it together again, and  *)
(* Daemon.cleanupLoop throws old marks and collectors away.                 *)
(*                                                                          *)
(* Marks, collectors and fragments are keyed by message id throughout, so   *)
(* messages do not meet and one is enough.  Its neighbours send it with     *)
(* their own fragment_threshold, by which they are named.  A fragment's     *)
(* data is its slice <<start, end>> of the encoded message.  Time is the    *)
(* tick of cleanupLoop (5 minutes): a collector is gone with the second     *)
(* tick after it was made (timeout 5 min), a mark with the thirteenth       *)
(* (TTL 1 h); SeenTicks may be smaller.  The receive goroutine marks a      *)
(* fragment and then adds it, cleanupLoop sweeps the marks and then the     *)
(* collectors; each of the four is a step.                                  *)
EXTENDS Integers, FiniteSets

CONSTANTS
  Threshold,       \* the fragment_threshold of each neighbour
  Length,          \* length of the encoded message
  Overhead,        \* fragOverhead
  MaxFragments,    \* the same in the code
  CollectorTicks,  \* ticks a collector survives
  SeenTicks,       \* ticks a mark survives
  MaxFaults        \* bound on fragments lost and restarts of the receiver

ASSUME FragmentAssumption ==
  /\ Threshold \subseteq Nat /\ Threshold # {}
  /\ Length \in Nat /\ Overhead \in Nat /\ MaxFragments \in Nat
  /\ \A c \in Threshold : c < Length
  /\ CollectorTicks \in Nat \ {0} /\ SeenTicks \in Nat
  /\ CollectorTicks + 1 < SeenTicks
  /\ MaxFaults \in Nat

-----------------------------------------------------------------------------
\* FragmentMessage: the size of a fragment, how many there are, and each.
Size(c)     == IF c - Overhead > 1 THEN c - Overhead ELSE 1
Total(c)    == (Length + Size(c) - 1) \div Size(c)
End(c, i)   == IF (i + 1) * Size(c) > Length THEN Length ELSE (i + 1) * Size(c)
Slice(c, i) == <<i * Size(c), End(c, i)>>
Index(c)    == 0 .. Total(c) - 1

AllIndex == UNION {Index(c) : c \in Threshold}

\* Reassemble yields the message itself: the slices lie end to end.
Whole(frags, total) ==
  /\ frags[0][1] = 0 /\ frags[total - 1][2] = Length
  /\ \A i \in 1 .. total - 1 : frags[i][1] = frags[i - 1][2]

VARIABLES
  seen,       \* seen_cache: age in ticks of the mark of each index, or Unmarked
  collector,  \* Fragmenter.Collectors: the message's collector or NoCollector
  hand,       \* handleFRAG: the fragment that is marked and not yet added, or Free
  sweep,      \* cleanupLoop: what it cleans next, "marks" (waiting) or "collectors"
  burst,      \* the fragments that each neighbour has yet to send
  repeated,   \* at a prompt pace: has a neighbour begun to send since the last tick?
  got,        \* history: what handleMSG was given
  since,      \* history: ticks since it was last given something, or Never
  pace,       \* "prompt": the message is repeated between any two ticks
  faults      \* history: losses and restarts so far

vars == <<seen, collector, hand, sweep, burst, repeated, got, since, pace, faults>>

Unmarked    == -1
Never       == SeenTicks
NoCollector == [total |-> 0]
Free        == <<>>
Slices      == {Slice(c, i) : c \in Threshold, i \in AllIndex}

IsCollector(col) ==
  \E c \in Threshold : \E I \in SUBSET Index(c) :
    col \in [total : {Total(c)}, frags : [I -> Slices], age : 0 .. CollectorTicks - 1]

TypeOK ==
  /\ seen \in [AllIndex -> {Unmarked} \cup 0 .. SeenTicks - 1]
  /\ collector = NoCollector \/ IsCollector(collector)
  /\ hand = Free \/ \E c \in Threshold : \E i \in Index(c) : hand = <<c, i>>
  /\ sweep \in {"marks", "collectors"}
  /\ burst \in [Threshold -> SUBSET AllIndex]
  /\ got \subseteq {"intact", "garbled"}
  /\ since \in 0 .. SeenTicks
  /\ repeated \in BOOLEAN /\ pace \in {"prompt", "any"}
  /\ faults \in 0 .. MaxFaults

Init ==
  /\ seen = [i \in AllIndex |-> Unmarked]
  /\ collector = NoCollector
  /\ hand = Free /\ sweep = "marks"
  /\ burst = [c \in Threshold |-> {}]
  /\ got = {} /\ since = Never
  /\ repeated = FALSE /\ pace \in {"prompt", "any"}
  /\ faults = 0

-----------------------------------------------------------------------------
(* A neighbour sends (or rebroadcasts, or pushes) the message.  Its queue   *)
(* hands the fragments out in no fixed order: the first is scheduled        *)
(* seconds after the others.                                                *)
FragmentMessage(c) ==
  /\ burst[c] = {}
  /\ burst' = [burst EXCEPT ![c] = Index(c)]
  /\ repeated' = (pace = "prompt")
  /\ UNCHANGED <<seen, collector, hand, sweep, got, since, pace, faults>>

LoseFragment(c, i) ==
  /\ faults < MaxFaults
  /\ i \in burst[c]
  /\ burst' = [burst EXCEPT ![c] = @ \ {i}]
  /\ faults' = faults + 1
  /\ UNCHANGED <<seen, collector, hand, sweep, repeated, got, since, pace>>

\* Mutant: the mark is set but not looked at.
HearAgain(c, i) ==
  /\ hand = Free /\ i \in burst[c]
  /\ burst' = [burst EXCEPT ![c] = @ \ {i}]
  /\ IF Total(c) > MaxFragments
     THEN UNCHANGED <<seen, hand>>
     ELSE seen' = [seen EXCEPT ![i] = 0] /\ hand' = <<c, i>>
  /\ UNCHANGED <<collector, sweep, repeated, got, since, pace, faults>>

(* handleFRAG: fragFromPB refuses too many fragments; an index seen before  *)
(* is dropped; otherwise MarkSeenIfNew has marked it.                       *)
HearFragment(c, i) ==
  /\ hand = Free /\ i \in burst[c]
  /\ burst' = [burst EXCEPT ![c] = @ \ {i}]
  /\ IF Total(c) > MaxFragments \/ seen[i] # Unmarked
     THEN UNCHANGED <<seen, hand>>
     ELSE seen' = [seen EXCEPT ![i] = 0] /\ hand' = <<c, i>>
  /\ UNCHANGED <<collector, sweep, repeated, got, since, pace, faults>>

\* The collector of the message, made when there is none.
CollectorFor(c) ==
  IF collector = NoCollector
  THEN [total |-> Total(c), frags |-> [i \in {} |-> <<0, 0>>], age |-> 0]
  ELSE collector

With(col, c, i) ==
  [col EXCEPT !.frags = [j \in DOMAIN @ \cup {i} |-> IF j = i THEN Slice(c, i) ELSE @[j]]]

\* Mutant: the total is not compared.
AddedAnyTotal(col, c, i) ==
  IF i \notin DOMAIN col.frags THEN With(col, c, i) ELSE col

\* FragmentCollector.AddFragment: wrong total or index already there: ignored.
Added(col, c, i) ==
  IF Total(c) = col.total /\ i \notin DOMAIN col.frags THEN With(col, c, i) ELSE col

IsComplete(col) == Cardinality(DOMAIN col.frags) = col.total

(* Fragmenter.AddFragment.  A complete collector is decoded; bytes that are *)
(* not the message may decode by accident.  When they do not, the collector *)
(* stays, complete as it is.                                                *)
AddFragment(c, i) ==
  LET col == Added(CollectorFor(c), c, i) IN
  /\ hand = <<c, i>> /\ hand' = Free
  /\ \/ /\ ~(IsComplete(col) /\ Whole(col.frags, col.total))
        /\ collector' = col
        /\ UNCHANGED <<got, since>>
     \/ /\ IsComplete(col)
        /\ got' = got \cup {IF Whole(col.frags, col.total) THEN "intact" ELSE "garbled"}
        /\ collector' = NoCollector
        /\ since' = 0
  /\ UNCHANGED <<seen, sweep, burst, repeated, pace, faults>>

\* Marks and the collector grow a tick older, and go when their time is up.
OlderMark(age, ticks) ==
  IF age = Unmarked \/ age + 1 >= ticks THEN Unmarked ELSE age + 1
OlderCollector(ticks) ==
  IF collector = NoCollector \/ collector.age + 1 >= ticks
  THEN NoCollector
  ELSE [collector EXCEPT !.age = @ + 1]

SweepMarks(ticks) ==
  /\ sweep = "marks" /\ sweep' = "collectors"
  /\ hand # Free => seen[hand[2]] = 0
  /\ pace = "prompt" => repeated /\ hand = Free /\ \A c \in Threshold : burst[c] = {}
  /\ seen' = [i \in AllIndex |-> OlderMark(seen[i], ticks)]
  /\ since' = IF since = Never THEN Never ELSE since + 1
  /\ repeated' = FALSE
  /\ UNCHANGED <<collector, hand, burst, got, pace, faults>>

SweepCollectors(ticks) ==
  /\ sweep = "collectors" /\ sweep' = "marks"
  /\ collector' = OlderCollector(ticks)
  /\ UNCHANGED <<seen, hand, burst, repeated, got, since, pace, faults>>

\* Mutants: marks do not outlive collectors; collectors do not last at all.
SweepMarksSoon      == SweepMarks(1)
SweepCollectorsSoon == SweepCollectors(1)

(* A tick of cleanupLoop, in two statements.  At most one tick falls        *)
(* between the two statements of handleFRAG.                                *)
CleanupSeenCache == SweepMarks(SeenTicks)
CleanupExpired   == SweepCollectors(CollectorTicks)

\* A restart: collectors are in memory, and migrate drops seen_cache.
Crash ==
  /\ faults < MaxFaults
  /\ seen' = [i \in AllIndex |-> Unmarked]
  /\ collector' = NoCollector
  /\ hand' = Free /\ sweep' = "marks"
  /\ since' = Never
  /\ faults' = faults + 1
  /\ UNCHANGED <<burst, repeated, got, pace>>

Next ==
  \/ \E c \in Threshold :
       \/ FragmentMessage(c)
       \/ \E i \in Index(c) : HearFragment(c, i) \/ AddFragment(c, i) \/ LoseFragment(c, i)
  \/ CleanupSeenCache \/ CleanupExpired
  \/ Crash

Spec == Init /\ [][Next]_vars

(* What is not lost is heard in its turn, and time passes.                  *)
Fairness ==
  /\ \A c \in Threshold : \A i \in Index(c) :
       SF_vars(HearFragment(c, i)) /\ WF_vars(AddFragment(c, i))
  /\ WF_vars(CleanupSeenCache) /\ WF_vars(CleanupExpired)

FairSpec == Spec /\ Fairness

-----------------------------------------------------------------------------
(* No message is put together from slices that were cut for different       *)
(* thresholds, when the numbers of fragments differ.                        *)
Intact == "garbled" \notin got

(* What a collector holds, or is about to be given, is marked in seen_cache *)
(* from first to last, whatever cleanupLoop does between the two statements *)
(* of handleFRAG: a mark may be a tick older than the collector, and one    *)
(* more while the tick has reached the marks only.                          *)
Lag == IF sweep = "collectors" THEN 2 ELSE 1
SeenCoversCollector ==
  /\ hand # Free => seen[hand[2]] \in 0 .. 1
  /\ collector # NoCollector =>
       \A i \in DOMAIN collector.frags : seen[i] \in 0 .. collector.age + Lag

(* Without a restart, a message is put together again only after its marks  *)
(* have gone, whoever repeats it: the marks of a collector's fragments are  *)
(* at most a tick older than CollectorTicks when it is complete.            *)
PutTogether == hand # Free /\ hand' = Free /\ collector' = NoCollector /\ faults' = faults
NotTwice ==
  [][PutTogether => since = Never \/ since + CollectorTicks + 1 >= SeenTicks]_vars

(* SVECs make the holders of the message push it again and again, and each   *)
(* time it is heard and added completely between two ticks; they share one   *)
(* threshold.                                                                *)
Repeated(c) ==
  /\ pace = "prompt"
  /\ [](\A d \in Threshold \ {c} : burst[d] = {})
  /\ WF_vars(FragmentMessage(c))

(* One lost fragment, or one restart, does not keep the message out: the     *)
(* rest of the collector and its marks go in time for a later repetition.    *)
(* After two, the marks may go at different times for ever, and it stays out;*)
(* so it does when a collector is swept within handleFRAG, after one loss.   *)
ReassembledAfterLoss ==
  \A c \in Threshold : Repeated(c) /\ [](faults <= 1) => <>(got # {})
=============================================================================
