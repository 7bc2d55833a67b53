----------------------------- MODULE TopicTail ------------------------------
(***************************************************************************)
(* The tail of the dead-letter topic (ui/server/kafka.ts, tailTopic): the  *)
(* offsets are fetched, a consumer joins at the end of the topic and       *)
(* starts, and only then is sought back; what it is handed until enough    *)
(* came, or a timer ran out, is sorted by time and cut.                    *)
(***************************************************************************)
EXTENDS Integers, Sequences, SequencesExt, FiniteSetsExt

CONSTANTS
  NoTail,      \* no tail is under way, or none was shown
  Partitions,
  TailSize,    \* messages asked for
  MaxTopic     \* bound: messages ever in the topic

ASSUME TailAssumption ==
  /\ IsFiniteSet(Partitions) /\ Partitions # {}
  /\ TailSize \in Nat \ {0} /\ MaxTopic \in Nat

VARIABLES
  topic,    \* the partition of every message, in the order of their times
  expired,  \* how many of the oldest the topic no longer keeps
  tail,     \* the tail under way
  shown     \* what the last one returned, by time, and how it ended

tailVars == <<topic, expired, tail, shown>>

(* The broker's offsets (external).                                         *)
Messages(p) == {i \in DOMAIN topic : topic[i] = p}
High(p) == Cardinality(Messages(p))
Low(p)  == Cardinality(Messages(p) \cap 1 .. expired)
AtOffset(p, offset) ==
  CHOOSE i \in Messages(p) : Cardinality(Messages(p) \cap 1 .. i) = offset + 1

(* History: a tail is quiet as long as the topic does not grow.             *)
Produced(p) ==
  /\ Len(topic) < MaxTopic
  /\ topic' = Append(topic, p)
  /\ tail' = IF tail = NoTail THEN tail ELSE [tail EXCEPT !.quiet = FALSE]
  /\ shown' = IF shown = NoTail THEN shown ELSE [shown EXCEPT !.quiet = FALSE]
  /\ UNCHANGED expired

----------------------------------------------------------------------------
(* A share per partition, rounded up.                                       *)
PerPartition ==
  LET parts == Cardinality(Partitions) IN Max({1, (TailSize + parts - 1) \div parts})

(* Defective: one too late.                                                 *)
BugFrom(p) == Max({Low(p), High(p) - PerPartition + 1})
From(p) == Max({Low(p), High(p) - PerPartition})

Targets == {p \in Partitions : High(p) > From(p)}

Expected == SumFunction([p \in Targets |-> High(p) - From(p)])

FetchOffsets ==
  /\ tail = NoTail
  /\ IF Targets = {}
     THEN shown' = [messages |-> <<>>, enough |-> TRUE, quiet |-> TRUE] /\ UNCHANGED tail
     ELSE /\ tail' = [phase |-> "joining", from |-> [p \in Targets |-> From(p)],
                      expected |-> Expected, at |-> <<>>, got |-> <<>>,
                      enough |-> FALSE, quiet |-> TRUE]
          /\ UNCHANGED shown
  /\ UNCHANGED <<topic, expired>>

InPhase(phases) == tail # NoTail /\ tail.phase \in phases

(* The group is new: it begins at the end.                                  *)
Join ==
  /\ InPhase({"joining"})
  /\ tail' = [tail EXCEPT !.phase = "running", !.at = [p \in Partitions |-> High(p)]]
  /\ UNCHANGED <<topic, expired, shown>>

(* eachMessage; also between the answer and the disconnect.                 *)
EachMessage(p) ==
  LET got == Append(tail.got, AtOffset(p, tail.at[p]))
  IN  /\ InPhase({"running", "sought", "leaving"}) /\ tail.at[p] < High(p)
      /\ tail' = [tail EXCEPT !.got = got, !.at[p] = @ + 1,
                              !.enough = @ \/ (tail.phase # "leaving" /\ Len(got) >= tail.expected),
                              !.phase = IF Len(got) >= tail.expected THEN "leaving" ELSE @]
      /\ UNCHANGED <<topic, expired, shown>>

(* Once run has started, every target is sought, also when enough came      *)
(* before.                                                                  *)
SeekBack ==
  /\ InPhase({"running"})
  /\ tail' = [tail EXCEPT !.phase = "sought",
                          !.at = [p \in Partitions |-> IF p \in DOMAIN tail.from
                                                       THEN tail.from[p] ELSE @[p]]]
  /\ UNCHANGED <<topic, expired, shown>>

(* The timer of eight seconds, or a consumer that does not start.           *)
GiveUp ==
  /\ InPhase({"joining", "running", "sought"})
  /\ tail' = [tail EXCEPT !.phase = "leaving", !.at = IF @ = <<>> THEN [p \in Partitions |-> High(p)] ELSE @]
  /\ UNCHANGED <<topic, expired, shown>>

(* The place of a message by its time, newest first; messages of one time   *)
(* keep their order.                                                        *)
Place(times, k) ==
  1 + Cardinality({j \in DOMAIN times : times[j] > times[k] \/ (times[j] = times[k] /\ j < k)})

(* Newest first, and no more than asked for.                                *)
NewestFirst(times) ==
  LET sorted == [i \in DOMAIN times |-> times[CHOOSE k \in DOMAIN times : Place(times, k) = i]]
  IN  SubSeq(sorted, 1, Min({TailSize, Len(sorted)}))

Leave ==
  /\ InPhase({"leaving"})
  /\ shown' = [messages |-> NewestFirst(tail.got), enough |-> tail.enough, quiet |-> tail.quiet]
  /\ tail' = NoTail
  /\ UNCHANGED <<topic, expired>>

TailInit ==
  /\ \E n \in 0 .. MaxTopic - 1 : topic \in [1 .. n -> Partitions]
  /\ expired \in 0 .. Len(topic)
  /\ tail = NoTail /\ shown = NoTail

TailNext ==
  \/ FetchOffsets \/ Join \/ SeekBack \/ GiveUp \/ Leave
  \/ \E p \in Partitions : EachMessage(p) \/ Produced(p)

(* A tail of a topic that does not grow meanwhile and that ends before its  *)
(* timer shows the newest messages of every partition's share, each once,   *)
(* although its consumer starts where nothing is left to read.              *)
TailComplete ==
  shown # NoTail /\ shown.enough /\ shown.quiet
    => shown.messages = NewestFirst(SetToSeq(
         {i \in DOMAIN topic : /\ i > expired
                               /\ Cardinality({j \in Messages(topic[i]) : j > i}) < PerPartition}))
=============================================================================
