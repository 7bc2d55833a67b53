-------------------------- MODULE Telemetry_proofs --------------------------
(***************************************************************************)
(* The telemetry store, for every set of procedures, counters and          *)
(* intervals, and whatever the bounds of the runs.                         *)
(*                                                                         *)
(* Polling never dies: a step keeps the chain alive for one of three       *)
(* reasons.  It sets a timeout of the generation that it leaves in use; it *)
(* puts a tick of that generation in flight; or it takes nothing of that   *)
(* generation away.                                                        *)
(*                                                                         *)
(* The rest is about what a tick finds when its answers have come.  What   *)
(* is kept of a generation is never newer than the generation in use, so a *)
(* switch leaves nothing behind that a later tick could take for its own   *)
(* (ProviderInv).  While no tick is in flight the handle kept in timer is  *)
(* that of a pending timeout (ChainsInv).  And while no second tick was in *)
(* flight, the counters of a sample, of an answer that waits to be applied *)
(* and of the cluster follow each other in this order (SoundInv).          *)
(*                                                                         *)
(* The feed then adds up to what the ring shows (FeedInv), and everything  *)
(* that is kept stays within the limits it was made with (LimitsInv).      *)
(***************************************************************************)
EXTENDS Telemetry, SumTheorems, FiniteSetTheorems, SequenceTheorems, WellFoundedInduction, TLAPS

(* A tick in flight is a record that has a generation: an answer to one of  *)
(* its requests does not change it.                                         *)
FlightsHaveGen == \A f \in flights : "gen" \in DOMAIN f

ChainInv == FlightsHaveGen /\ ChainAlive

----------------------------------------------------------------------------

(* A timeout that is set is pending.                                        *)
LEMMA TimerIsPending ==
  ASSUME NEW pending, NEW g, NEW delay, SetTimer(pending, g, delay)
  PROVE  \E x \in timeouts' : x.gen = g
<1> DEFINE x == [id |-> FreeId(pending), gen |-> g, due |-> now + delay]
<1>1. x \in timeouts'
  BY DEF SetTimer
<1>2. x.gen = g
  OBVIOUS
<1> QED  BY <1>1, <1>2

(* A step that takes no timeout and no tick of the generation in use away,  *)
(* and starts no other generation, keeps the chain alive.                   *)
LEMMA NothingTaken ==
  ASSUME ChainAlive, generation' = generation,
         \A x \in timeouts : x.gen = generation => x \in timeouts',
         \A f \in flights : f.gen = generation => \E g \in flights' : g.gen = generation
  PROVE  ChainAlive'
BY DEF ChainAlive

----------------------------------------------------------------------------

LEMMA InitChain == Init => ChainInv
<1> SUFFICES ASSUME Init PROVE ChainInv
  OBVIOUS
<1>1. PICK mode \in Modes, ms \in Polls :
        timeouts = {[id |-> 1, gen |-> 1, due |-> FirstDelay(mode, ms)]}
  BY DEF Init
<1>2. generation = 1 /\ flights = {}
  BY DEF Init
<1>3. [id |-> 1, gen |-> 1, due |-> FirstDelay(mode, ms)].gen = generation
  BY <1>2
<1> QED  BY <1>1, <1>2, <1>3 DEF ChainInv, FlightsHaveGen, ChainAlive

LEMMA FireChain ==
  ASSUME ChainInv, NEW x \in timeouts, Fire(x)
  PROVE  ChainInv'
<1> USE DEF ChainInv
<1>1. CASE Drop(x)
  <2>1. flights' = flights /\ generation' = generation
    BY <1>1 DEF Drop, poller
  <2>2. \A y \in timeouts : y.gen = generation => y \in timeouts'
    BY <1>1 DEF Drop
  <2>3. ChainAlive'
    BY <2>1, <2>2, NothingTaken
  <2> QED  BY <2>1, <2>3 DEF FlightsHaveGen
<1>2. CASE TickPaused(x)
  <2>1. flights' = flights /\ generation' = generation
    BY <1>2 DEF TickPaused, poller
  <2>2. \E y \in timeouts' : y.gen = generation
    BY <1>2, TimerIsPending DEF TickPaused
  <2> QED  BY <2>1, <2>2 DEF FlightsHaveGen, ChainAlive
<1>3. CASE TickMock(x)
  <2>1. flights' = flights /\ generation' = generation
    BY <1>3 DEF TickMock
  <2>2. \E y \in timeouts' : y.gen = generation
    BY <1>3, TimerIsPending DEF TickMock
  <2> QED  BY <2>1, <2>2 DEF FlightsHaveGen, ChainAlive
<1>4. CASE TickLive(x)
  <2> DEFINE f == [id |-> FreeId(flights), gen |-> x.gen, t |-> now,
                   stats |-> Waiting, counters |-> Waiting]
  <2>1. flights' = flights \cup {f} /\ generation' = generation
    BY <1>4 DEF TickLive, poller
  <2>2. f.gen = generation /\ "gen" \in DOMAIN f
    BY <1>4 DEF TickLive
  <2> QED  BY <2>1, <2>2 DEF FlightsHaveGen, ChainAlive
<1> QED  BY <1>1, <1>2, <1>3, <1>4 DEF Fire

(* An answer to a request leaves the tick that sent it in flight.           *)
LEMMA AnsweredChain ==
  ASSUME ChainInv, NEW f \in flights, NEW g, Answered(f, g),
         "gen" \in DOMAIN g, g.gen = f.gen
  PROVE  ChainInv'
<1> USE DEF ChainInv
<1>1. timeouts' = timeouts /\ generation' = generation /\ flights' = (flights \ {f}) \cup {g}
  BY DEF Answered, poller
<1>2. \A h \in flights : h.gen = generation => \E k \in flights' : k.gen = generation
  BY <1>1
<1>3. ChainAlive'
  BY <1>1, <1>2, NothingTaken
<1> QED  BY <1>1, <1>3 DEF FlightsHaveGen

LEMMA FlightChain ==
  ASSUME ChainInv, NEW f \in flights,
         \/ ServeStats(f) \/ ServeCounters(f) \/ RequestFails(f) \/ EndStale(f)
         \/ \E report \in Reports : EndTick(f, report[1], report[2])
  PROVE  ChainInv'
<1> USE DEF ChainInv
<1>1. "gen" \in DOMAIN f
  BY DEF FlightsHaveGen
<1>2. \A v : /\ "gen" \in DOMAIN [f EXCEPT !.stats = v]
             /\ [f EXCEPT !.stats = v].gen = f.gen
             /\ "gen" \in DOMAIN [f EXCEPT !.counters = v]
             /\ [f EXCEPT !.counters = v].gen = f.gen
  BY <1>1
<1>3. CASE ServeStats(f)
  BY <1>2, <1>3, AnsweredChain DEF ServeStats
<1>4. CASE ServeCounters(f)
  BY <1>2, <1>4, AnsweredChain DEF ServeCounters
<1>5. CASE RequestFails(f)
  BY <1>2, <1>5, AnsweredChain DEF RequestFails
<1>6. CASE EndStale(f)
  <2>1. timeouts' = timeouts /\ generation' = generation
    BY <1>6 DEF EndStale, poller
  <2>2. \A h \in flights : h.gen = generation => h \in flights'
    BY <1>6 DEF EndStale, IsStale
  <2>3. ChainAlive'
    BY <2>1, <2>2, NothingTaken
  <2> QED  BY <1>6, <2>3 DEF EndStale, FlightsHaveGen
<1>7. CASE \E report \in Reports : EndTick(f, report[1], report[2])
  <2>1. PICK report \in Reports : EndTick(f, report[1], report[2])
    BY <1>7
  <2>2. /\ f.gen = generation /\ generation' = generation
        /\ flights' = flights \ {f}
        /\ SetTimer(timeouts, f.gen, pollMs)
    BY <2>1 DEF EndTick, IsStale, Continue
  <2>3. \E x \in timeouts' : x.gen = generation
    BY <2>2, TimerIsPending
  <2> QED  BY <2>2, <2>3 DEF FlightsHaveGen, ChainAlive
<1> QED  BY <1>3, <1>4, <1>5, <1>6, <1>7

LEMMA StepChain == ChainInv /\ [Next]_vars => ChainInv'
<1> SUFFICES ASSUME ChainInv, [Next]_vars PROVE ChainInv'
  OBVIOUS
<1> USE DEF ChainInv
<1>1. ASSUME NEW mode \in Modes, Switch(mode) PROVE ChainInv'
  <2>1. flights' = flights /\ generation' = generation + 1
    BY <1>1 DEF Switch
  <2>2. \E x \in timeouts' : x.gen = generation + 1
    BY <1>1, TimerIsPending DEF Switch
  <2> QED  BY <2>1, <2>2 DEF FlightsHaveGen, ChainAlive
<1>2. CASE Show
  <2>1. flights' = flights /\ generation' = generation
    BY <1>2 DEF Show
  <2>2. \E x \in timeouts' : x.gen = generation
    BY <1>2, TimerIsPending DEF Show
  <2> QED  BY <2>1, <2>2 DEF FlightsHaveGen, ChainAlive
<1>3. CASE \E x \in timeouts : Fire(x)
  BY <1>3, FireChain
<1>4. CASE \E f \in flights :
             \/ ServeStats(f) \/ ServeCounters(f) \/ RequestFails(f) \/ EndStale(f)
             \/ \E report \in Reports : EndTick(f, report[1], report[2])
  BY <1>4, FlightChain
<1>5. CASE UNCHANGED <<timeouts, flights, generation>>
  BY <1>5 DEF FlightsHaveGen, ChainAlive
<1>6. CASE \E ms \in Polls : SetPollInterval(ms)
  BY <1>5, <1>6 DEF SetPollInterval
<1>7. CASE Hide
  BY <1>5, <1>7 DEF Hide
<1>8. CASE \E p \in Procs : CallProcedure(p)
  BY <1>5, <1>8 DEF CallProcedure, poller
<1>9. CASE \E c \in Counters : Reject(c)
  BY <1>5, <1>9 DEF Reject, poller
<1>10. CASE RestartCluster \/ Advance
  BY <1>5, <1>10 DEF RestartCluster, Advance, poller
<1>11. CASE UNCHANGED vars
  BY <1>5, <1>11 DEF vars, poller
<1> QED
  BY <1>1, <1>2, <1>3, <1>4, <1>6, <1>7, <1>8, <1>9, <1>10, <1>11 DEF Next

(* Whatever is hidden, shown, switched, answered or failed, the provider in *)
(* use has a timeout pending or a tick in flight (telemetry.ts, tick and    *)
(* onVis).                                                                  *)
THEOREM PollingNeverDies == Spec => []ChainAlive
<1>1. ChainInv => ChainAlive
  BY DEF ChainInv
<1> QED  BY InitChain, StepChain, <1>1, PTL DEF Spec

----------------------------------------------------------------------------
(* What is kept, without the bounds of the runs *)

AllCalls  == UNION {[P -> Nat] : P \in SUBSET Procs}
AllValues == [Counters -> Nat]
AnySample == [t : Nat, since : Nat, calls : [Procs -> Int], vanished : SUBSET Procs, gen : Nat,
              counters : AllValues]
AnyPoll   == [t : Nat, gen : Nat, inv : AllCalls, counters : AllValues]
AnyFlight == [id : Nat, gen : Nat, t : Nat,
              stats    : {Waiting, Failed} \cup [st : {"ok"}, inv : AllCalls],
              counters : {Waiting, Failed} \cup [st : {"ok"}, val : AllValues]]
AnyTimeout == [id : Nat, gen : Nat, due : Nat]

StateFields == {"mode", "samples", "events", "paused", "health", "tables", "lastError",
                "lastSuccessAt", "ticked", "baselineReset"}

ClockTypes == now \in Nat /\ pollMs \in Nat /\ generation \in Nat /\ returns \in Nat
StateTypes ==
  /\ DOMAIN state = StateFields
  /\ state.mode \in Modes /\ state.samples \in Seq(AnySample)
  /\ state.lastSuccessAt \in Nat \cup {None} /\ {state.lastError, state.ticked} \subseteq BOOLEAN
  /\ state.mode = "mock" => state.samples # <<>>
PollTypes ==
  /\ prevRaw \in AnyPoll \cup {None}
  /\ flights \subseteq AnyFlight /\ IsFiniteSet(flights)
  /\ timeouts \subseteq AnyTimeout /\ IsFiniteSet(timeouts)
  /\ cluster \in [inv : [Procs -> Nat], counters : AllValues]

StoreTypes == ClockTypes /\ StateTypes /\ PollTypes

(* Nothing is of a later generation than the one in use, and what a page or *)
(* the next tick reads is of that one.                                      *)
ProviderInv ==
  /\ \A x \in timeouts : x.gen <= generation
  /\ \A f \in flights : f.gen <= generation
  /\ \A f \in flights : f.gen = generation => state.mode = "live"
  /\ ProvidersNeverMix

(* While no tick is in flight, timer is the handle of a pending timeout.    *)
ChainsInv ==
  /\ ChainsNeedReturns
  /\ InFlight(generation) = {} => \E x \in timeouts : x.id = timer /\ x.gen = generation

(* A sample follows the one before it, and a rate below zero is of a        *)
(* procedure that was no longer reported.                                   *)
SpansInv ==
  state.mode = "live" => \A i \in DOMAIN state.samples :
    LET s == state.samples[i]
    IN  s.since < s.t /\ \A p \in Procs : s.calls[p] < 0 => p \in s.vanished

AtMost(a, b) == \A c \in Counters : a[c] <= b[c]

Rising(samples) ==
  \A i, j \in DOMAIN samples : i <= j => AtMost(samples[i].counters, samples[j].counters)

SoundInv ==
  sound /\ state.mode = "live" =>
    /\ \A f, g \in InFlight(generation) : f = g
    /\ \A f \in InFlight(generation) :
         f.counters.st = "ok" => AtMost(f.counters.val, cluster.counters)
    /\ Rising(state.samples)
    /\ state.samples # <<>> =>
         /\ AtMost(Last(state.samples).counters, cluster.counters)
         /\ \A f \in InFlight(generation) :
              f.counters.st = "ok" => AtMost(Last(state.samples).counters, f.counters.val)

(* What a poll that has succeeded leaves behind until the provider changes. *)
Polled == state.tables = generation /\ state.lastSuccessAt # None
GreenInv ==
  state.mode = "live" =>
    /\ state.ticked => state.health \in {"up", "down"} /\ (state.lastError \/ Polled)
    /\ state.samples # <<>> => Polled

----------------------------------------------------------------------------
(* The store's helpers *)

(* There is always an id that no other thing has.                           *)
LEMMA FreeIdIsFree ==
  ASSUME NEW things, IsFiniteSet(things)
  PROVE  FreeId(things) \in Nat /\ \A x \in things : x.id # FreeId(things)
<1> DEFINE n == Cardinality(things)
<1>1. n \in Nat
  BY FS_CardinalityType
<1>2. \E i \in 1 .. n + 1 : \A x \in things : x.id # i
  <2> SUFFICES ASSUME \A i \in 1 .. n + 1 : \E x \in things : x.id = i
               PROVE  FALSE
    OBVIOUS
  <2> DEFINE holder == [i \in 1 .. n + 1 |-> CHOOSE x \in things : x.id = i]
  <2>1. holder \in [1 .. n + 1 -> things] /\ \A i \in 1 .. n + 1 : holder[i].id = i
    OBVIOUS
  <2>2. IsFiniteSet(1 .. n + 1) /\ Cardinality(1 .. n + 1) = n + 1
    BY <1>1, FS_Interval
  <2> HIDE DEF holder
  <2>3. \E i, j \in 1 .. n + 1 : i # j /\ holder[i] = holder[j]
    BY <1>1, <2>1, <2>2, FS_PigeonHole
  <2> QED  BY <2>1, <2>3
<1>3. FreeId(things) \in 1 .. n + 1 /\ \A x \in things : x.id # FreeId(things)
  BY <1>2 DEF FreeId
<1> QED  BY <1>1, <1>3

(* A sample is pushed: the others keep their order, and the first is        *)
(* dropped when the ring is full.                                           *)
LEMMA PushedFacts ==
  ASSUME NEW S, NEW samples \in Seq(S), NEW s \in S
  PROVE  /\ Pushed(samples, s) \in Seq(S) /\ Pushed(samples, s) # <<>>
         /\ \E d \in {0, 1} :
              /\ d <= Len(samples) /\ Len(Pushed(samples, s)) = Len(samples) - d + 1
              /\ \A i \in 1 .. Len(samples) - d : Pushed(samples, s)[i] = samples[i + d]
              /\ Pushed(samples, s)[Len(samples) - d + 1] = s
<1>1. Len(samples) \in Nat /\ MaxSamples \in Nat \ {0}
  BY LenProperties, TelemetryAssumption
<1>2. CASE Len(samples) < MaxSamples
  <2>1. Pushed(samples, s) = Append(samples, s)
    BY <1>2 DEF Pushed
  <2>2. /\ Append(samples, s) \in Seq(S) /\ Len(Append(samples, s)) = Len(samples) + 1
        /\ \A i \in 1 .. Len(samples) : Append(samples, s)[i] = samples[i]
        /\ Append(samples, s)[Len(samples) + 1] = s
    OBVIOUS
  <2>3. Append(samples, s) # <<>>
    BY <1>1, <2>2
  <2>4. /\ 0 <= Len(samples) /\ Len(Pushed(samples, s)) = Len(samples) - 0 + 1
        /\ \A i \in 1 .. Len(samples) - 0 : Pushed(samples, s)[i] = samples[i + 0]
        /\ Pushed(samples, s)[Len(samples) - 0 + 1] = s
    BY <1>1, <2>1, <2>2
  <2> QED  BY <2>1, <2>2, <2>3, <2>4
<1>3. CASE ~ (Len(samples) < MaxSamples)
  <2>1. Pushed(samples, s) = Append(Tail(samples), s) /\ samples # <<>> /\ Len(samples) >= 1
    BY <1>1, <1>3 DEF Pushed
  <2>2. /\ Tail(samples) \in Seq(S) /\ Len(Tail(samples)) = Len(samples) - 1
        /\ \A i \in 1 .. Len(Tail(samples)) : Tail(samples)[i] = samples[i + 1]
    BY <2>1, HeadTailProperties
  <2>3. PICK rest \in Seq(S) : rest = Tail(samples)
    BY <2>2
  <2>4. /\ Append(rest, s) \in Seq(S) /\ Len(Append(rest, s)) = Len(rest) + 1
        /\ \A i \in 1 .. Len(rest) : Append(rest, s)[i] = rest[i]
        /\ Append(rest, s)[Len(rest) + 1] = s
    OBVIOUS
  <2>5. Append(rest, s) # <<>>
    <3>1. Len(rest) \in Nat
      BY LenProperties
    <3>2. Len(Append(rest, s)) # 0
      BY <2>4, <3>1
    <3> QED  BY <2>4, <3>2, EmptySeq
  <2>6. /\ 1 <= Len(samples) /\ Len(Pushed(samples, s)) = Len(samples) - 1 + 1
        /\ \A i \in 1 .. Len(samples) - 1 : Pushed(samples, s)[i] = samples[i + 1]
        /\ Pushed(samples, s)[Len(samples) - 1 + 1] = s
    BY <1>1, <2>1, <2>2, <2>3, <2>4
  <2> QED  BY <2>1, <2>3, <2>4, <2>5, <2>6
<1> QED  BY <1>2, <1>3

(* So whatever is true of every sample stays so when it is of the new one.  *)
LEMMA PushedKeeps ==
  ASSUME NEW S, NEW samples \in Seq(S), NEW s \in S, NEW i \in DOMAIN Pushed(samples, s)
  PROVE  Pushed(samples, s)[i] = s \/ \E j \in DOMAIN samples : Pushed(samples, s)[i] = samples[j]
<1>1. PICK d \in {0, 1} :
        /\ d <= Len(samples) /\ Len(Pushed(samples, s)) = Len(samples) - d + 1
        /\ \A j \in 1 .. Len(samples) - d : Pushed(samples, s)[j] = samples[j + d]
        /\ Pushed(samples, s)[Len(samples) - d + 1] = s
  BY PushedFacts
<1>2. /\ Len(samples) \in Nat /\ DOMAIN samples = 1 .. Len(samples)
      /\ DOMAIN Pushed(samples, s) = 1 .. Len(Pushed(samples, s))
  BY LenProperties, PushedFacts
<1>3. i = Len(samples) - d + 1 \/ (i \in 1 .. Len(samples) - d /\ i + d \in 1 .. Len(samples))
  BY <1>1, <1>2
<1> QED  BY <1>1, <1>2, <1>3

(* The rest of a poll, field by field.                                      *)
LEMMA PolledFields ==
  ASSUME NEW s, DOMAIN s = StateFields, NEW health, NEW tables, NEW failure, NEW at
  PROVE  LET n == [s EXCEPT !.health = health, !.tables = tables, !.lastError = failure,
                            !.lastSuccessAt = at, !.ticked = TRUE]
         IN  /\ DOMAIN n = StateFields
             /\ n.health = health /\ n.tables = tables /\ n.lastError = failure
             /\ n.lastSuccessAt = at /\ n.ticked = TRUE
             /\ n.mode = s.mode /\ n.samples = s.samples /\ n.paused = s.paused
BY DEF StateFields

(* How many calls of a procedure an answer counts.                          *)
LEMMA AtIsNat ==
  ASSUME NEW inv \in AllCalls, NEW p
  PROVE  At(inv, p) \in Nat
BY DEF AllCalls, At

LEMMA LastOfSamples ==
  ASSUME NEW S, NEW samples \in Seq(S), samples # <<>>
  PROVE  /\ Last(samples) \in S
         /\ Len(samples) \in DOMAIN samples /\ Last(samples) = samples[Len(samples)]
<1>1. Len(samples) \in Nat /\ Len(samples) # 0 /\ DOMAIN samples = 1 .. Len(samples)
  BY EmptySeq, LenProperties
<1>2. Last(samples) = samples[Len(samples)]
  BY DEF Last
<1>3. samples[Len(samples)] \in S
  BY <1>1, ElementOfSeq
<1> QED  BY <1>1, <1>2, <1>3

(* The answers to a tick that has not failed are a poll.                    *)
LEMMA PollIsPoll ==
  ASSUME NEW f \in AnyFlight, Waiting \notin {f.stats, f.counters}, f.stats # Failed
  PROVE  /\ Poll(f) \in AnyPoll
         /\ Poll(f).t = f.t /\ Poll(f).gen = f.gen /\ Poll(f).inv = f.stats.inv
         /\ f.counters.st = "ok" => Poll(f).counters = f.counters.val
<1>1. f.t \in Nat /\ f.gen \in Nat /\ f.stats \in [st : {"ok"}, inv : AllCalls]
  BY DEF AnyFlight
<1>2. f.counters.st = "ok" => f.counters.val \in AllValues
  BY DEF AnyFlight, Failed, Waiting
<1>3. Zero \in AllValues
  BY DEF Zero, AllValues
<1> QED  BY <1>1, <1>2, <1>3 DEF Poll, AnyPoll

LEMMA SampleIsSample ==
  ASSUME NEW raw \in AnyPoll, prevRaw \in AnyPoll
  PROVE  SampleOf(raw) \in AnySample
<1>1. /\ raw.t \in Nat /\ raw.gen \in Nat /\ raw.inv \in AllCalls /\ raw.counters \in AllValues
      /\ prevRaw.t \in Nat /\ prevRaw.inv \in AllCalls
  BY DEF AnyPoll
<1>2. [p \in Procs |-> At(raw.inv, p) - At(prevRaw.inv, p)] \in [Procs -> Int]
  BY <1>1, AtIsNat
<1>3. DOMAIN prevRaw.inv \ DOMAIN raw.inv \subseteq Procs
  BY <1>1 DEF AllCalls
<1> QED  BY <1>1, <1>2, <1>3 DEF SampleOf, AnySample

LEMMA ReportsAreBoolean ==
  ASSUME NEW report \in Reports
  PROVE  report[2] \in BOOLEAN /\ report[1] \in {"up", "down"}
<1>1. /\ <<"up", FALSE>>[2] = FALSE /\ <<"up", TRUE>>[2] = TRUE /\ <<"down", FALSE>>[2] = FALSE
      /\ <<"up", FALSE>>[1] = "up" /\ <<"up", TRUE>>[1] = "up" /\ <<"down", FALSE>>[1] = "down"
  OBVIOUS
<1>2. report[2] = FALSE \/ report[2] = TRUE
  BY <1>1, Zenon DEF Reports
<1>3. report[1] = "up" \/ report[1] = "down"
  BY <1>1, Zenon DEF Reports
<1> QED  BY <1>2, <1>3

(* What a poll that has its statistics makes of the store.                  *)
LEMMA CommitFacts ==
  ASSUME StoreTypes, NEW f \in flights, NEW health, NEW latencyFails \in BOOLEAN,
         EndTick(f, health, latencyFails), f.stats # Failed
  PROVE  /\ Poll(f) \in AnyPoll /\ prevRaw' = Poll(f) /\ f.gen = generation
         /\ DOMAIN state' = StateFields /\ state'.mode = state.mode
         /\ state'.health = health /\ state'.tables = f.gen
         /\ state'.lastError = (latencyFails \/ f.counters = Failed)
         /\ state'.lastSuccessAt = f.t /\ state'.ticked = TRUE
         /\ \/ prevRaw = None /\ state'.samples = state.samples
            \/ prevRaw # None /\ state'.samples = <<>>
            \/ /\ prevRaw \in AnyPoll /\ ~Restarted(Poll(f)) /\ SampleOf(Poll(f)) \in AnySample
               /\ state'.samples = Pushed(state.samples, SampleOf(Poll(f)))
         /\ sound' => /\ f.counters.st = "ok" /\ Cardinality(InFlight(generation)) = 1
                      /\ sound \/ state'.samples = <<>>
<1>1. f \in AnyFlight /\ Waiting \notin {f.stats, f.counters} /\ f.gen = generation
      /\ Commit(f, health, latencyFails \/ f.counters = Failed)
  BY DEF EndTick, IsStale, StoreTypes, PollTypes
<1>2. Poll(f) \in AnyPoll
  BY <1>1, PollIsPoll
<1>3. PICK next :
        /\ next = (IF prevRaw = None THEN NoBaseline(state)
                   ELSE IF Restarted(Poll(f)) THEN ClearedBaseline(state)
                   ELSE Extended(state, Poll(f)))
        /\ state' = [next EXCEPT !.health = health, !.tables = f.gen,
                                 !.lastError = (latencyFails \/ f.counters = Failed),
                                 !.lastSuccessAt = f.t, !.ticked = TRUE]
        /\ prevRaw' = Poll(f)
        /\ sound' = (f.counters.st = "ok" /\ Cardinality(InFlight(generation)) = 1
                     /\ (sound \/ next.samples = <<>>))
  BY <1>1 DEF Commit
<1>4. DOMAIN state = StateFields
  BY DEF StoreTypes, StateTypes
<1>5. /\ DOMAIN next = StateFields /\ next.mode = state.mode
      /\ \/ prevRaw = None /\ next.samples = state.samples
         \/ prevRaw # None /\ next.samples = <<>>
         \/ /\ prevRaw \in AnyPoll /\ ~Restarted(Poll(f)) /\ SampleOf(Poll(f)) \in AnySample
            /\ next.samples = Pushed(state.samples, SampleOf(Poll(f)))
  <2>1. CASE prevRaw = None
    BY <1>3, <1>4, <2>1 DEF NoBaseline
  <2>2. CASE prevRaw # None /\ Restarted(Poll(f))
    BY <1>3, <1>4, <2>2 DEF ClearedBaseline, StateFields
  <2>3. CASE prevRaw # None /\ ~Restarted(Poll(f))
    <3>1. prevRaw \in AnyPoll /\ SampleOf(Poll(f)) \in AnySample
      BY <1>2, <2>3, SampleIsSample DEF StoreTypes, PollTypes
    <3>2. next = Extended(state, Poll(f))
      BY <1>3, <2>3
    <3>3. /\ DOMAIN next = StateFields /\ next.mode = state.mode
          /\ next.samples = Pushed(state.samples, SampleOf(Poll(f)))
      BY <1>4, <3>2 DEF Extended, StateFields
    <3> QED  BY <2>3, <3>1, <3>3
  <2> QED  BY <2>1, <2>2, <2>3
<1>6. /\ DOMAIN state' = StateFields /\ state'.mode = next.mode
      /\ state'.samples = next.samples /\ state'.health = health /\ state'.tables = f.gen
      /\ state'.lastError = (latencyFails \/ f.counters = Failed)
      /\ state'.lastSuccessAt = f.t /\ state'.ticked = TRUE
  BY <1>3, <1>5, PolledFields
<1> QED  BY <1>1, <1>2, <1>3, <1>5, <1>6

----------------------------------------------------------------------------
(* What a step does to the kinds of what is kept *)

AllOf(samples, g) == \A i \in DOMAIN samples : samples[i].gen = g

LEMMA StartedFields ==
  ASSUME NEW mode \in Modes, NEW g \in Nat, now \in Nat, NEW n, n = Started(mode, g)
  PROVE  /\ DOMAIN n = StateFields /\ n.mode = mode
         /\ n.samples \in Seq(AnySample) /\ n.lastSuccessAt \in Nat \cup {None}
         /\ n.lastError = FALSE /\ n.ticked = FALSE /\ n.tables = None
         /\ mode = "mock" => n.samples # <<>>
         /\ mode = "live" => n.samples = <<>>
         /\ AllOf(n.samples, g)
<1>1. DOMAIN Empty(mode) = StateFields
  BY DEF Empty, StateFields
<1>2. CASE mode = "live"
  <2>1. Started(mode, g) = Empty(mode)
    BY <1>2 DEF Started
  <2>2. <<>> \in Seq(AnySample) /\ AllOf(<<>>, g)
    BY DEF AllOf
  <2>3. /\ Started(mode, g).mode = mode /\ Started(mode, g).samples = <<>>
        /\ Started(mode, g).lastSuccessAt = None /\ Started(mode, g).tables = None
        /\ Started(mode, g).lastError = FALSE /\ Started(mode, g).ticked = FALSE
    BY <2>1 DEF Empty
  <2> QED  BY <1>1, <1>2, <2>1, <2>2, <2>3
<1>3. CASE mode = "mock"
  <2>1. PICK s : s = [t |-> now, since |-> now, calls |-> [p \in Procs |-> 1],
                      vanished |-> {}, gen |-> g, counters |-> Zero]
    OBVIOUS
  <2>2. s \in AnySample /\ s.gen = g
    BY <2>1 DEF AnySample, AllValues, Zero
  <2>3. Started(mode, g) = [Empty(mode) EXCEPT !.samples = <<s>>, !.lastSuccessAt = now,
                                               !.health = "up"]
    BY <1>3, <2>1 DEF Started
  <2>4. /\ DOMAIN Started(mode, g) = StateFields /\ Started(mode, g).mode = mode
        /\ Started(mode, g).samples = <<s>> /\ Started(mode, g).lastSuccessAt = now
        /\ Started(mode, g).lastError = FALSE /\ Started(mode, g).ticked = FALSE
        /\ Started(mode, g).tables = None
    BY <2>3 DEF Empty, StateFields
  <2>5. <<s>> \in Seq(AnySample) /\ <<s>> # <<>> /\ AllOf(<<s>>, g)
    BY <2>2 DEF AllOf
  <2> QED  BY <1>3, <2>4, <2>5
<1> QED  BY <1>2, <1>3 DEF Modes

(* A timeout is set among others.                                           *)
LEMMA TimerIsSet ==
  ASSUME StoreTypes, NEW pending \in SUBSET timeouts, NEW g \in Nat, NEW delay \in Nat,
         SetTimer(pending, g, delay)
  PROVE  /\ timeouts' \subseteq AnyTimeout /\ IsFiniteSet(timeouts')
         /\ \E x \in AnyTimeout :
              /\ x.id = timer' /\ x.gen = g /\ x \notin pending /\ timeouts' = pending \cup {x}
<1>1. IsFiniteSet(pending) /\ pending \subseteq AnyTimeout /\ now \in Nat
  BY FS_Subset DEF StoreTypes, PollTypes, ClockTypes
<1>2. FreeId(pending) \in Nat /\ \A x \in pending : x.id # FreeId(pending)
  BY <1>1, FreeIdIsFree
<1>3. PICK x : x = [id |-> FreeId(pending), gen |-> g, due |-> now + delay]
  OBVIOUS
<1>4. x \in AnyTimeout /\ x.id = FreeId(pending) /\ x.gen = g
  BY <1>1, <1>2, <1>3 DEF AnyTimeout
<1>5. timeouts' = pending \cup {x} /\ timer' = FreeId(pending)
  BY <1>3 DEF SetTimer
<1>6. IsFiniteSet(timeouts')
  BY <1>1, <1>5, FS_AddElement
<1> QED  BY <1>1, <1>2, <1>4, <1>5, <1>6

LEMMA InitStoreTypes == Init => StoreTypes
<1> SUFFICES ASSUME Init PROVE StoreTypes
  OBVIOUS
<1>1. PICK mode \in Modes, ms \in Polls :
        /\ now = 0 /\ pollMs = ms /\ generation = 1 /\ returns = 0 /\ state = Started(mode, 1)
        /\ timeouts = {[id |-> 1, gen |-> 1, due |-> FirstDelay(mode, ms)]}
        /\ prevRaw = None /\ flights = {} /\ cluster = Fresh
  BY DEF Init
<1>2. ClockTypes
  BY <1>1, TelemetryAssumption DEF ClockTypes
<1>3. StateTypes
  <2>1. /\ DOMAIN state = StateFields /\ state.mode = mode
        /\ state.samples \in Seq(AnySample) /\ state.lastSuccessAt \in Nat \cup {None}
        /\ state.lastError = FALSE /\ state.ticked = FALSE
        /\ mode = "mock" => state.samples # <<>>
    BY <1>1, StartedFields DEF Modes
  <2> QED  BY <2>1 DEF StateTypes
<1>4. FirstDelay(mode, ms) \in Nat
  BY TelemetryAssumption DEF FirstDelay
<1>5. timeouts \subseteq AnyTimeout /\ flights \subseteq AnyFlight
  BY <1>1, <1>4 DEF AnyTimeout
<1>6. IsFiniteSet(timeouts) /\ IsFiniteSet(flights)
  BY <1>1, FS_Singleton, FS_EmptySet
<1>7. cluster \in [inv : [Procs -> Nat], counters : AllValues]
  BY <1>1 DEF Fresh, Zero, AllValues
<1> QED  BY <1>1, <1>2, <1>3, <1>5, <1>6, <1>7 DEF StoreTypes, PollTypes

(* The clock, the interval and the number of the provider.                  *)
LEMMA StepClockTypes ==
  ASSUME StoreTypes, [Next]_vars
  PROVE  ClockTypes'
<1> USE DEF StoreTypes, ClockTypes
<1>1. CASE UNCHANGED <<now, pollMs, generation, returns>>
  BY <1>1
<1>2. ASSUME NEW mode \in Modes, Switch(mode) PROVE ClockTypes'
  BY <1>2 DEF Switch
<1>3. ASSUME NEW ms \in Polls, SetPollInterval(ms) PROVE ClockTypes'
  BY <1>3, TelemetryAssumption DEF SetPollInterval
<1>4. CASE Show
  BY <1>4 DEF Show
<1>5. CASE Advance
  BY <1>5 DEF Advance, poller, history
<1>6. CASE Hide \/ RestartCluster
  BY <1>1, <1>6 DEF Hide, RestartCluster, poller
<1>7. ASSUME NEW x \in timeouts, Fire(x) PROVE ClockTypes'
  BY <1>1, <1>7 DEF Fire, Drop, TickPaused, TickMock, TickLive, poller, history
<1>8. ASSUME NEW f \in flights, ServeStats(f) \/ ServeCounters(f) \/ RequestFails(f) \/ EndStale(f)
      PROVE  ClockTypes'
  BY <1>1, <1>8 DEF ServeStats, ServeCounters, RequestFails, Answered, EndStale, poller, history
<1>9. ASSUME NEW f \in flights, NEW report \in Reports, EndTick(f, report[1], report[2])
      PROVE  ClockTypes'
  BY <1>1, <1>9 DEF EndTick
<1>10. ASSUME NEW p \in Procs, CallProcedure(p) PROVE ClockTypes'
  BY <1>1, <1>10 DEF CallProcedure, poller, history
<1>11. ASSUME NEW c \in Counters, Reject(c) PROVE ClockTypes'
  BY <1>1, <1>11 DEF Reject, poller, history
<1>12. CASE UNCHANGED vars
  BY <1>1, <1>12 DEF vars, poller, history
<1> QED
  BY <1>2, <1>3, <1>4, <1>5, <1>6, <1>7, <1>8, <1>9, <1>10, <1>11, <1>12 DEF Next

(* A tick of the mock provider.                                             *)
LEMMA MockIsSample ==
  ASSUME StoreTypes, state.mode = "mock"
  PROVE  LET s == MockSample(Last(state.samples))
         IN  s \in AnySample /\ s.gen = generation
<1>1. PICK prev \in AnySample : prev = Last(state.samples)
  BY LastOfSamples DEF StoreTypes, StateTypes
<1>2. /\ prev.t \in Nat /\ prev.counters \in AllValues
      /\ now \in Nat /\ generation \in Nat /\ MaxCount \in Nat
  BY TelemetryAssumption DEF AnySample, StoreTypes, ClockTypes
<1>3. [c \in Counters |-> IF prev.counters[c] < MaxCount THEN prev.counters[c] + 1
                          ELSE MaxCount] \in AllValues
  BY <1>2 DEF AllValues
<1>4. [p \in Procs |-> 1] \in [Procs -> Int]
  OBVIOUS
<1> QED  BY <1>1, <1>2, <1>3, <1>4 DEF MockSample, AnySample

LEMMA MockFacts ==
  ASSUME StoreTypes, NEW x \in timeouts, TickMock(x)
  PROVE  /\ DOMAIN state' = StateFields /\ state'.mode = "mock"
         /\ state'.tables = state.tables /\ state'.lastError = state.lastError
         /\ state'.lastSuccessAt = now /\ state'.ticked = TRUE
         /\ state.samples \in Seq(AnySample)
         /\ \E s \in AnySample : /\ s.gen = generation
                                 /\ state'.samples = Pushed(state.samples, s)
<1>1. /\ DOMAIN state = StateFields /\ state.mode = "mock" /\ state.samples \in Seq(AnySample)
  BY DEF TickMock, StoreTypes, StateTypes
<1>2. PICK s : s = MockSample(Last(state.samples))
  OBVIOUS
<1>3. s \in AnySample /\ s.gen = generation
  BY <1>1, <1>2, MockIsSample
<1>4. state' = [state EXCEPT !.samples = Pushed(@, s),
                             !.events = EventsFrom(state.samples, s, @),
                             !.lastSuccessAt = now, !.ticked = TRUE]
  BY <1>2 DEF TickMock
<1> QED  BY <1>1, <1>3, <1>4 DEF StateFields

LEMMA StepStateTypes ==
  ASSUME StoreTypes, ProviderInv, [Next]_vars
  PROVE  StateTypes'
<1>1. ASSUME state' = state PROVE StateTypes'
  BY <1>1 DEF StoreTypes, StateTypes
<1>2. ASSUME NEW mode \in Modes, Switch(mode) PROVE StateTypes'
  <2>1. PICK g \in Nat : now \in Nat /\ state' = Started(mode, g)
    BY <1>2 DEF Switch, StoreTypes, ClockTypes
  <2>2. /\ DOMAIN state' = StateFields /\ state'.mode = mode
        /\ state'.samples \in Seq(AnySample) /\ state'.lastSuccessAt \in Nat \cup {None}
        /\ state'.lastError = FALSE /\ state'.ticked = FALSE
        /\ mode = "mock" => state'.samples # <<>>
    BY <2>1, StartedFields DEF Modes
  <2> QED  BY <2>2 DEF StateTypes
<1>3. ASSUME NEW value, state' = [state EXCEPT !.paused = value] PROVE StateTypes'
  BY <1>3 DEF StoreTypes, StateTypes, StateFields
<1>4. CASE Hide \/ Show
  BY <1>3, <1>4 DEF Hide, Show
<1>5. ASSUME NEW x \in timeouts, TickMock(x) PROVE StateTypes'
  <2>1. PICK s \in AnySample : state'.samples = Pushed(state.samples, s)
    BY <1>5, MockFacts
  <2>2. /\ DOMAIN state' = StateFields /\ state'.mode = "mock" /\ state.samples \in Seq(AnySample)
        /\ state'.lastError = state.lastError /\ state'.lastSuccessAt = now /\ state'.ticked = TRUE
    BY <1>5, MockFacts
  <2>3. state'.samples \in Seq(AnySample) /\ state'.samples # <<>>
    BY <2>1, <2>2, PushedFacts
  <2> QED  BY <2>2, <2>3 DEF StoreTypes, StateTypes, ClockTypes, Modes
<1>6. ASSUME NEW x \in timeouts, Fire(x) PROVE StateTypes'
  BY <1>1, <1>5, <1>6 DEF Fire, Drop, TickPaused, TickLive, poller
<1>7. ASSUME NEW f \in flights, ServeStats(f) \/ ServeCounters(f) \/ RequestFails(f) \/ EndStale(f)
      PROVE  StateTypes'
  BY <1>1, <1>7 DEF ServeStats, ServeCounters, RequestFails, Answered, EndStale, poller
<1>8. ASSUME NEW f \in flights, NEW health, NEW latencyFails \in BOOLEAN,
             EndTick(f, health, latencyFails)
      PROVE  StateTypes'
  <2> state.mode = "live"
    BY <1>8 DEF EndTick, IsStale, ProviderInv
  <2>1. CASE f.stats = Failed
    <3>1. state' = [state EXCEPT !.health = health, !.lastError = TRUE, !.ticked = TRUE]
      BY <1>8, <2>1 DEF EndTick, NoStatistics
    <3> QED  BY <3>1 DEF StoreTypes, StateTypes, StateFields
  <2>2. CASE f.stats # Failed
    <3>1. /\ DOMAIN state' = StateFields /\ state'.mode = "live"
          /\ state'.lastError \in BOOLEAN /\ state'.ticked = TRUE /\ state'.lastSuccessAt = f.t
          /\ \/ state'.samples \in {state.samples, <<>>}
             \/ \E s \in AnySample : state'.samples = Pushed(state.samples, s)
      BY <1>8, <2>2, CommitFacts
    <3>2. f.t \in Nat
      BY DEF StoreTypes, PollTypes, AnyFlight
    <3>3. state.samples \in Seq(AnySample) /\ <<>> \in Seq(AnySample)
      BY DEF StoreTypes, StateTypes
    <3>4. \A s \in AnySample : Pushed(state.samples, s) \in Seq(AnySample)
      BY <3>3, PushedFacts
    <3>5. state'.samples \in Seq(AnySample)
      BY <3>1, <3>3, <3>4
    <3> QED  BY <3>1, <3>2, <3>5 DEF StateTypes, Modes
  <2> QED  BY <2>1, <2>2
<1>9. ASSUME NEW f \in flights, NEW report \in Reports, EndTick(f, report[1], report[2])
      PROVE  StateTypes'
  BY <1>8, <1>9, ReportsAreBoolean
<1>10. CASE \/ \E ms \in Polls : SetPollInterval(ms)
            \/ \E p \in Procs : CallProcedure(p)
            \/ \E c \in Counters : Reject(c)
            \/ RestartCluster \/ Advance \/ UNCHANGED vars
  BY <1>1, <1>10 DEF SetPollInterval, CallProcedure, Reject, RestartCluster, Advance, vars, poller
<1> QED
  BY <1>2, <1>4, <1>6, <1>7, <1>9, <1>10 DEF Next

(* An answer to a request is of the kind that the tick awaits.              *)
LEMMA AnsweredTypes ==
  ASSUME StoreTypes, NEW f \in flights,
         ServeStats(f) \/ ServeCounters(f) \/ RequestFails(f)
  PROVE  \E g \in AnyFlight :
           /\ Answered(f, g) /\ g.gen = f.gen
           /\ g.counters = f.counters \/ g.counters = Failed
              \/ (g.counters.st = "ok" /\ g.counters.val = cluster.counters)
<1>1. f \in AnyFlight /\ cluster \in [inv : [Procs -> Nat], counters : AllValues]
  BY DEF StoreTypes, PollTypes
<1>2. CASE ServeStats(f)
  <2>1. PICK inv : inv = [p \in {p \in Procs : cluster.inv[p] > 0} |-> cluster.inv[p]]
    OBVIOUS
  <2>2. inv \in AllCalls
    BY <1>1, <2>1 DEF AllCalls
  <2>3. PICK g : g = [f EXCEPT !.stats = [st |-> "ok", inv |-> inv]]
    OBVIOUS
  <2>4. g \in AnyFlight /\ g.gen = f.gen /\ g.counters = f.counters
    BY <1>1, <2>2, <2>3 DEF AnyFlight
  <2>5. Answered(f, g)
    BY <1>2, <2>1, <2>3 DEF ServeStats
  <2> QED  BY <2>4, <2>5
<1>3. CASE ServeCounters(f)
  <2>1. PICK g : g = [f EXCEPT !.counters = [st |-> "ok", val |-> cluster.counters]]
    OBVIOUS
  <2>2. /\ g \in AnyFlight /\ g.gen = f.gen
        /\ g.counters.st = "ok" /\ g.counters.val = cluster.counters
    BY <1>1, <2>1 DEF AnyFlight
  <2>3. Answered(f, g)
    BY <1>3, <2>1 DEF ServeCounters
  <2> QED  BY <2>2, <2>3
<1>4. CASE RequestFails(f)
  <2>1. PICK g, h : g = [f EXCEPT !.stats = Failed] /\ h = [f EXCEPT !.counters = Failed]
    OBVIOUS
  <2>2. /\ g \in AnyFlight /\ g.gen = f.gen /\ g.counters = f.counters
        /\ h \in AnyFlight /\ h.gen = f.gen /\ h.counters = Failed
    BY <1>1, <2>1 DEF AnyFlight
  <2>3. Answered(f, g) \/ Answered(f, h)
    BY <1>4, <2>1 DEF RequestFails
  <2> QED  BY <2>2, <2>3
<1> QED  BY <1>2, <1>3, <1>4

(* A tick that is sent has an id of its own.                                *)
LEMMA TickFacts ==
  ASSUME StoreTypes, NEW x \in timeouts, TickLive(x)
  PROVE  \E f \in AnyFlight :
           /\ flights' = flights \cup {f} /\ f \notin flights /\ f.gen = generation
           /\ f.counters = Waiting
<1>1. PICK f : f = [id |-> FreeId(flights), gen |-> x.gen, t |-> now,
                    stats |-> Waiting, counters |-> Waiting]
  OBVIOUS
<1>2. FreeId(flights) \in Nat /\ \A g \in flights : g.id # FreeId(flights)
  BY FreeIdIsFree DEF StoreTypes, PollTypes
<1>3. now \in Nat /\ generation \in Nat /\ x.gen = generation
  BY DEF TickLive, StoreTypes, ClockTypes
<1>4. f \in AnyFlight /\ f.gen = generation /\ f.counters = Waiting
  BY <1>1, <1>2, <1>3 DEF AnyFlight
<1>5. f \notin flights
  BY <1>1, <1>2
<1>6. flights' = flights \cup {f}
  BY <1>1 DEF TickLive
<1> QED  BY <1>4, <1>5, <1>6

(* Every timeout that is set: among which others, and of which generation.  *)
LEMMA WhoSetsTimers ==
  ASSUME StoreTypes,
         \/ \E mode \in Modes : Switch(mode)
         \/ Show
         \/ \E x \in timeouts : TickPaused(x) \/ TickMock(x)
         \/ \E f \in flights, report \in Reports : EndTick(f, report[1], report[2])
  PROVE  \E pending \in SUBSET timeouts, g \in Nat, delay \in Nat :
           SetTimer(pending, g, delay) /\ g = generation'
<1> USE DEF StoreTypes, ClockTypes
<1>1. Cleared(timeouts) \subseteq timeouts
  BY DEF Cleared
<1>2. ASSUME NEW mode \in Modes, Switch(mode)
      PROVE  \E pending \in SUBSET timeouts, g \in Nat, delay \in Nat :
               SetTimer(pending, g, delay) /\ g = generation'
  <2>1. FirstDelay(mode, pollMs) \in Nat /\ generation + 1 \in Nat
    BY TelemetryAssumption DEF FirstDelay
  <2>2. generation' = generation + 1
        /\ SetTimer(Cleared(timeouts), generation + 1, FirstDelay(mode, pollMs))
    BY <1>2 DEF Switch
  <2> QED  BY <1>1, <2>1, <2>2
<1>3. CASE Show
  BY <1>1, <1>3, TelemetryAssumption DEF Show
<1>4. ASSUME NEW x \in timeouts, TickPaused(x) \/ TickMock(x)
      PROVE  \E pending \in SUBSET timeouts, g \in Nat, delay \in Nat :
               SetTimer(pending, g, delay) /\ g = generation'
  <2>1. /\ SetTimer(timeouts \ {x}, generation, pollMs) /\ generation' = generation
    BY <1>4 DEF TickPaused, TickMock, poller
  <2> QED  BY <2>1
<1>5. ASSUME NEW f \in flights, NEW report \in Reports, EndTick(f, report[1], report[2])
      PROVE  \E pending \in SUBSET timeouts, g \in Nat, delay \in Nat :
               SetTimer(pending, g, delay) /\ g = generation'
  <2>1. SetTimer(timeouts, generation, pollMs) /\ generation' = generation
    BY <1>5 DEF EndTick, Continue, IsStale
  <2> QED  BY <2>1
<1> QED  BY <1>2, <1>3, <1>4, <1>5

(* The timeouts that are pending, and the ticks in flight.                  *)
TimerTypes  == timeouts \subseteq AnyTimeout /\ IsFiniteSet(timeouts)
FlightTypes == flights \subseteq AnyFlight /\ IsFiniteSet(flights)

LEMMA StepTimerTypes ==
  ASSUME StoreTypes, [Next]_vars
  PROVE  TimerTypes'
<1>1. ASSUME timeouts' = timeouts PROVE TimerTypes'
  BY <1>1 DEF StoreTypes, PollTypes, TimerTypes
<1>2. CASE \/ \E mode \in Modes : Switch(mode)
           \/ Show
           \/ \E x \in timeouts : TickPaused(x) \/ TickMock(x)
           \/ \E f \in flights, report \in Reports : EndTick(f, report[1], report[2])
  BY <1>2, WhoSetsTimers, TimerIsSet DEF TimerTypes
<1>3. ASSUME NEW x \in timeouts, Drop(x) \/ TickLive(x) PROVE TimerTypes'
  <2>1. timeouts' = timeouts \ {x}
    BY <1>3 DEF Drop, TickLive
  <2> QED  BY <2>1, FS_Subset DEF StoreTypes, PollTypes, TimerTypes
<1>4. ASSUME NEW f \in flights, ServeStats(f) \/ ServeCounters(f) \/ RequestFails(f) \/ EndStale(f)
      PROVE  TimerTypes'
  BY <1>1, <1>4 DEF ServeStats, ServeCounters, RequestFails, Answered, EndStale
<1>5. CASE \/ \E ms \in Polls : SetPollInterval(ms)
           \/ \E p \in Procs : CallProcedure(p)
           \/ \E c \in Counters : Reject(c)
           \/ Hide \/ RestartCluster \/ Advance \/ UNCHANGED vars
  BY <1>1, <1>5 DEF SetPollInterval, CallProcedure, Reject, Hide, RestartCluster, Advance, vars
<1> QED  BY <1>2, <1>3, <1>4, <1>5 DEF Next, Fire

LEMMA StepFlightTypes ==
  ASSUME StoreTypes, [Next]_vars
  PROVE  FlightTypes'
<1> FlightTypes
  BY DEF StoreTypes, PollTypes, FlightTypes
<1>1. ASSUME flights' = flights PROVE FlightTypes'
  BY <1>1 DEF FlightTypes
<1>2. ASSUME NEW x \in timeouts, TickLive(x) PROVE FlightTypes'
  BY <1>2, TickFacts, FS_AddElement DEF FlightTypes
<1>3. ASSUME NEW f \in flights, ServeStats(f) \/ ServeCounters(f) \/ RequestFails(f)
      PROVE  FlightTypes'
  <2>1. PICK g \in AnyFlight : flights' = (flights \ {f}) \cup {g}
    BY <1>3, AnsweredTypes DEF Answered
  <2>2. IsFiniteSet(flights \ {f})
    BY FS_Subset DEF FlightTypes
  <2> QED  BY <2>1, <2>2, FS_AddElement DEF FlightTypes
<1>4. ASSUME NEW f \in flights, flights' = flights \ {f} PROVE FlightTypes'
  BY <1>4, FS_Subset DEF FlightTypes
<1>5. ASSUME NEW f \in flights, EndStale(f) PROVE FlightTypes'
  BY <1>4, <1>5 DEF EndStale
<1>6. ASSUME NEW f \in flights, NEW report \in Reports, EndTick(f, report[1], report[2])
      PROVE  FlightTypes'
  BY <1>4, <1>6 DEF EndTick
<1>7. ASSUME NEW x \in timeouts, Fire(x) PROVE FlightTypes'
  BY <1>1, <1>2, <1>7 DEF Fire, Drop, TickPaused, TickMock
<1>8. CASE \/ \E mode \in Modes : Switch(mode)
           \/ \E ms \in Polls : SetPollInterval(ms)
           \/ \E p \in Procs : CallProcedure(p)
           \/ \E c \in Counters : Reject(c)
           \/ Hide \/ Show \/ RestartCluster \/ Advance \/ UNCHANGED vars
  BY <1>1, <1>8
     DEF Switch, SetPollInterval, CallProcedure, Reject, Hide, Show, RestartCluster, Advance, vars
<1> QED  BY <1>3, <1>5, <1>6, <1>7, <1>8 DEF Next

LEMMA StepPollTypes ==
  ASSUME StoreTypes, [Next]_vars
  PROVE  PollTypes'
<1> DEFINE Raws     == AnyPoll \cup {None}
           Clusters == [inv : [Procs -> Nat], counters : AllValues]
<1>1. TimerTypes' /\ FlightTypes'
  BY StepTimerTypes, StepFlightTypes
<1>2. prevRaw \in Raws /\ cluster \in Clusters
  BY DEF StoreTypes, PollTypes
<1>3. prevRaw' \in Raws
  <2>1. ASSUME NEW f \in flights, NEW health, NEW latencyFails \in BOOLEAN,
               EndTick(f, health, latencyFails)
        PROVE  prevRaw' \in Raws
    <3>1. CASE f.stats = Failed
      BY <2>1, <3>1 DEF EndTick, NoStatistics
    <3>2. CASE f.stats # Failed
      BY <2>1, <3>2, CommitFacts
    <3> QED  BY <3>1, <3>2
  <2>2. ASSUME NEW f \in flights, NEW report \in Reports, EndTick(f, report[1], report[2])
        PROVE  prevRaw' \in Raws
    BY <2>1, <2>2, ReportsAreBoolean
  <2>3. ASSUME NEW mode \in Modes, Switch(mode) PROVE prevRaw' \in Raws
    BY <2>3 DEF Switch
  <2>4. ASSUME prevRaw' = prevRaw PROVE prevRaw' \in Raws
    BY <1>2, <2>4
  <2>5. ASSUME NEW x \in timeouts, Fire(x) PROVE prevRaw' \in Raws
    BY <2>4, <2>5 DEF Fire, Drop, TickPaused, TickMock, TickLive, poller
  <2>6. ASSUME NEW f \in flights, ServeStats(f) \/ ServeCounters(f) \/ RequestFails(f) \/ EndStale(f)
        PROVE  prevRaw' \in Raws
    BY <2>4, <2>6 DEF ServeStats, ServeCounters, RequestFails, Answered, EndStale, poller
  <2>7. CASE \/ \E ms \in Polls : SetPollInterval(ms)
             \/ \E p \in Procs : CallProcedure(p)
             \/ \E c \in Counters : Reject(c)
             \/ Hide \/ Show \/ RestartCluster \/ Advance \/ UNCHANGED vars
    <3> HIDE DEF Raws
    <3> QED
      BY <2>4, <2>7 DEF SetPollInterval, CallProcedure, Reject, Hide, Show, RestartCluster,
                        Advance, vars, poller
  <2> HIDE DEF Raws
  <2> QED  BY <2>2, <2>3, <2>5, <2>6, <2>7 DEF Next
<1>4. cluster' \in Clusters
  <2>1. ASSUME cluster' = cluster PROVE cluster' \in Clusters
    BY <1>2, <2>1
  <2>2. ASSUME NEW p \in Procs, CallProcedure(p) PROVE cluster' \in Clusters
    BY <1>2, <2>2 DEF CallProcedure
  <2>3. ASSUME NEW c \in Counters, Reject(c) PROVE cluster' \in Clusters
    BY <1>2, <2>3 DEF Reject, AllValues
  <2>4. CASE RestartCluster
    <3>1. PICK c \in {Zero, cluster.counters} :
            cluster' = [inv |-> [p \in Procs |-> 0], counters |-> c]
      BY <2>4 DEF RestartCluster
    <3>2. c \in AllValues
      BY <1>2 DEF Zero, AllValues
    <3> QED  BY <3>1, <3>2
  <2>5. ASSUME NEW x \in timeouts, Fire(x) PROVE cluster' \in Clusters
    BY <2>1, <2>5 DEF Fire, Drop, TickPaused, TickMock, TickLive
  <2>6. ASSUME NEW f \in flights,
               \/ ServeStats(f) \/ ServeCounters(f) \/ RequestFails(f) \/ EndStale(f)
               \/ \E report \in Reports : EndTick(f, report[1], report[2])
        PROVE  cluster' \in Clusters
    BY <2>1, <2>6 DEF ServeStats, ServeCounters, RequestFails, Answered, EndStale, EndTick
  <2>7. CASE \/ \E mode \in Modes : Switch(mode)
             \/ \E ms \in Polls : SetPollInterval(ms)
             \/ Hide \/ Show \/ Advance \/ UNCHANGED vars
    <3> HIDE DEF Clusters
    <3> QED  BY <2>1, <2>7 DEF Switch, SetPollInterval, Hide, Show, Advance, vars
  <2> HIDE DEF Clusters
  <2> QED  BY <2>2, <2>3, <2>4, <2>5, <2>6, <2>7 DEF Next
<1> QED  BY <1>1, <1>3, <1>4 DEF PollTypes, TimerTypes, FlightTypes

LEMMA StepStoreTypes ==
  ASSUME StoreTypes, ProviderInv, [Next]_vars
  PROVE  StoreTypes'
BY StepClockTypes, StepStateTypes, StepPollTypes DEF StoreTypes

----------------------------------------------------------------------------
(* The providers *)

LEMMA InitProvider == Init => ProviderInv
<1> SUFFICES ASSUME Init PROVE ProviderInv
  OBVIOUS
<1>1. PICK mode \in Modes, ms \in Polls :
        /\ now = 0 /\ generation = 1 /\ state = Started(mode, 1) /\ prevRaw = None
        /\ timeouts = {[id |-> 1, gen |-> 1, due |-> FirstDelay(mode, ms)]} /\ flights = {}
  BY DEF Init
<1>2. state.tables = None /\ state.lastError = FALSE
  BY <1>1, StartedFields DEF Modes
<1>3. AllOf(state.samples, 1)
  BY <1>1, StartedFields DEF Modes
<1> QED  BY <1>1, <1>2, <1>3 DEF AllOf, ProviderInv, ProvidersNeverMix

(* What is awaited or pending is of the generation in use or before it.     *)
Ages ==
  /\ \A x \in timeouts : x.gen <= generation
  /\ \A f \in flights : f.gen <= generation
  /\ \A f \in flights : f.gen = generation => state.mode = "live"

LEMMA StepAges ==
  ASSUME StoreTypes, ProviderInv, [Next]_vars
  PROVE  Ages'
<1>1. Ages /\ generation \in Nat
  BY DEF ProviderInv, Ages, StoreTypes, ClockTypes
<1>2. timeouts \subseteq AnyTimeout /\ flights \subseteq AnyFlight
  BY DEF StoreTypes, PollTypes
<1>3. ASSUME NEW pending \in SUBSET timeouts, NEW g \in Nat, NEW delay \in Nat,
             SetTimer(pending, g, delay), g = generation', generation <= generation'
      PROVE  \A x \in timeouts' : x.gen <= generation'
  <2>1. PICK x \in AnyTimeout : x.gen = g /\ timeouts' = pending \cup {x}
    BY <1>3, TimerIsSet
  <2>2. \A y \in pending : y.gen <= generation /\ y.gen \in Nat
    BY <1>1, <1>2 DEF Ages, AnyTimeout
  <2> QED  BY <1>1, <1>3, <2>1, <2>2
<1>4. ASSUME generation' = generation, timeouts' \subseteq timeouts, flights' \subseteq flights,
             state'.mode = state.mode
      PROVE  Ages'
  BY <1>1, <1>4 DEF Ages
<1>5. ASSUME NEW mode \in Modes, Switch(mode) PROVE Ages'
  <2>1. generation' = generation + 1 /\ flights' = flights
    BY <1>5 DEF Switch
  <2>2. \A x \in timeouts' : x.gen <= generation'
    BY <1>1, <1>3, <1>5, <2>1, WhoSetsTimers
  <2>3. \A f \in flights : f.gen <= generation /\ f.gen \in Nat
    BY <1>1, <1>2 DEF Ages, AnyFlight
  <2> QED  BY <1>1, <2>1, <2>2, <2>3 DEF Ages
<1>6. ASSUME NEW value, state' = [state EXCEPT !.paused = value] PROVE state'.mode = state.mode
  BY <1>6 DEF StoreTypes, StateTypes, StateFields
<1>7. CASE Show
  <2>1. generation' = generation /\ flights' = flights /\ state'.mode = state.mode
    BY <1>6, <1>7 DEF Show
  <2>2. \A x \in timeouts' : x.gen <= generation'
    BY <1>1, <1>3, <1>7, <2>1, WhoSetsTimers
  <2> QED  BY <1>1, <2>1, <2>2 DEF Ages
<1>8. ASSUME NEW x \in timeouts, TickPaused(x) \/ TickMock(x) PROVE Ages'
  <2>1. generation' = generation /\ flights' = flights /\ state'.mode = state.mode
    BY <1>8, MockFacts DEF TickPaused, TickMock, poller
  <2>2. \A y \in timeouts' : y.gen <= generation'
    BY <1>1, <1>3, <1>8, <2>1, WhoSetsTimers
  <2> QED  BY <1>1, <2>1, <2>2 DEF Ages
<1>9. ASSUME NEW x \in timeouts, TickLive(x) PROVE Ages'
  <2>1. PICK f \in AnyFlight : flights' = flights \cup {f} /\ f.gen = generation
    BY <1>9, TickFacts
  <2>2. generation' = generation /\ timeouts' \subseteq timeouts /\ state' = state
        /\ state.mode = "live"
    BY <1>9 DEF TickLive, poller
  <2> QED  BY <1>1, <2>1, <2>2 DEF Ages
<1>10. ASSUME NEW x \in timeouts, Fire(x) PROVE Ages'
  BY <1>4, <1>8, <1>9, <1>10 DEF Fire, Drop, poller
<1>11. ASSUME NEW f \in flights, ServeStats(f) \/ ServeCounters(f) \/ RequestFails(f) PROVE Ages'
  <2>1. PICK g \in AnyFlight : Answered(f, g) /\ g.gen = f.gen
    BY <1>11, AnsweredTypes
  <2> QED  BY <1>1, <2>1 DEF Answered, poller, Ages
<1>12. ASSUME NEW f \in flights, EndStale(f) PROVE Ages'
  BY <1>4, <1>12 DEF EndStale, poller
<1>13. ASSUME NEW f \in flights, NEW report \in Reports, EndTick(f, report[1], report[2])
       PROVE  Ages'
  <2>1. generation' = generation /\ flights' = flights \ {f} /\ state'.mode = state.mode
    <3>1. CASE f.stats = Failed
      BY <1>13, <3>1 DEF EndTick, NoStatistics, StoreTypes, StateTypes, StateFields
    <3>2. CASE f.stats # Failed
      BY <1>13, <3>2, CommitFacts, ReportsAreBoolean DEF EndTick
    <3> QED  BY <1>13, <3>1, <3>2 DEF EndTick
  <2>2. \A x \in timeouts' : x.gen <= generation'
    BY <1>1, <1>3, <1>13, <2>1, WhoSetsTimers
  <2> QED  BY <1>1, <2>1, <2>2 DEF Ages
<1>14. CASE \/ \E ms \in Polls : SetPollInterval(ms)
            \/ \E p \in Procs : CallProcedure(p)
            \/ \E c \in Counters : Reject(c)
            \/ Hide \/ RestartCluster \/ Advance \/ UNCHANGED vars
  BY <1>4, <1>6, <1>14 DEF SetPollInterval, CallProcedure, Reject, Hide, RestartCluster, Advance,
                           vars, poller
<1> QED  BY <1>5, <1>7, <1>10, <1>11, <1>12, <1>13, <1>14 DEF Next

(* What the pages read changes at a switch of the provider, at a tick of    *)
(* the mock provider and at the end of a live tick, and nowhere else.       *)
SameStore ==
  /\ generation' = generation /\ prevRaw' = prevRaw
  /\ state'.mode = state.mode /\ state'.samples = state.samples /\ state'.tables = state.tables
  /\ state'.lastError = state.lastError /\ state'.lastSuccessAt = state.lastSuccessAt
  /\ state'.ticked = state.ticked /\ state'.health = state.health

LEMMA StoreMoves ==
  ASSUME StoreTypes, [Next]_vars
  PROVE  \/ SameStore
         \/ \E mode \in Modes : Switch(mode)
         \/ \E x \in timeouts : TickMock(x)
         \/ \E f \in flights, report \in Reports : EndTick(f, report[1], report[2])
<1>1. ASSUME generation' = generation, prevRaw' = prevRaw,
             state' = state \/ \E value : state' = [state EXCEPT !.paused = value]
      PROVE  SameStore
  BY <1>1 DEF SameStore, StoreTypes, StateTypes, StateFields
<1>2. ASSUME NEW x \in timeouts, Drop(x) \/ TickPaused(x) \/ TickLive(x) PROVE SameStore
  BY <1>1, <1>2 DEF Drop, TickPaused, TickLive, poller
<1>3. ASSUME NEW f \in flights, ServeStats(f) \/ ServeCounters(f) \/ RequestFails(f) \/ EndStale(f)
      PROVE  SameStore
  BY <1>1, <1>3 DEF ServeStats, ServeCounters, RequestFails, Answered, EndStale, poller
<1>4. CASE Hide \/ Show
  BY <1>1, <1>4 DEF Hide, Show
<1>5. CASE \/ \E ms \in Polls : SetPollInterval(ms)
           \/ \E p \in Procs : CallProcedure(p)
           \/ \E c \in Counters : Reject(c)
           \/ RestartCluster \/ Advance \/ UNCHANGED vars
  BY <1>1, <1>5 DEF SetPollInterval, CallProcedure, Reject, RestartCluster, Advance, vars, poller
<1> QED  BY <1>2, <1>3, <1>4, <1>5 DEF Next, Fire

(* A switch starts over.                                                    *)
LEMMA SwitchFacts ==
  ASSUME StoreTypes, NEW mode \in Modes, Switch(mode)
  PROVE  /\ generation' = generation + 1 /\ prevRaw' = None /\ flights' = flights
         /\ state'.mode = mode /\ state'.tables = None
         /\ state'.lastError = FALSE /\ state'.ticked = FALSE
         /\ mode = "live" => state'.samples = <<>>
         /\ AllOf(state'.samples, generation + 1)
<1>1. PICK g \in Nat : g = generation + 1 /\ now \in Nat /\ state' = Started(mode, g)
  BY DEF Switch, StoreTypes, ClockTypes
<1>2. generation' = g /\ prevRaw' = None /\ flights' = flights
  BY <1>1 DEF Switch
<1>3. /\ state'.mode = mode /\ state'.tables = None
      /\ state'.lastError = FALSE /\ state'.ticked = FALSE
      /\ mode = "live" => state'.samples = <<>>
  BY <1>1, StartedFields DEF Modes
<1>4. AllOf(state'.samples, g)
  BY <1>1, StartedFields DEF Modes
<1> QED  BY <1>1, <1>2, <1>3, <1>4

(* A poll whose statistics failed.                                          *)
LEMMA FailureFacts ==
  ASSUME StoreTypes, NEW f \in flights, NEW health, NEW latencyFails,
         EndTick(f, health, latencyFails), f.stats = Failed
  PROVE  /\ generation' = generation /\ prevRaw' = None /\ sound' = sound
         /\ state'.mode = state.mode /\ state'.samples = state.samples
         /\ state'.tables = state.tables /\ state'.lastSuccessAt = state.lastSuccessAt
         /\ state'.lastError = TRUE /\ state'.ticked = TRUE /\ state'.health = health
BY DEF EndTick, NoStatistics, StoreTypes, StateTypes, StateFields

LEMMA StepProviders ==
  ASSUME StoreTypes, ProviderInv, [Next]_vars
  PROVE  ProvidersNeverMix'
<1> ProvidersNeverMix /\ state.samples \in Seq(AnySample)
  BY DEF ProviderInv, StoreTypes, StateTypes
<1>1. CASE SameStore
  BY <1>1 DEF SameStore, ProvidersNeverMix
<1>2. ASSUME NEW mode \in Modes, Switch(mode) PROVE ProvidersNeverMix'
  BY <1>2, SwitchFacts DEF AllOf, ProvidersNeverMix
<1>3. ASSUME NEW s \in AnySample, s.gen = generation,
             state'.samples = Pushed(state.samples, s)
      PROVE  \A i \in DOMAIN state'.samples : state'.samples[i].gen = generation
  <2> SUFFICES ASSUME NEW i \in DOMAIN Pushed(state.samples, s)
               PROVE  Pushed(state.samples, s)[i].gen = generation
    BY <1>3
  <2>1. Pushed(state.samples, s)[i] = s
        \/ \E j \in DOMAIN state.samples : Pushed(state.samples, s)[i] = state.samples[j]
    BY PushedKeeps
  <2> QED  BY <1>3, <2>1 DEF ProvidersNeverMix
<1>4. ASSUME NEW x \in timeouts, TickMock(x) PROVE ProvidersNeverMix'
  <2>1. /\ state.mode = "mock" /\ state'.mode = "mock" /\ state'.tables = state.tables
        /\ state'.lastError = state.lastError /\ generation' = generation /\ prevRaw' = prevRaw
    BY <1>4, MockFacts DEF TickMock
  <2>2. \A i \in DOMAIN state'.samples : state'.samples[i].gen = generation
    BY <1>3, <1>4, MockFacts
  <2> QED  BY <2>1, <2>2 DEF ProvidersNeverMix
<1>5. ASSUME NEW f \in flights, NEW report \in Reports, EndTick(f, report[1], report[2])
      PROVE  ProvidersNeverMix'
  <2>1. f.gen = generation /\ state.mode = "live" /\ generation' = generation
    BY <1>5 DEF EndTick, IsStale, ProviderInv
  <2>2. CASE f.stats = Failed
    BY <1>5, <2>1, <2>2, FailureFacts DEF ProvidersNeverMix
  <2>3. CASE f.stats # Failed
    <3>1. /\ Poll(f) \in AnyPoll /\ prevRaw' = Poll(f)
          /\ state'.mode = state.mode /\ state'.tables = f.gen
          /\ \/ state'.samples \in {state.samples, <<>>}
             \/ /\ SampleOf(Poll(f)) \in AnySample
                /\ state'.samples = Pushed(state.samples, SampleOf(Poll(f)))
      BY <1>5, <2>3, CommitFacts, ReportsAreBoolean
    <3>2. Poll(f).gen = generation /\ SampleOf(Poll(f)).gen = generation
      BY <2>1 DEF Poll, SampleOf
    <3>3. \A i \in DOMAIN state'.samples : state'.samples[i].gen = generation
      <4>1. CASE state'.samples = state.samples
        BY <4>1 DEF ProvidersNeverMix
      <4>2. CASE state'.samples = <<>>
        BY <4>2
      <4> QED  BY <1>3, <3>1, <3>2, <4>1, <4>2
    <3> QED  BY <2>1, <3>1, <3>2, <3>3 DEF ProvidersNeverMix
  <2> QED  BY <2>2, <2>3
<1> QED  BY <1>1, <1>2, <1>4, <1>5, StoreMoves

LEMMA StepProvider ==
  ASSUME StoreTypes, ProviderInv, [Next]_vars
  PROVE  ProviderInv'
BY StepAges, StepProviders DEF ProviderInv, Ages

StoreInv == StoreTypes /\ ProviderInv

LEMMA InitStore == Init => StoreInv
BY InitStoreTypes, InitProvider DEF StoreInv

LEMMA StepStore == StoreInv /\ [Next]_vars => StoreInv'
BY StepStoreTypes, StepProvider DEF StoreInv

(* The samples, the baseline and the statistics are of the start in use,    *)
(* also when an earlier one's requests are answered after the switch        *)
(* (telemetry.ts, the generation that liveTick and tick look at).           *)
THEOREM ProvidersAreKeptApart == Spec => []ProvidersNeverMix
<1>1. StoreInv => ProvidersNeverMix
  BY DEF StoreInv, ProviderInv
<1> QED  BY InitStore, StepStore, <1>1, PTL DEF Spec

----------------------------------------------------------------------------
(* Green *)

LEMMA InitGreen == Init => GreenInv
<1> SUFFICES ASSUME Init PROVE GreenInv
  OBVIOUS
<1>1. PICK mode \in Modes : now = 0 /\ state = Started(mode, 1)
  BY DEF Init
<1>2. state.ticked = FALSE /\ state.mode = mode /\ (mode = "live" => state.samples = <<>>)
  BY <1>1, StartedFields DEF Modes
<1> QED  BY <1>2 DEF GreenInv

LEMMA StepGreen ==
  ASSUME StoreInv, GreenInv, [Next]_vars
  PROVE  GreenInv'
<1> StoreTypes /\ ProviderInv
  BY DEF StoreInv
<1>1. CASE SameStore
  BY <1>1 DEF SameStore, GreenInv, Polled
<1>2. ASSUME NEW mode \in Modes, Switch(mode) PROVE GreenInv'
  BY <1>2, SwitchFacts DEF GreenInv
<1>3. ASSUME NEW x \in timeouts, TickMock(x) PROVE GreenInv'
  BY <1>3, MockFacts DEF GreenInv
<1>4. ASSUME NEW f \in flights, NEW report \in Reports, EndTick(f, report[1], report[2])
      PROVE  GreenInv'
  <2>1. report[1] \in {"up", "down"} /\ f.gen = generation /\ f.t \in Nat
        /\ generation' = generation
    BY <1>4, ReportsAreBoolean
       DEF EndTick, IsStale, StoreTypes, PollTypes, AnyFlight
  <2>2. CASE f.stats = Failed
    BY <1>4, <2>1, <2>2, FailureFacts DEF GreenInv, Polled
  <2>3. CASE f.stats # Failed
    <3>1. state'.health = report[1] /\ state'.tables = f.gen /\ state'.lastSuccessAt = f.t
      BY <1>4, <2>3, CommitFacts, ReportsAreBoolean
    <3> QED  BY <2>1, <3>1, TelemetryAssumption DEF GreenInv, Polled
  <2> QED  BY <2>2, <2>3
<1> QED  BY <1>1, <1>2, <1>3, <1>4, StoreMoves

(* The shell says that all is operational only when a poll of the provider  *)
(* in use has succeeded no longer ago than two intervals and the slack, and *)
(* the footer, the banners and the card of the cluster then agree           *)
(* (ConsoleShell.tsx, deriveStatus; HealthPill; the banners).               *)
THEOREM OperationalIsEarned == Spec => []GreenIsEarned
<1>1. ASSUME StoreInv, GreenInv PROVE GreenIsEarned
  <2> SUFFICES ASSUME Status = "operational" PROVE GreenIsEarned
    BY DEF GreenIsEarned
  <2>1. /\ state.mode # "mock" /\ state.ticked /\ ~Unreachable /\ ~Stale
    BY DEF Status
  <2>2. state.mode = "live"
    BY <1>1, <2>1 DEF StoreInv, StoreTypes, StateTypes, Modes
  <2>3. state.health \in {"up", "down"} /\ (state.lastError \/ Polled)
    BY <1>1, <2>1, <2>2 DEF GreenInv
  <2>4. Polled
    <3>1. CASE ~state.lastError
      BY <2>3, <3>1
    <3>2. CASE state.lastError
      <4>1. state.samples # <<>>
        BY <2>1, <3>2 DEF Unreachable
      <4> QED  BY <1>1, <2>2, <4>1 DEF GreenInv
    <3> QED  BY <3>1, <3>2
  <2>5. now - state.lastSuccessAt <= 2 * pollMs + Slack
    <3>1. now \in Nat /\ pollMs \in Nat /\ Slack \in Nat /\ state.lastSuccessAt \in Nat
      BY <1>1, <2>4, TelemetryAssumption
         DEF Polled, StoreInv, StoreTypes, ClockTypes, StateTypes
    <3>2. ~(now - state.lastSuccessAt > 2 * pollMs + Slack)
      BY <2>1, <2>4 DEF Stale, Polled
    <3> QED  BY <3>1, <3>2
  <2>6. Pill = "live" /\ Banners \subseteq {"reset"}
    BY <2>1 DEF Pill, Banners
  <2>7. ClusterCard # "connecting"
    <3>1. ClusterCard = state.health
      BY <2>1, <2>3, TelemetryAssumption DEF ClusterCard
    <3> QED  BY <2>3, <3>1
  <2> QED  BY <2>4, <2>5, <2>6, <2>7 DEF GreenIsEarned, Polled
<1>2. StoreInv /\ GreenInv /\ [Next]_vars => (StoreInv /\ GreenInv)'
  BY StepStore, StepGreen
<1> QED  BY InitStore, InitGreen, <1>1, <1>2, PTL DEF Spec

----------------------------------------------------------------------------
(* How many chains there are *)

Pending == {x \in timeouts : x.gen = generation}
Flying  == InFlight(generation)

PendingCount == Cardinality(Pending)
FlyingCount  == Cardinality(Flying)
Handle       == \E x \in timeouts : x.id = timer /\ x.gen = generation

LEMMA CountedChains ==
  ASSUME StoreTypes
  PROVE  /\ IsFiniteSet(Pending) /\ Cardinality(Pending) \in Nat
         /\ IsFiniteSet(Flying) /\ Cardinality(Flying) \in Nat
         /\ Chains(generation) = Cardinality(Pending) + Cardinality(Flying)
<1>1. IsFiniteSet(Pending) /\ IsFiniteSet(Flying)
  BY FS_Subset DEF StoreTypes, PollTypes, Pending, Flying, InFlight
<1>2. Cardinality(Pending) \in Nat /\ Cardinality(Flying) \in Nat
  BY <1>1, FS_CardinalityType
<1> QED  BY <1>1, <1>2 DEF Chains, Pending, Flying

(* A timeout that is set adds at most one to those that are left pending.   *)
LEMMA OneMorePending ==
  ASSUME StoreTypes, NEW pending \in SUBSET timeouts, NEW delay \in Nat, generation' \in Nat,
         SetTimer(pending, generation', delay)
  PROVE  LET left == {x \in pending : x.gen = generation'}
         IN  /\ IsFiniteSet(left) /\ Cardinality(Pending') <= Cardinality(left) + 1
             /\ \E x \in timeouts' : x.id = timer' /\ x.gen = generation'
<1> DEFINE left == {x \in pending : x.gen = generation'}
<1>1. IsFiniteSet(left)
  BY FS_Subset DEF StoreTypes, PollTypes
<1>2. PICK x \in AnyTimeout :
        x.id = timer' /\ x.gen = generation' /\ x \notin pending /\ timeouts' = pending \cup {x}
  BY TimerIsSet
<1>3. Pending' = left \cup {x}
  BY <1>2 DEF Pending
<1>4. Cardinality(Pending') = Cardinality(left) + 1
  BY <1>1, <1>2, <1>3, FS_AddElement
<1>5. Cardinality(left) \in Nat
  BY <1>1, FS_CardinalityType
<1> QED  BY <1>1, <1>2, <1>4, <1>5

LEMMA InitChains == Init => ChainsInv
<1> SUFFICES ASSUME Init PROVE ChainsInv
  OBVIOUS
<1>1. PICK mode \in Modes, ms \in Polls :
        /\ generation = 1 /\ returns = 0 /\ timer = 1 /\ flights = {}
        /\ timeouts = {[id |-> 1, gen |-> 1, due |-> FirstDelay(mode, ms)]}
  BY DEF Init
<1>2. Pending = timeouts /\ Flying = {}
  BY <1>1 DEF Pending, Flying, InFlight
<1>3. Cardinality(timeouts) = 1 /\ Cardinality({}) = 0
  BY <1>1, FS_Singleton, FS_EmptySet
<1>4. Chains(generation) = 1
  BY <1>2, <1>3, InitStoreTypes, CountedChains
<1> QED  BY <1>1, <1>4 DEF ChainsInv, ChainsNeedReturns

LEMMA StepChains ==
  ASSUME StoreInv, StoreInv', ChainsInv, [Next]_vars
  PROVE  ChainsInv'
<1> PICK pc, fc : pc = Cardinality(Pending') /\ fc = Cardinality(Flying')
  OBVIOUS
<1>1. /\ StoreTypes /\ ProviderInv /\ StoreTypes'
      /\ timeouts \subseteq AnyTimeout /\ flights \subseteq AnyFlight
      /\ generation \in Nat /\ generation' \in Nat /\ returns \in Nat /\ returns' \in Nat
  BY DEF StoreInv, StoreTypes, ClockTypes, PollTypes
<1>2. /\ IsFiniteSet(Pending) /\ IsFiniteSet(Flying) /\ PendingCount \in Nat /\ FlyingCount \in Nat
      /\ PendingCount + FlyingCount <= 1 + returns /\ (Flying = {} => Handle)
  BY <1>1, CountedChains DEF ChainsInv, ChainsNeedReturns, PendingCount, FlyingCount, Flying, Handle
<1>3. ASSUME pc + fc <= 1 + returns', Flying' = {} => Handle'
      PROVE  ChainsInv'
  <2>1. Chains(generation)' = pc + fc
    BY DEF Chains, PendingCount, FlyingCount, Pending, Flying
  <2> QED  BY <1>3, <2>1 DEF ChainsInv, ChainsNeedReturns, Flying, Handle
<1>4. IsFiniteSet(Pending') /\ IsFiniteSet(Flying') /\ pc \in Nat /\ fc \in Nat
  <2>1. IsFiniteSet(Pending') /\ IsFiniteSet(Flying')
    BY <1>1, FS_Subset DEF StoreTypes, PollTypes, Pending, Flying, InFlight
  <2> QED  BY <2>1, FS_CardinalityType DEF PendingCount, FlyingCount
<1>5. ASSUME generation' = generation, Pending' = Pending, Flying' = Flying, timer' = timer,
             returns' = returns
      PROVE  ChainsInv'
  <2>1. pc = PendingCount /\ fc = FlyingCount
    BY <1>5 DEF PendingCount, FlyingCount
  <2>2. Handle => Handle'
    BY <1>5 DEF Handle, Pending
  <2> QED  BY <1>2, <1>3, <1>4, <1>5, <2>1, <2>2
<1>6. ASSUME NEW pending \in SUBSET timeouts, NEW delay \in Nat,
             SetTimer(pending, generation', delay)
      PROVE  LET left == {x \in pending : x.gen = generation'}
             IN  IsFiniteSet(left) /\ pc <= Cardinality(left) + 1 /\ Handle'
  BY <1>1, <1>6, OneMorePending DEF PendingCount, Handle
<1>7. ASSUME generation' = generation, flights' = flights PROVE fc = FlyingCount
  BY <1>7 DEF FlyingCount, Flying, InFlight
<1>8. ASSUME NEW mode \in Modes, Switch(mode) PROVE ChainsInv'
  <2>1. /\ generation' = generation + 1 /\ flights' = flights /\ returns' = 0
        /\ SetTimer(Cleared(timeouts), generation', FirstDelay(mode, pollMs))
    BY <1>8 DEF Switch
  <2>2. FirstDelay(mode, pollMs) \in Nat /\ Cleared(timeouts) \subseteq timeouts
    BY <1>1, TelemetryAssumption DEF FirstDelay, Cleared, StoreTypes, ClockTypes
  <2>3. {x \in Cleared(timeouts) : x.gen = generation'} = {}
    BY <1>1, <2>1, <2>2 DEF ProviderInv, AnyTimeout
  <2>4. pc <= 1 /\ Handle'
    BY <1>6, <2>1, <2>2, <2>3, FS_EmptySet
  <2>5. Flying' = {}
    BY <1>1, <2>1 DEF Flying, InFlight, ProviderInv, AnyFlight
  <2>6. fc = 0
    BY <2>5, FS_EmptySet DEF FlyingCount
  <2>7. pc + fc <= 1 + returns'
    BY <1>4, <2>1, <2>4, <2>6
  <2> QED  BY <1>3, <2>4, <2>7
<1>9. CASE Show
  <2>1. /\ generation' = generation /\ flights' = flights
        /\ SetTimer(Cleared(timeouts), generation', Quick) /\ Quick \in Nat
        /\ returns' = IF Flying # {} THEN returns + 1 ELSE returns
        /\ Cleared(timeouts) \subseteq timeouts
    BY <1>9, TelemetryAssumption DEF Show, Cleared, Flying
  <2> DEFINE left == {x \in Cleared(timeouts) : x.gen = generation'}
  <2>2. IsFiniteSet(left) /\ pc <= Cardinality(left) + 1 /\ Handle'
    BY <1>6, <2>1
  <2>3. left \subseteq Pending
    BY <2>1 DEF Pending
  <2>4. CASE Flying # {}
    <3>1. Cardinality(left) \in Nat /\ Cardinality(left) <= PendingCount
      BY <1>2, <2>3, FS_Subset, FS_CardinalityType DEF PendingCount
    <3>2. pc + fc <= 1 + returns'
      BY <1>1, <1>2, <1>4, <1>7, <2>1, <2>2, <2>4, <3>1
    <3> QED  BY <1>3, <2>2, <3>2
  <2>5. CASE Flying = {}
    <3>1. PICK x \in timeouts : x.id = timer /\ x.gen = generation
      BY <1>2, <2>5 DEF Handle
    <3>2. left \subseteq Pending \ {x} /\ x \in Pending
      BY <2>1, <3>1 DEF Pending, Cleared
    <3>3. IsFiniteSet(Pending \ {x}) /\ Cardinality(Pending \ {x}) = PendingCount - 1
      BY <1>2, <3>2, FS_RemoveElement DEF PendingCount
    <3>4. Cardinality(left) \in Nat /\ Cardinality(left) <= PendingCount - 1
      BY <3>2, <3>3, FS_Subset, FS_CardinalityType
    <3>5. pc + fc <= 1 + returns'
      BY <1>1, <1>2, <1>4, <1>7, <2>1, <2>2, <2>5, <3>4
    <3> QED  BY <1>3, <2>2, <3>5
  <2> QED  BY <2>4, <2>5
<1>10. ASSUME NEW x \in timeouts, TickPaused(x) \/ TickMock(x) PROVE ChainsInv'
  <2>1. /\ generation' = generation /\ flights' = flights /\ returns' = returns
        /\ x.gen = generation /\ SetTimer(timeouts \ {x}, generation', pollMs) /\ pollMs \in Nat
    BY <1>1, <1>10 DEF TickPaused, TickMock, poller, history, StoreTypes, ClockTypes
  <2>2. {y \in timeouts \ {x} : y.gen = generation'} = Pending \ {x} /\ x \in Pending
    BY <2>1 DEF Pending
  <2>3. pc <= Cardinality(Pending \ {x}) + 1 /\ Handle'
    BY <1>6, <2>1, <2>2
  <2>4. Cardinality(Pending \ {x}) = PendingCount - 1
    BY <1>2, <2>2, FS_RemoveElement DEF PendingCount
  <2>5. pc + fc <= 1 + returns'
    BY <1>1, <1>2, <1>4, <1>7, <2>1, <2>3, <2>4
  <2> QED  BY <1>3, <2>3, <2>5
<1>11. ASSUME NEW x \in timeouts, TickLive(x) PROVE ChainsInv'
  <2>1. PICK f \in AnyFlight :
          flights' = flights \cup {f} /\ f \notin flights /\ f.gen = generation
    BY <1>1, <1>11, TickFacts
  <2>2. /\ generation' = generation /\ timeouts' = timeouts \ {x} /\ x.gen = generation
        /\ returns' = returns
    BY <1>11 DEF TickLive, poller
  <2>3. Pending' = Pending \ {x} /\ x \in Pending
    BY <2>2 DEF Pending
  <2>4. Flying' = Flying \cup {f} /\ f \notin Flying
    BY <2>1, <2>2 DEF Flying, InFlight
  <2>5. pc = PendingCount - 1
    BY <1>2, <2>3, FS_RemoveElement DEF PendingCount
  <2>6. fc = FlyingCount + 1
    BY <1>2, <2>4, FS_AddElement DEF FlyingCount
  <2> QED  BY <1>1, <1>2, <1>3, <1>4, <2>2, <2>4, <2>5, <2>6
<1>12. ASSUME NEW x \in timeouts, Drop(x) PROVE ChainsInv'
  <2>1. /\ generation' = generation /\ timeouts' = timeouts \ {x} /\ x.gen # generation
        /\ flights' = flights /\ timer' = timer /\ returns' = returns
    BY <1>12 DEF Drop, poller, history
  <2>2. Pending' = Pending /\ Flying' = Flying
    BY <2>1 DEF Pending, Flying, InFlight
  <2> QED  BY <1>5, <2>1, <2>2
<1>13. ASSUME NEW f \in flights, ServeStats(f) \/ ServeCounters(f) \/ RequestFails(f)
       PROVE  ChainsInv'
  <2>1. PICK g \in AnyFlight : Answered(f, g) /\ g.gen = f.gen
    BY <1>1, <1>13, AnsweredTypes
  <2>2. /\ f.gen = generation /\ flights' = (flights \ {f}) \cup {g}
        /\ timeouts' = timeouts /\ generation' = generation /\ returns' = returns
    BY <2>1 DEF Answered, poller
  <2>3. Flying' = (Flying \ {f}) \cup {g} /\ f \in Flying
    BY <2>1, <2>2 DEF Flying, InFlight
  <2>4. IsFiniteSet(Flying \ {f}) /\ Cardinality(Flying \ {f}) = FlyingCount - 1
    BY <1>2, <2>3, FS_RemoveElement DEF FlyingCount
  <2>5. fc = Cardinality(Flying \ {f}) \/ fc = Cardinality(Flying \ {f}) + 1
    BY <2>3, <2>4, FS_AddElement DEF FlyingCount
  <2>6. pc = PendingCount
    BY <2>2 DEF PendingCount, Pending
  <2>7. pc + fc <= 1 + returns'
    BY <1>1, <1>2, <1>4, <2>2, <2>4, <2>5, <2>6
  <2> QED  BY <1>3, <2>3, <2>7
<1>14. ASSUME NEW f \in flights, EndStale(f) PROVE ChainsInv'
  <2>1. /\ generation' = generation /\ flights' = flights \ {f} /\ f.gen # generation
        /\ timeouts' = timeouts /\ timer' = timer /\ returns' = returns
    BY <1>14 DEF EndStale, IsStale, poller, history
  <2>2. Pending' = Pending /\ Flying' = Flying
    BY <2>1 DEF Pending, Flying, InFlight
  <2> QED  BY <1>5, <2>1, <2>2
<1>15. ASSUME NEW f \in flights, NEW report \in Reports, EndTick(f, report[1], report[2])
       PROVE  ChainsInv'
  <2>1. /\ generation' = generation /\ flights' = flights \ {f} /\ f.gen = generation
        /\ SetTimer(timeouts, generation', pollMs) /\ pollMs \in Nat /\ returns' = returns
    BY <1>1, <1>15 DEF EndTick, IsStale, Continue, StoreTypes, ClockTypes
  <2>2. {x \in timeouts : x.gen = generation'} = Pending
    BY <2>1 DEF Pending
  <2>3. pc <= PendingCount + 1 /\ Handle'
    BY <1>6, <2>1, <2>2 DEF PendingCount
  <2>4. Flying' = Flying \ {f} /\ f \in Flying
    BY <2>1 DEF Flying, InFlight
  <2>5. fc = FlyingCount - 1
    BY <1>2, <2>4, FS_RemoveElement DEF FlyingCount
  <2>6. pc + fc <= 1 + returns'
    BY <1>1, <1>2, <1>4, <2>1, <2>3, <2>5
  <2> QED  BY <1>3, <2>3, <2>6
<1>16. CASE \/ \E ms \in Polls : SetPollInterval(ms)
            \/ \E p \in Procs : CallProcedure(p)
            \/ \E c \in Counters : Reject(c)
            \/ Hide \/ RestartCluster \/ Advance \/ UNCHANGED vars
  <2>1. /\ generation' = generation /\ flights' = flights /\ timeouts' = timeouts
        /\ timer' = timer /\ returns' = returns
    BY <1>16 DEF SetPollInterval, CallProcedure, Reject, Hide, RestartCluster, Advance, vars,
                 poller, history
  <2>2. Pending' = Pending /\ Flying' = Flying
    BY <2>1 DEF Pending, Flying, InFlight
  <2> QED  BY <1>5, <2>1, <2>2
<1> QED
  BY <1>8, <1>9, <1>10, <1>11, <1>12, <1>13, <1>14, <1>15, <1>16 DEF Next, Fire

(* A chain is added to the first one only by a return of the page during a  *)
(* tick (telemetry.ts, onVis, which clears the timeout it knows of and      *)
(* starts another).                                                         *)
THEOREM ChainsAreCounted == Spec => []ChainsNeedReturns
<1>1. ChainsInv => ChainsNeedReturns
  BY DEF ChainsInv
<1>2. Init => StoreInv /\ ChainsInv
  BY InitStore, InitChains
<1>3. StoreInv /\ ChainsInv /\ [Next]_vars => (StoreInv /\ ChainsInv)'
  BY StepStore, StepChains
<1> QED  BY <1>1, <1>2, <1>3, PTL DEF Spec

----------------------------------------------------------------------------
(* Samples and rates *)

LEMMA InitSpans == Init => SpansInv /\ SoundInv
<1> SUFFICES ASSUME Init PROVE SpansInv /\ SoundInv
  OBVIOUS
<1>1. PICK mode \in Modes : now = 0 /\ state = Started(mode, 1) /\ flights = {}
  BY DEF Init
<1>2. state.mode = mode /\ (mode = "live" => state.samples = <<>>)
  BY <1>1, StartedFields DEF Modes
<1>3. InFlight(generation) = {}
  BY <1>1 DEF InFlight
<1> QED  BY <1>1, <1>2, <1>3 DEF SpansInv, SoundInv, Rising

(* The span of one sample.                                                  *)
Spans(s) == s.since < s.t /\ \A p \in Procs : s.calls[p] < 0 => p \in s.vanished

(* A sample is made of two polls between which no count went down, except   *)
(* that of a procedure which is no longer reported.                         *)
LEMMA SampleSpans ==
  ASSUME NEW raw \in AnyPoll, prevRaw \in AnyPoll, ~Restarted(raw)
  PROVE  Spans(SampleOf(raw))
<1>1. raw.t \in Nat /\ prevRaw.t \in Nat /\ raw.inv \in AllCalls /\ prevRaw.inv \in AllCalls
  BY DEF AnyPoll
<1>2. prevRaw.t < raw.t /\ \A p \in DOMAIN raw.inv : ~(raw.inv[p] < At(prevRaw.inv, p))
  BY <1>1 DEF Restarted
<1>3. PICK s : s = SampleOf(raw)
  OBVIOUS
<1>4. /\ s.since = prevRaw.t /\ s.t = raw.t
      /\ s.vanished = DOMAIN prevRaw.inv \ DOMAIN raw.inv
      /\ \A p \in Procs : s.calls[p] = At(raw.inv, p) - At(prevRaw.inv, p)
  BY <1>3 DEF SampleOf
<1>5. ASSUME NEW p \in Procs, s.calls[p] < 0 PROVE p \in s.vanished
  <2>1. PICK was, is \in Nat : was = At(prevRaw.inv, p) /\ is = At(raw.inv, p)
    BY <1>1, AtIsNat
  <2>2. is < was
    BY <1>4, <1>5, <2>1
  <2>3. p \notin DOMAIN raw.inv
    BY <1>2, <2>1, <2>2 DEF At
  <2>4. p \in DOMAIN prevRaw.inv
    BY <2>1, <2>2 DEF At
  <2> QED  BY <1>4, <2>3, <2>4
<1> QED  BY <1>2, <1>3, <1>4, <1>5 DEF Spans

LEMMA StepSpans ==
  ASSUME StoreInv, SpansInv, [Next]_vars
  PROVE  SpansInv'
<1>1. StoreTypes /\ ProviderInv /\ state.samples \in Seq(AnySample)
  BY DEF StoreInv, StoreTypes, StateTypes
<1>2. SpansInv <=> (state.mode = "live" => \A i \in DOMAIN state.samples : Spans(state.samples[i]))
  BY DEF SpansInv, Spans
<1>3. (state'.mode = "live" => \A i \in DOMAIN state'.samples : Spans(state'.samples[i]))
      => SpansInv'
  BY DEF SpansInv, Spans
<1>4. CASE SameStore
  BY <1>2, <1>3, <1>4 DEF SameStore
<1>5. ASSUME NEW mode \in Modes, Switch(mode) PROVE SpansInv'
  <2>1. state'.mode = mode /\ (mode = "live" => state'.samples = <<>>)
    BY <1>1, <1>5, SwitchFacts DEF Modes
  <2> QED  BY <1>3, <2>1
<1>6. ASSUME NEW x \in timeouts, TickMock(x) PROVE SpansInv'
  BY <1>1, <1>3, <1>6, MockFacts
<1>7. ASSUME NEW f \in flights, NEW report \in Reports, EndTick(f, report[1], report[2])
      PROVE  SpansInv'
  <2>1. CASE f.stats = Failed
    BY <1>1, <1>2, <1>3, <1>7, <2>1, FailureFacts
  <2>2. CASE f.stats # Failed
    <3>1. /\ Poll(f) \in AnyPoll /\ state'.mode = state.mode
          /\ \/ state'.samples \in {state.samples, <<>>}
             \/ /\ prevRaw \in AnyPoll /\ ~Restarted(Poll(f)) /\ SampleOf(Poll(f)) \in AnySample
                /\ state'.samples = Pushed(state.samples, SampleOf(Poll(f)))
      BY <1>1, <1>7, <2>2, CommitFacts, ReportsAreBoolean
    <3>2. CASE state'.samples = state.samples
      BY <1>2, <1>3, <3>1, <3>2
    <3>3. CASE state'.samples = <<>>
      BY <1>3, <3>3
    <3>4. ASSUME NEW s \in AnySample, Spans(s), state'.samples = Pushed(state.samples, s)
          PROVE  SpansInv'
      <4> SUFFICES ASSUME state.mode = "live", NEW i \in DOMAIN Pushed(state.samples, s)
                   PROVE  Spans(Pushed(state.samples, s)[i])
        BY <1>3, <3>1, <3>4
      <4> QED  BY <1>1, <1>2, <3>4, PushedKeeps
    <3> QED  BY <3>1, <3>2, <3>3, <3>4, SampleSpans
  <2> QED  BY <2>1, <2>2
<1> QED  BY <1>1, <1>4, <1>5, <1>6, <1>7, StoreMoves

----------------------------------------------------------------------------
(* Counters that only grow *)

LEMMA AtMostIsTransitive ==
  ASSUME NEW a \in AllValues, NEW b \in AllValues, NEW c \in AllValues,
         AtMost(a, b), AtMost(b, c)
  PROVE  AtMost(a, c)
BY DEF AtMost, AllValues

LEMMA AtMostIsReflexive ==
  ASSUME NEW a \in AllValues
  PROVE  AtMost(a, a)
BY DEF AtMost, AllValues

(* A sample that is no smaller than the last one keeps the ring rising.     *)
LEMMA PushedRises ==
  ASSUME NEW samples \in Seq(AnySample), NEW s \in AnySample, Rising(samples),
         samples # <<>> => AtMost(Last(samples).counters, s.counters)
  PROVE  Rising(Pushed(samples, s)) /\ Last(Pushed(samples, s)) = s
<1>1. PICK d \in {0, 1} :
        /\ d <= Len(samples) /\ Len(Pushed(samples, s)) = Len(samples) - d + 1
        /\ \A i \in 1 .. Len(samples) - d : Pushed(samples, s)[i] = samples[i + d]
        /\ Pushed(samples, s)[Len(samples) - d + 1] = s
  BY PushedFacts
<1>2. PICK n \in Nat : n = Len(samples) /\ DOMAIN samples = 1 .. n
  BY LenProperties
<1>3. PICK new \in Seq(AnySample) : new = Pushed(samples, s)
  BY PushedFacts
<1>4. /\ Len(new) = n - d + 1 /\ DOMAIN new = 1 .. n - d + 1 /\ new[n - d + 1] = s
      /\ \A i \in 1 .. n - d : i + d \in 1 .. n /\ new[i] = samples[i + d]
  BY <1>1, <1>2, <1>3, LenProperties
<1>5. Last(new) = s
  BY <1>4 DEF Last
<1>6. \A i \in 1 .. n : samples[i].counters \in AllValues
  <2>1. \A i \in 1 .. n : samples[i] \in AnySample
    BY <1>2, ElementOfSeq
  <2>2. \A x \in AnySample : x.counters \in AllValues
    BY DEF AnySample
  <2> QED  BY <2>1, <2>2
<1>7. s.counters \in AllValues
  BY DEF AnySample
<1>8. ASSUME NEW i \in 1 .. n PROVE AtMost(samples[i].counters, s.counters)
  <2>1. samples # <<>> /\ n \in 1 .. n /\ Last(samples) = samples[n]
    BY <1>2, <1>8 DEF Last
  <2>2. AtMost(samples[i].counters, samples[n].counters)
    BY <1>2, <2>1 DEF Rising
  <2>3. AtMost(samples[n].counters, s.counters)
    BY <2>1
  <2> QED  BY <1>6, <1>7, <2>1, <2>2, <2>3, AtMostIsTransitive
<1>9. ASSUME NEW i \in DOMAIN new, NEW j \in DOMAIN new, i <= j
      PROVE  AtMost(new[i].counters, new[j].counters)
  <2>1. CASE j = n - d + 1 /\ i = n - d + 1
    BY <1>4, <1>7, <2>1, AtMostIsReflexive
  <2>2. CASE j = n - d + 1 /\ i # n - d + 1
    <3>1. i \in 1 .. n - d
      BY <1>4, <1>9, <2>2
    <3> QED  BY <1>4, <1>8, <2>2, <3>1
  <2>3. CASE j # n - d + 1
    <3>1. i \in 1 .. n - d /\ j \in 1 .. n - d
      BY <1>4, <1>9, <2>3
    <3>2. i + d \in 1 .. n /\ j + d \in 1 .. n /\ i + d <= j + d
      BY <1>2, <1>9, <3>1
    <3>3. AtMost(samples[i + d].counters, samples[j + d].counters)
      BY <1>2, <3>2 DEF Rising
    <3> QED  BY <1>4, <3>1, <3>3
  <2> QED  BY <2>1, <2>2, <2>3
<1> QED  BY <1>3, <1>5, <1>9 DEF Rising

(* What SoundInv says of the ticks in flight, and of the samples.           *)
OneFlies  == \A f, g \in InFlight(generation) : f = g
FliesLow  == \A f \in InFlight(generation) :
               f.counters.st = "ok" => AtMost(f.counters.val, cluster.counters)
LastIsLow ==
  state.samples # <<>> =>
    /\ AtMost(Last(state.samples).counters, cluster.counters)
    /\ \A f \in InFlight(generation) :
         f.counters.st = "ok" => AtMost(Last(state.samples).counters, f.counters.val)

LEMMA StepSound ==
  ASSUME StoreInv, SoundInv, [Next]_vars
  PROVE  SoundInv'
<1> SUFFICES ASSUME sound', state'.mode = "live"
             PROVE  (OneFlies /\ FliesLow /\ Rising(state.samples) /\ LastIsLow)'
  BY DEF SoundInv, OneFlies, FliesLow, LastIsLow
<1>1. /\ StoreTypes /\ ProviderInv /\ state.samples \in Seq(AnySample)
      /\ flights \subseteq AnyFlight /\ generation \in Nat /\ cluster.counters \in AllValues
  BY DEF StoreInv, StoreTypes, StateTypes, ClockTypes, PollTypes
<1>2. ASSUME sound, state.mode = "live"
      PROVE  OneFlies /\ FliesLow /\ Rising(state.samples) /\ LastIsLow
  BY <1>2 DEF SoundInv, OneFlies, FliesLow, LastIsLow
<1>3. \A f \in AnyFlight : f.counters.st = "ok" => f.counters.val \in AllValues
  BY DEF AnyFlight, Waiting, Failed
<1>4. state.samples # <<>> => Last(state.samples).counters \in AllValues
  <2>1. \A x \in AnySample : x.counters \in AllValues
    BY DEF AnySample
  <2> QED  BY <1>1, <2>1, LastOfSamples
<1>5. ASSUME sound, SameStore, InFlight(generation)' \subseteq InFlight(generation),
             cluster'.counters = cluster.counters
      PROVE  (OneFlies /\ FliesLow /\ Rising(state.samples) /\ LastIsLow)'
  BY <1>2, <1>5 DEF SameStore, OneFlies, FliesLow, LastIsLow
<1>6. ASSUME NEW mode \in Modes, Switch(mode)
      PROVE  (OneFlies /\ FliesLow /\ Rising(state.samples) /\ LastIsLow)'
  <2>1. state'.mode = mode /\ (mode = "live" => state'.samples = <<>>)
    BY <1>1, <1>6, SwitchFacts DEF Modes
  <2>2. generation' = generation + 1 /\ flights' = flights
    BY <1>6 DEF Switch
  <2>3. InFlight(generation)' = {}
    BY <1>1, <2>2 DEF InFlight, ProviderInv, AnyFlight
  <2> QED  BY <2>1, <2>3 DEF OneFlies, FliesLow, LastIsLow, Rising
<1>7. ASSUME NEW x \in timeouts, TickLive(x)
      PROVE  (OneFlies /\ FliesLow /\ Rising(state.samples) /\ LastIsLow)'
  <2>1. PICK f \in AnyFlight : flights' = flights \cup {f} /\ f.counters = Waiting
    BY <1>1, <1>7, TickFacts
  <2>2. /\ generation' = generation /\ state' = state /\ cluster' = cluster
        /\ sound /\ InFlight(generation) = {}
    BY <1>7 DEF TickLive, poller
  <2>3. InFlight(generation)' \subseteq {f} /\ f.counters.st # "ok"
    BY <2>1, <2>2 DEF InFlight, Waiting
  <2> QED  BY <1>2, <2>2, <2>3 DEF OneFlies, FliesLow, LastIsLow
<1>8. ASSUME NEW f \in flights, ServeStats(f) \/ ServeCounters(f) \/ RequestFails(f)
      PROVE  (OneFlies /\ FliesLow /\ Rising(state.samples) /\ LastIsLow)'
  <2>1. PICK g \in AnyFlight :
          /\ Answered(f, g) /\ g.gen = f.gen
          /\ g.counters = f.counters \/ g.counters = Failed
             \/ (g.counters.st = "ok" /\ g.counters.val = cluster.counters)
    BY <1>1, <1>8, AnsweredTypes
  <2>2. /\ generation' = generation /\ state' = state /\ cluster' = cluster /\ sound
        /\ flights' = (flights \ {f}) \cup {g} /\ f \in InFlight(generation)
    BY <2>1 DEF Answered, poller, InFlight
  <2>3. OneFlies /\ FliesLow /\ Rising(state.samples) /\ LastIsLow
    BY <1>2, <2>2
  <2>4. InFlight(generation)' \subseteq {g}
    BY <2>2, <2>3 DEF InFlight, OneFlies
  <2>5. g.counters.st = "ok" => /\ AtMost(g.counters.val, cluster.counters)
                                /\ state.samples # <<>> =>
                                     AtMost(Last(state.samples).counters, g.counters.val)
    <3>1. CASE g.counters = f.counters
      BY <2>2, <2>3, <3>1 DEF FliesLow, LastIsLow
    <3>2. CASE g.counters = Failed
      BY <3>2 DEF Failed
    <3>3. CASE g.counters.st = "ok" /\ g.counters.val = cluster.counters
      BY <1>1, <2>3, <3>3, AtMostIsReflexive DEF LastIsLow
    <3> QED  BY <2>1, <3>1, <3>2, <3>3
  <2> QED  BY <2>2, <2>3, <2>4, <2>5 DEF OneFlies, FliesLow, LastIsLow
<1>9. ASSUME NEW c \in Counters, Reject(c)
      PROVE  (OneFlies /\ FliesLow /\ Rising(state.samples) /\ LastIsLow)'
  <2>1. /\ generation' = generation /\ state' = state /\ flights' = flights /\ sound
        /\ cluster' = [cluster EXCEPT !.counters[c] = @ + 1]
    BY <1>9 DEF Reject, poller, history
  <2>2. cluster \in [inv : [Procs -> Nat], counters : AllValues]
    BY <1>1 DEF StoreTypes, PollTypes
  <2>3. cluster'.counters \in AllValues /\ AtMost(cluster.counters, cluster'.counters)
    BY <2>1, <2>2 DEF AtMost, AllValues
  <2>4. OneFlies /\ FliesLow /\ Rising(state.samples) /\ LastIsLow
    BY <1>2, <2>1
  <2>5. InFlight(generation)' = InFlight(generation) /\ InFlight(generation) \subseteq AnyFlight
    BY <1>1, <2>1 DEF InFlight
  <2>6. ASSUME NEW f \in InFlight(generation), f.counters.st = "ok"
        PROVE  AtMost(f.counters.val, cluster'.counters)
    BY <1>1, <1>3, <2>3, <2>4, <2>5, <2>6, AtMostIsTransitive DEF FliesLow
  <2>7. state.samples # <<>> => AtMost(Last(state.samples).counters, cluster'.counters)
    BY <1>1, <1>4, <2>3, <2>4, AtMostIsTransitive DEF LastIsLow
  <2> QED  BY <2>1, <2>4, <2>5, <2>6, <2>7 DEF OneFlies, FliesLow, LastIsLow
<1>10. ASSUME NEW f \in flights, NEW report \in Reports, EndTick(f, report[1], report[2])
       PROVE  (OneFlies /\ FliesLow /\ Rising(state.samples) /\ LastIsLow)'
  <2>1. /\ generation' = generation /\ cluster' = cluster
        /\ flights' = flights \ {f} /\ f \in InFlight(generation) /\ f \in AnyFlight
        /\ state.mode = "live"
    BY <1>1, <1>10 DEF EndTick, IsStale, InFlight, ProviderInv
  <2>2. InFlight(generation)' = InFlight(generation) \ {f}
    BY <2>1 DEF InFlight
  <2>3. CASE f.stats = Failed
    <3>1. sound /\ state'.samples = state.samples
      BY <1>1, <1>10, <2>3, FailureFacts
    <3> QED  BY <1>2, <2>1, <2>2, <3>1 DEF OneFlies, FliesLow, LastIsLow
  <2>4. CASE f.stats # Failed
    <3>1. /\ f.counters.st = "ok" /\ Cardinality(InFlight(generation)) = 1
          /\ sound \/ state'.samples = <<>>
          /\ \/ state'.samples \in {state.samples, <<>>}
             \/ /\ SampleOf(Poll(f)) \in AnySample
                /\ state'.samples = Pushed(state.samples, SampleOf(Poll(f)))
      BY <1>1, <1>10, <2>4, CommitFacts, ReportsAreBoolean
    <3>2. InFlight(generation)' = {}
      <4>1. IsFiniteSet(InFlight(generation))
        BY <1>1, FS_Subset DEF StoreTypes, PollTypes, InFlight
      <4>2. PICK g : InFlight(generation) = {g}
        BY <3>1, <4>1, FS_Singleton
      <4> QED  BY <2>1, <2>2, <4>2
    <3>3. CASE state'.samples = <<>>
      BY <3>2, <3>3 DEF OneFlies, FliesLow, LastIsLow, Rising
    <3>4. ASSUME sound
          PROVE  (OneFlies /\ FliesLow /\ Rising(state.samples) /\ LastIsLow)'
      <4>1. FliesLow /\ Rising(state.samples) /\ LastIsLow
        BY <1>2, <2>1, <3>4
      <4>2. AtMost(f.counters.val, cluster.counters)
        BY <2>1, <3>1, <4>1 DEF FliesLow
      <4>3. CASE state'.samples = state.samples
        BY <2>1, <3>2, <4>1, <4>3 DEF OneFlies, FliesLow, LastIsLow
      <4>4. CASE /\ SampleOf(Poll(f)) \in AnySample
                 /\ state'.samples = Pushed(state.samples, SampleOf(Poll(f)))
        <5>1. PICK s \in AnySample : s = SampleOf(Poll(f))
          BY <4>4
        <5>2. s.counters = f.counters.val
          BY <3>1, <5>1 DEF SampleOf, Poll
        <5>3. state.samples # <<>> => AtMost(Last(state.samples).counters, s.counters)
          BY <2>1, <3>1, <4>1, <5>2 DEF LastIsLow
        <5>4. Rising(state'.samples) /\ Last(state'.samples) = s
          BY <1>1, <4>1, <4>4, <5>1, <5>3, PushedRises
        <5> QED  BY <2>1, <3>2, <4>2, <5>2, <5>4 DEF OneFlies, FliesLow, LastIsLow
      <4> QED  BY <3>1, <3>3, <4>3, <4>4
    <3> QED  BY <3>1, <3>3, <3>4
  <2> QED  BY <2>3, <2>4
<1>11. ASSUME NEW x \in timeouts, Drop(x) \/ TickPaused(x)
       PROVE  (OneFlies /\ FliesLow /\ Rising(state.samples) /\ LastIsLow)'
  BY <1>5, <1>11 DEF Drop, TickPaused, poller, history, SameStore, InFlight
<1>12. ASSUME NEW f \in flights, EndStale(f)
       PROVE  (OneFlies /\ FliesLow /\ Rising(state.samples) /\ LastIsLow)'
  BY <1>5, <1>12 DEF EndStale, poller, history, SameStore, InFlight
<1>13. CASE Hide \/ Show
  <2>1. SameStore
    BY <1>1, <1>13 DEF Hide, Show, SameStore, StoreTypes, StateTypes, StateFields
  <2> QED  BY <1>5, <1>13, <2>1 DEF Hide, Show, InFlight
<1>14. ASSUME NEW p \in Procs, CallProcedure(p)
       PROVE  (OneFlies /\ FliesLow /\ Rising(state.samples) /\ LastIsLow)'
  <2>1. cluster'.counters = cluster.counters
    BY <1>1, <1>14 DEF CallProcedure, StoreTypes, PollTypes
  <2> QED  BY <1>5, <1>14, <2>1 DEF CallProcedure, poller, history, SameStore, InFlight
<1>15. CASE \/ \E ms \in Polls : SetPollInterval(ms)
            \/ Advance \/ UNCHANGED vars
  BY <1>5, <1>15 DEF SetPollInterval, Advance, vars, poller, history, SameStore, InFlight
<1>16. ASSUME NEW x \in timeouts, TickMock(x) PROVE FALSE
  BY <1>1, <1>16, MockFacts
<1>17. CASE RestartCluster
  BY <1>17 DEF RestartCluster
<1> QED
  BY <1>6, <1>7, <1>8, <1>9, <1>10, <1>11, <1>12, <1>13, <1>14, <1>15, <1>16, <1>17 DEF Next, Fire

(* A set of natural numbers has a smallest element.                         *)
LEMMA Smallest ==
  ASSUME NEW S \in SUBSET Nat, S # {}
  PROVE  Min(S) \in S
<1>1. PICK R : R = OpToRel(<, Nat)
  OBVIOUS
<1>2. \A x, y \in Nat : x < y => <<x, y>> \in R
  BY <1>1 DEF OpToRel
<1>3. PICK n \in S : \A m \in S : ~ (<<m, n>> \in R)
  BY <1>1, NatLessThanWellFounded, WFMin
<1>4. \A m \in S : n <= m
  <2> SUFFICES ASSUME NEW m \in S, ~ (n <= m) PROVE FALSE
    OBVIOUS
  <2>1. m \in Nat /\ n \in Nat /\ m < n
    OBVIOUS
  <2> QED  BY <1>2, <1>3, <2>1
<1> QED  BY <1>3, <1>4 DEF Min

(* The rate of a counter, where the ring rises.                             *)
LEMMA RisingRate ==
  ASSUME NEW samples \in Seq(AnySample), Rising(samples), NEW c \in Counters, NEW window \in Nat
  PROVE  LET rate == CounterRate(samples, c, window)
         IN  rate = None \/ rate.grew >= 0
<1> DEFINE last == Last(samples)
           I    == {i \in 1 .. Len(samples) : samples[i].t >= last.t - window}
<1>1. CASE Len(samples) < 2
  BY <1>1 DEF CounterRate
<1>2. CASE ~(Len(samples) < 2)
  <2>1. PICK n \in Nat \ {0} : n = Len(samples) /\ DOMAIN samples = 1 .. n
    BY <1>2, LenProperties
  <2>2. n \in I
    <3>1. last = samples[n] /\ last \in AnySample
      BY <2>1, ElementOfSeq DEF Last
    <3>2. last.t \in Nat
      BY <3>1 DEF AnySample
    <3> QED  BY <2>1, <3>1, <3>2
  <2>3. PICK i \in DOMAIN samples : i = SelectInSeq(samples, LAMBDA s : s.t >= last.t - window)
    <3>1. I \in SUBSET Nat /\ I # {}
      BY <2>1, <2>2
    <3>2. SelectInSeq(samples, LAMBDA s : s.t >= last.t - window) = Min(I)
      BY <3>1 DEF SelectInSeq
    <3>3. Min(I) \in I
      BY <3>1, Smallest
    <3> QED  BY <2>1, <3>2, <3>3
  <2>4. /\ i <= n /\ i \in 1 .. n /\ last = samples[n]
        /\ samples[i].counters \in AllValues /\ last.counters \in AllValues
    <3>1. samples[i] \in AnySample /\ samples[n] \in AnySample
      BY <2>1, <2>3, ElementOfSeq
    <3>2. \A x \in AnySample : x.counters \in AllValues
      BY DEF AnySample
    <3>3. last = samples[n] /\ i <= n /\ i \in 1 .. n
      BY <2>1, <2>3 DEF Last
    <3> HIDE DEF last
    <3> QED  BY <3>1, <3>2, <3>3
  <2>5. samples[i].counters[c] <= last.counters[c]
    BY <2>1, <2>3, <2>4 DEF Rising, AtMost
  <2>6. last.counters[c] - samples[i].counters[c] >= 0
    BY <2>4, <2>5 DEF AllValues
  <2>7. CounterRate(samples, c, window)
        = IF Len(samples) < 2 \/ last.t <= samples[i].t THEN None
          ELSE [grew |-> last.counters[c] - samples[i].counters[c], over |-> last.t - samples[i].t]
    BY <2>3 DEF CounterRate
  <2> HIDE DEF last, I
  <2> QED  BY <2>6, <2>7
<1> QED  BY <1>1, <1>2

(* A sample spans some time, and a rate below zero is of a procedure that   *)
(* is no longer reported, or of a counter over polls between which          *)
(* something was lost (telemetry.ts, liveTick's baseline and deltas, and    *)
(* counterRate).                                                            *)
THEOREM NegativeRatesAreExplained == Spec => []NegativeRateMeansVanished
<1>1. ASSUME StoreInv, SpansInv, SoundInv PROVE NegativeRateMeansVanished
  <2>1. state.samples \in Seq(AnySample)
    BY <1>1 DEF StoreInv, StoreTypes, StateTypes
  <2>2. ASSUME sound, state.mode = "live", NEW c \in Counters, NEW window \in Instants
        PROVE  LET rate == CounterRate(state.samples, c, window)
               IN  rate = None \/ rate.grew >= 0
    <3>1. Rising(state.samples)
      BY <1>1, <2>2 DEF SoundInv
    <3>2. window \in Nat
      BY TelemetryAssumption DEF Instants
    <3> QED  BY <2>1, <3>1, <3>2, RisingRate
  <2> QED  BY <1>1, <2>2 DEF SpansInv, NegativeRateMeansVanished
<1>2. Init => StoreInv /\ SpansInv /\ SoundInv
  BY InitStore, InitSpans
<1>3. StoreInv /\ SpansInv /\ SoundInv /\ [Next]_vars => (StoreInv /\ SpansInv /\ SoundInv)'
  BY StepStore, StepSpans, StepSound
<1> QED  BY <1>1, <1>2, <1>3, PTL DEF Spec

----------------------------------------------------------------------------
(* The feed *)

(* A finite set as a sequence has each of its elements once.                *)
LEMMA SetAsSeq ==
  ASSUME NEW S, IsFiniteSet(S), NEW q, q = SetToSeq(S)
  PROVE  /\ q \in Seq(S) /\ IsInjective(q)
         /\ \A x \in S : \E i \in DOMAIN q : q[i] = x
<1> DEFINE n == Cardinality(S)
<1>1. n \in Nat /\ ExistsBijection(1 .. n, S)
  BY FS_CardinalityType
<1>2. IsFiniteSet(1 .. n) /\ Cardinality(1 .. n) = n
  BY <1>1, FS_Interval
<1> HIDE DEF n
<1>3. \E f \in [1 .. n -> S] : IsInjective(f)
  BY <1>1 DEF ExistsBijection, Bijection, Injection
<1>4. q \in [1 .. n -> S] /\ IsInjective(q)
  BY <1>3 DEF SetToSeq, n
<1>5. q \in Injection(1 .. n, S)
  BY <1>4 DEF Injection
<1>6. q \in Surjection(1 .. n, S)
  BY <1>2, <1>5, FS_Injection DEF n
<1>7. DOMAIN q = 1 .. n /\ \A x \in S : \E i \in 1 .. n : q[i] = x
  BY <1>4, <1>6 DEF Surjection
<1>8. q \in Seq(S)
  BY <1>1, <1>4
<1> QED  BY <1>4, <1>7, <1>8

AnyEntry == [t : Nat, name : Counters, delta : Nat]

(* What a feed adds up to, for one counter.                                 *)
Total(events, c) == SumFunction(DeltasOf(events, c))

LEMMA DeltaFacts ==
  ASSUME NEW events \in Seq(AnyEntry), NEW c
  PROVE  /\ DOMAIN DeltasOf(events, c) = 1 .. Len(events) /\ IsFiniteSet(1 .. Len(events))
         /\ Len(events) \in Nat
         /\ \A i \in 1 .. Len(events) :
              /\ DeltasOf(events, c)[i] = (IF events[i].name = c THEN events[i].delta ELSE 0)
              /\ DeltasOf(events, c)[i] \in Nat
<1>1. Len(events) \in Nat /\ DOMAIN events = 1 .. Len(events)
  BY LenProperties
<1>2. IsFiniteSet(1 .. Len(events))
  BY <1>1, FS_Interval
<1>3. \A i \in 1 .. Len(events) : events[i].delta \in Nat
  <2>1. \A i \in 1 .. Len(events) : events[i] \in AnyEntry
    BY ElementOfSeq
  <2>2. \A e \in AnyEntry : e.delta \in Nat
    BY DEF AnyEntry
  <2> QED  BY <2>1, <2>2
<1> QED  BY <1>1, <1>2, <1>3 DEF DeltasOf

LEMMA TotalOfNone ==
  ASSUME NEW c
  PROVE  Total(<<>>, c) = 0
<1>1. DOMAIN DeltasOf(<<>>, c) = {}
  BY DEF DeltasOf
<1> QED  BY <1>1, SumEmpty DEF Total, SumFunction

(* A feed that is put before another adds its total to the other's.         *)
LEMMA TotalOfBoth ==
  ASSUME NEW new \in Seq(AnyEntry), NEW events \in Seq(AnyEntry), NEW c
  PROVE  /\ Total(new \o events, c) = Total(new, c) + Total(events, c)
         /\ Total(new, c) \in Nat /\ Total(events, c) \in Nat
<1>1. PICK all : all = new \o events
  OBVIOUS
<1>2. PICK n, m : n = Len(new) /\ m = Len(events) /\ n \in Nat /\ m \in Nat
  BY LenProperties
<1>3. /\ all \in Seq(AnyEntry) /\ Len(all) = n + m
      /\ \A i \in 1 .. n + m : all[i] = IF i <= n THEN new[i] ELSE events[i - n]
  BY <1>1, <1>2, ConcatProperties
<1>4. PICK f, g, h : f = DeltasOf(all, c) /\ g = DeltasOf(new, c) /\ h = DeltasOf(events, c)
  OBVIOUS
<1>5. PICK I, J, K : I = 1 .. n /\ J = 1 .. m /\ K = 1 .. n + m
  OBVIOUS
<1>f. /\ DOMAIN f = K
      /\ \A i \in K : f[i] = (IF all[i].name = c THEN all[i].delta ELSE 0) /\ f[i] \in Nat
  BY <1>3, <1>4, <1>5, DeltaFacts
<1>g. /\ DOMAIN g = I /\ IsFiniteSet(I)
      /\ \A i \in I : g[i] = (IF new[i].name = c THEN new[i].delta ELSE 0) /\ g[i] \in Nat
  BY <1>2, <1>4, <1>5, DeltaFacts
<1>h. /\ DOMAIN h = J /\ IsFiniteSet(J)
      /\ \A i \in J : h[i] = (IF events[i].name = c THEN events[i].delta ELSE 0) /\ h[i] \in Nat
  BY <1>2, <1>4, <1>5, DeltaFacts
<1>6. \A i \in I : f[i] = g[i]
  <2>1. \A i \in I : i \in K /\ all[i] = new[i]
    BY <1>2, <1>3, <1>5
  <2> QED  BY <1>f, <1>g, <2>1
<1>7. \A i \in J : f[i + n] = h[i]
  <2>1. ASSUME NEW i \in J PROVE i + n \in K /\ all[i + n] = events[i]
    <3>1. i + n \in 1 .. n + m /\ ~(i + n <= n) /\ (i + n) - n = i
      BY <1>2, <1>5
    <3>2. all[i + n] = events[(i + n) - n]
      BY <1>3, <3>1
    <3> QED  BY <1>5, <3>1, <3>2
  <2> QED  BY <1>f, <1>h, <2>1
<1>8. SumFunctionOnSet(f, K) = SumFunctionOnSet(g, I) + SumFunctionOnSet(h, J)
  <2>1. SumFunctionOnSet(f, I) = SumFunctionOnSet(g, I)
    BY <1>6, <1>g, SumSame
  <2>3. PICK shift : \A i \in J : shift[i] = i + n
    <3>1. \A i \in J : [j \in J |-> j + n][i] = i + n
      OBVIOUS
    <3> QED  BY <3>1
  <2>2. PICK T : T = {shift[i] : i \in J}
    OBVIOUS
  <2>4. SumFunctionOnSet(h, J) = SumFunctionOnSet(f, T)
    <3>1. \A i, k \in J : shift[i] = shift[k] => i = k
      BY <1>2, <1>5, <2>3
    <3>2. \A i \in J : h[i] = f[shift[i]] /\ h[i] \in Nat
      BY <1>7, <1>h, <2>3
    <3>3. IsFiniteSet(J)
      BY <1>h
    <3> QED  BY ONLY <2>2, <3>1, <3>2, <3>3, SumMoved
  <2>5. \A k : k \in T <=> \E i \in J : k = i + n
    BY <2>2, <2>3
  <2>6. \A k : k \in T <=> k \in n + 1 .. n + m
    <3>1. \A k : k \in n + 1 .. n + m => k - n \in J /\ k = (k - n) + n
      BY <1>2, <1>5
    <3>2. \A i \in J : i + n \in n + 1 .. n + m
      BY <1>2, <1>5
    <3> QED  BY <2>5, <3>1, <3>2
  <2>7. IsFiniteSet(T)
    <3>1. PICK a, b : a = n + 1 /\ b = n + m /\ a \in Int /\ b \in Int
      BY <1>2
    <3>2. IsFiniteSet(a .. b)
      BY <3>1, FS_Interval
    <3>3. T = a .. b
      BY <2>6, <3>1
    <3> QED  BY <3>2, <3>3
  <2>8. \A i : i \in K <=> i \in I \cup T
    BY <1>2, <1>5, <2>6
  <2>9. K = I \cup T
    BY <2>8
  <2>10. I \cap T = {}
    BY <1>2, <1>5, <2>6
  <2>11. SumFunctionOnSet(f, I \cup T) = SumFunctionOnSet(f, I) + SumFunctionOnSet(f, T)
    BY <1>f, <1>g, <2>7, <2>9, <2>10, SumUnion
  <2> QED  BY <2>1, <2>2, <2>4, <2>9, <2>11
<1>9. /\ Total(all, c) = SumFunctionOnSet(f, K)
       /\ Total(new, c) = SumFunctionOnSet(g, I)
       /\ Total(events, c) = SumFunctionOnSet(h, J)
  BY <1>4, <1>f, <1>g, <1>h DEF Total, SumFunction
<1>10. Total(new, c) \in Nat /\ Total(events, c) \in Nat
  BY <1>9, <1>g, <1>h, SumInNat
<1> QED  BY <1>1, <1>8, <1>9, <1>10

Grew(prev, s) == {c \in Counters : s.counters[c] > prev.counters[c]}

EntryOf(prev, s, c) ==
  [t |-> s.t, name |-> c, delta |-> s.counters[c] - prev.counters[c]]

NewEntries(prev, s) == {EntryOf(prev, s, c) : c \in Grew(prev, s)}

LEMMA NewEntriesFacts ==
  ASSUME NEW prev, prev.counters \in AllValues, NEW s, s.counters \in AllValues, s.t \in Nat
  PROVE  /\ IsFiniteSet(NewEntries(prev, s))
         /\ NewEntries(prev, s) \in SUBSET AnyEntry
         /\ \A c \in Grew(prev, s) :
              /\ EntryOf(prev, s, c) \in NewEntries(prev, s)
              /\ EntryOf(prev, s, c).name = c
              /\ EntryOf(prev, s, c).delta = s.counters[c] - prev.counters[c]
              /\ EntryOf(prev, s, c).delta \in Nat \ {0}
         /\ \A e \in NewEntries(prev, s) : \E c \in Grew(prev, s) : e = EntryOf(prev, s, c)
<1>1. PICK G, E : G = Grew(prev, s) /\ E = NewEntries(prev, s)
  OBVIOUS
<1>2. IsFiniteSet(G)
  <2>1. G \in SUBSET Counters
    BY <1>1 DEF Grew
  <2> QED  BY <2>1, FS_Subset, TelemetryAssumption
<1>3. IsFiniteSet(E)
  <2>1. [c \in G |-> EntryOf(prev, s, c)] \in Surjection(G, E)
    BY <1>1 DEF Surjection, NewEntries
  <2> QED  BY <1>2, <2>1, FS_Surjection
<1>4. ASSUME NEW c \in Grew(prev, s)
      PROVE  /\ EntryOf(prev, s, c).name = c
             /\ EntryOf(prev, s, c).delta = s.counters[c] - prev.counters[c]
             /\ EntryOf(prev, s, c).delta \in Nat \ {0}
             /\ EntryOf(prev, s, c) \in AnyEntry
  <2>1. c \in Counters /\ s.counters[c] \in Nat /\ prev.counters[c] \in Nat
        /\ s.counters[c] > prev.counters[c]
    BY DEF Grew, AllValues
  <2>2. s.counters[c] - prev.counters[c] \in Nat \ {0}
    BY <2>1
  <2> QED  BY <2>1, <2>2 DEF EntryOf, AnyEntry
<1> QED  BY <1>1, <1>3, <1>4 DEF NewEntries

(* The entries made of two polls add up to what each counter grew by.       *)
LEMMA TotalOfNew ==
  ASSUME NEW prev, prev.counters \in AllValues, NEW s, s.counters \in AllValues, s.t \in Nat,
         NEW q, q = SetToSeq(NewEntries(prev, s)), NEW c \in Counters
  PROVE  Total(q, c) = IF c \in Grew(prev, s) THEN s.counters[c] - prev.counters[c] ELSE 0
<1>1. PICK E : E = NewEntries(prev, s)
  OBVIOUS
<1>2. IsFiniteSet(E) /\ E \in SUBSET AnyEntry
  BY <1>1, NewEntriesFacts
<1>3. q \in Seq(E) /\ IsInjective(q) /\ \A x \in E : \E i \in DOMAIN q : q[i] = x
  BY <1>1, <1>2, SetAsSeq
<1>4. q \in Seq(AnyEntry)
  BY <1>2, <1>3, SeqMonotonic
<1>5. PICK I, f : I = 1 .. Len(q) /\ f = DeltasOf(q, c)
  OBVIOUS
<1>6. /\ DOMAIN f = I /\ IsFiniteSet(I) /\ DOMAIN q = I
      /\ \A i \in I : f[i] = (IF q[i].name = c THEN q[i].delta ELSE 0) /\ f[i] \in Nat
  BY <1>4, <1>5, DeltaFacts, LenProperties
<1>7. Total(q, c) = SumFunctionOnSet(f, I)
  BY <1>5, <1>6 DEF Total, SumFunction
<1>8. \A i \in I : q[i] \in E
  BY <1>3, <1>5, ElementOfSeq
<1>9. \A i \in I : \E d \in Grew(prev, s) : q[i] = EntryOf(prev, s, d) /\ q[i].name = d
  BY <1>1, <1>8, NewEntriesFacts
<1>10. CASE c \notin Grew(prev, s)
  <2>1. \A i \in I : f[i] = 0
    BY <1>6, <1>9, <1>10
  <2>2. SumFunctionOnSet(f, I) = 0
    BY <1>6, <2>1, SumOfZeros
  <2> QED  BY <1>7, <1>10, <2>2
<1>11. CASE c \in Grew(prev, s)
  <2>1. PICK i \in I : q[i] = EntryOf(prev, s, c)
    <3>1. EntryOf(prev, s, c) \in E
      BY <1>1, <1>11, NewEntriesFacts
    <3> QED  BY <1>3, <1>6, <3>1
  <2>2. f[i] = s.counters[c] - prev.counters[c] /\ f[i] \in Nat
    <3>1. /\ EntryOf(prev, s, c).name = c
          /\ EntryOf(prev, s, c).delta = s.counters[c] - prev.counters[c]
      BY <1>11, NewEntriesFacts
    <3> QED  BY <1>6, <2>1, <3>1
  <2>3. \A j \in I : j # i => f[j] = 0
    <3>1. ASSUME NEW j \in I, j # i, f[j] # 0 PROVE FALSE
      <4>1. q[j].name = c
        BY <1>6, <3>1
      <4>2. q[j] = EntryOf(prev, s, c)
        BY <1>9, <4>1
      <4>3. q[j] = q[i]
        BY <2>1, <4>2
      <4> QED  BY <1>3, <1>6, <3>1, <4>3 DEF IsInjective
    <3> QED  BY <3>1
  <2>4. SumFunctionOnSet(f, I) = f[i]
    BY <1>6, <2>2, <2>3, SumOfOne
  <2> QED  BY <1>7, <1>11, <2>2, <2>4
<1> QED  BY <1>10, <1>11

(* What is put before the feed when a sample follows another one: a feed    *)
(* that is not full afterwards has lost nothing.                            *)
LEMMA FeedGrows ==
  ASSUME NEW samples, samples # <<>>, NEW prev, prev = Last(samples),
         prev.counters \in AllValues, NEW s, s.counters \in AllValues, s.t \in Nat,
         NEW events \in Seq(AnyEntry), NEW out, out = EventsFrom(samples, s, events)
  PROVE  /\ out \in Seq(AnyEntry) /\ Len(out) <= MaxEvents
         /\ \A i \in DOMAIN out :
              out[i] \in NewEntries(prev, s) \/ \E j \in DOMAIN events : out[i] = events[j]
         /\ Len(out) < MaxEvents =>
              /\ Len(events) < MaxEvents
              /\ \A c \in Counters :
                   Total(out, c) = Total(events, c)
                     + (IF c \in Grew(prev, s) THEN s.counters[c] - prev.counters[c] ELSE 0)
<1>1. PICK E, q : E = NewEntries(prev, s) /\ q = SetToSeq(E)
  OBVIOUS
<1>2. out = Kept(q \o events, MaxEvents)
  BY <1>1 DEF EventsFrom, NewEntries, EntryOf, Grew
<1>3. IsFiniteSet(E) /\ E \in SUBSET AnyEntry
  BY <1>1, NewEntriesFacts
<1>4. q \in Seq(E) /\ q \in Seq(AnyEntry)
  <2>1. q \in Seq(E)
    BY <1>1, <1>3, SetAsSeq
  <2> QED  BY <1>3, <2>1, SeqMonotonic
<1>5. PICK all, n, m : all = q \o events /\ n = Len(q) /\ m = Len(events)
  OBVIOUS
<1>6. n \in Nat /\ m \in Nat /\ MaxEvents \in Nat \ {0}
  BY <1>4, <1>5, LenProperties, TelemetryAssumption
<1>7. /\ all \in Seq(AnyEntry) /\ Len(all) = n + m
      /\ \A i \in 1 .. n + m : all[i] = IF i <= n THEN q[i] ELSE events[i - n]
  BY <1>4, <1>5, <1>6, ConcatProperties
<1>8. \A i \in 1 .. n + m : all[i] \in E \/ \E j \in DOMAIN events : all[i] = events[j]
  <2>1. DOMAIN events = 1 .. m /\ \A i \in 1 .. n : q[i] \in E
    BY <1>4, <1>5, LenProperties, ElementOfSeq
  <2>2. \A i \in 1 .. n + m : (i <= n => i \in 1 .. n) /\ (~(i <= n) => i - n \in 1 .. m)
    BY <1>6
  <2> QED  BY <1>7, <2>1, <2>2
<1>9. PICK k : k = (IF n + m < MaxEvents THEN n + m ELSE MaxEvents)
  OBVIOUS
<1>10. k \in Nat /\ k <= n + m /\ k <= MaxEvents
  BY <1>6, <1>9
<1>11. out = SubSeq(all, 1, k)
  BY <1>2, <1>5, <1>7, <1>9 DEF Kept
<1>12. /\ out \in Seq(AnyEntry) /\ Len(out) = k
       /\ \A i \in 1 .. k : out[i] = all[i] /\ i \in 1 .. n + m
  <2>1. k \in 0 .. Len(all)
    BY <1>6, <1>7, <1>10
  <2>2. \A i \in 1 .. k : i \in 1 .. n + m /\ 1 + i - 1 = i
    BY <1>6, <1>10
  <2>3. /\ out \in Seq(AnyEntry)
        /\ Len(out) = IF 1 <= k THEN k - 1 + 1 ELSE 0
        /\ \A i \in 1 .. k - 1 + 1 : out[i] = all[1 + i - 1]
    BY <1>6, <1>7, <1>11, <2>1, SubSeqProperties
  <2> QED  BY <1>10, <2>2, <2>3
<1>13. \A i \in DOMAIN out : out[i] \in E \/ \E j \in DOMAIN events : out[i] = events[j]
  <2>1. DOMAIN out = 1 .. k
    BY <1>12, LenProperties
  <2> QED  BY <1>8, <1>12, <2>1
<1>14. ASSUME Len(out) < MaxEvents
       PROVE  /\ Len(events) < MaxEvents
              /\ \A c \in Counters :
                   Total(out, c) = Total(events, c)
                     + (IF c \in Grew(prev, s) THEN s.counters[c] - prev.counters[c] ELSE 0)
  <2>1. k = n + m /\ m < MaxEvents
    BY <1>6, <1>9, <1>12, <1>14
  <2>2. out = all
    BY <1>6, <1>7, <1>12, <2>1, SeqEqual
  <2>3. ASSUME NEW c \in Counters
        PROVE  Total(out, c) = Total(events, c)
                 + (IF c \in Grew(prev, s) THEN s.counters[c] - prev.counters[c] ELSE 0)
    <3>1. Total(all, c) = Total(q, c) + Total(events, c) /\ Total(q, c) \in Nat
          /\ Total(events, c) \in Nat
      BY <1>4, <1>5, TotalOfBoth
    <3>2. Total(q, c) = IF c \in Grew(prev, s) THEN s.counters[c] - prev.counters[c] ELSE 0
      BY <1>1, TotalOfNew
    <3> QED  BY <2>2, <3>1, <3>2
  <2> QED  BY <1>5, <2>1, <2>3
<1> QED  BY <1>1, <1>10, <1>12, <1>13, <1>14

(* What a feed that is not full says of a ring that is not full.            *)
Accounted(samples, events) ==
  samples # <<>> /\ Len(samples) < MaxSamples /\ Len(events) < MaxEvents =>
    \A c \in Counters :
      Total(events, c) = Last(samples).counters[c] - Head(samples).counters[c]

(* The feed is made of entries.  It starts with the ring, and while the     *)
(* banner says that a new baseline is collected there is no ring.           *)
FeedInv ==
  /\ state.events \in Seq(AnyEntry) /\ Len(state.events) <= MaxEvents
  /\ state.mode = "live" =>
       /\ state.samples = <<>> => state.events = <<>>
       /\ state.baselineReset => state.samples = <<>>
       /\ sound => Accounted(state.samples, state.events)

LEMMA PolledFeed ==
  ASSUME NEW s, DOMAIN s = StateFields, NEW health, NEW tables, NEW failure, NEW at
  PROVE  LET n == [s EXCEPT !.health = health, !.tables = tables, !.lastError = failure,
                            !.lastSuccessAt = at, !.ticked = TRUE]
         IN  /\ n.samples = s.samples /\ n.events = s.events
             /\ n.baselineReset = s.baselineReset
BY DEF StateFields

(* What a poll that has its statistics makes of the feed.                   *)
LEMMA CommitFeed ==
  ASSUME StoreTypes, NEW f \in flights, NEW health, NEW latencyFails \in BOOLEAN,
         EndTick(f, health, latencyFails), f.stats # Failed
  PROVE  \/ /\ state'.samples = state.samples /\ state'.events = state.events
            /\ state'.baselineReset = state.baselineReset
            /\ sound' => (sound \/ state.samples = <<>>)
         \/ state'.samples = <<>> /\ state'.events = <<>>
         \/ \E s \in AnySample :
              /\ prevRaw # None /\ prevRaw \in AnyPoll /\ s = SampleOf(Poll(f))
              /\ state'.samples = Pushed(state.samples, s)
              /\ state'.events = EventsFrom(state.samples, s, state.events)
              /\ state'.baselineReset = FALSE
              /\ sound' => sound /\ f.counters.st = "ok" /\ s.counters = f.counters.val
<1>1. Commit(f, health, latencyFails \/ f.counters = Failed) /\ DOMAIN state = StateFields
      /\ state.samples \in Seq(AnySample)
  BY DEF EndTick, StoreTypes, StateTypes
<1>2. /\ Poll(f) \in AnyPoll
      /\ sound' => f.counters.st = "ok"
      /\ f.counters.st = "ok" => Poll(f).counters = f.counters.val
  BY CommitFacts DEF Poll
<1>3. PICK next :
        /\ next = (IF prevRaw = None THEN NoBaseline(state)
                   ELSE IF Restarted(Poll(f)) THEN ClearedBaseline(state)
                   ELSE Extended(state, Poll(f)))
        /\ state' = [next EXCEPT !.health = health, !.tables = f.gen,
                                 !.lastError = (latencyFails \/ f.counters = Failed),
                                 !.lastSuccessAt = f.t, !.ticked = TRUE]
        /\ sound' => (sound \/ next.samples = <<>>)
  BY <1>1 DEF Commit
<1>4. ASSUME DOMAIN next = StateFields
      PROVE  /\ state'.samples = next.samples /\ state'.events = next.events
             /\ state'.baselineReset = next.baselineReset
  BY <1>3, <1>4, PolledFeed
<1>5. CASE prevRaw = None
  BY <1>1, <1>3, <1>4, <1>5 DEF NoBaseline
<1>6. CASE prevRaw # None /\ Restarted(Poll(f))
  <2>1. /\ DOMAIN next = StateFields /\ next.samples = <<>> /\ next.events = <<>>
    BY <1>1, <1>3, <1>6 DEF ClearedBaseline, StateFields
  <2> QED  BY <1>4, <2>1
<1>7. CASE prevRaw # None /\ ~Restarted(Poll(f))
  <2>1. prevRaw \in AnyPoll /\ \E s \in AnySample : s = SampleOf(Poll(f))
    BY <1>2, <1>7, SampleIsSample DEF StoreTypes, PollTypes
  <2>2. PICK s \in AnySample : s = SampleOf(Poll(f))
    BY <2>1
  <2>3. next = Extended(state, Poll(f))
    BY <1>3, <1>7
  <2>4. /\ DOMAIN next = StateFields
        /\ next.samples = Pushed(state.samples, s)
        /\ next.events = EventsFrom(state.samples, s, state.events)
        /\ next.baselineReset = FALSE
    BY <1>1, <2>2, <2>3 DEF Extended, StateFields
  <2>5. next.samples # <<>>
    BY <1>1, <2>4, PushedFacts
  <2>6. s.counters = Poll(f).counters
    BY <2>2 DEF SampleOf
  <2> QED  BY <1>2, <1>3, <1>4, <1>7, <2>1, <2>2, <2>4, <2>5, <2>6
<1> QED  BY <1>5, <1>6, <1>7

(* A sample that is added to a ring that is not full, and its entries.      *)
LEMMA AddedIsAccounted ==
  ASSUME NEW samples \in Seq(AnySample), NEW s \in AnySample, NEW events \in Seq(AnyEntry),
         samples # <<>> => AtMost(Last(samples).counters, s.counters),
         samples = <<>> => events = <<>>,
         Accounted(samples, events),
         NEW out, out = EventsFrom(samples, s, events)
  PROVE  Accounted(Pushed(samples, s), out)
<1>1. PICK ring : ring = Pushed(samples, s)
  OBVIOUS
<1> SUFFICES ASSUME Len(ring) < MaxSamples, Len(out) < MaxEvents, NEW c \in Counters
             PROVE  Total(out, c) = Last(ring).counters[c] - Head(ring).counters[c]
  BY <1>1 DEF Accounted
<1>2. PICK n \in Nat : n = Len(samples) /\ DOMAIN samples = 1 .. n
  BY LenProperties
<1>3. MaxSamples \in Nat \ {0}
  BY TelemetryAssumption
<1>4. /\ ring \in Seq(AnySample) /\ Len(ring) = n + 1
      /\ ring[n + 1] = s /\ \A i \in 1 .. n : ring[i] = samples[i]
  <2>1. ring \in Seq(AnySample)
    BY <1>1, PushedFacts
  <2>2. n < MaxSamples
    <3>1. SUFFICES ASSUME ~(n < MaxSamples) PROVE FALSE
      OBVIOUS
    <3>2. samples # <<>> /\ ring = Append(Tail(samples), s)
      BY <1>1, <1>2, <1>3, <3>1 DEF Pushed
    <3>3. PICK rest \in Seq(AnySample) : rest = Tail(samples) /\ Len(rest) = n - 1
      BY <1>2, <3>2, HeadTailProperties
    <3>4. Len(ring) = n - 1 + 1
      BY <3>2, <3>3
    <3> QED  BY <1>2, <1>3, <3>1, <3>4
  <2>3. ring = Append(samples, s)
    BY <1>1, <1>2, <2>2 DEF Pushed
  <2> QED  BY <1>2, <2>1, <2>3
<1>5. Last(ring) = s /\ Head(ring) = ring[1]
  BY <1>2, <1>4 DEF Last
<1>6. s.counters \in AllValues /\ s.t \in Nat /\ s.counters[c] \in Nat
  BY DEF AnySample, AllValues
<1>7. CASE samples = <<>>
  <2>1. n = 0 /\ out = <<>>
    BY <1>2, <1>7 DEF EventsFrom
  <2>2. Head(ring) = s
    BY <1>4, <1>5, <2>1
  <2> QED  BY <1>5, <1>6, <2>1, <2>2, TotalOfNone
<1>8. CASE samples # <<>>
  <2>1. PICK prev \in AnySample : prev = Last(samples)
    BY <1>8, LastOfSamples
  <2>2. prev.counters \in AllValues /\ prev.counters[c] \in Nat
    BY DEF AnySample, AllValues
  <2>3. /\ Len(events) < MaxEvents
        /\ Total(out, c) = Total(events, c)
             + (IF c \in Grew(prev, s) THEN s.counters[c] - prev.counters[c] ELSE 0)
    BY <1>6, <1>8, <2>1, <2>2, FeedGrows
  <2>4. n # 0 /\ n < MaxSamples
    BY <1>2, <1>3, <1>4, <1>8, EmptySeq
  <2>5. Total(events, c) = prev.counters[c] - Head(samples).counters[c]
    BY <1>2, <1>8, <2>1, <2>3, <2>4 DEF Accounted
  <2>6. Head(ring) = Head(samples) /\ Head(samples).counters[c] \in Nat
    <3>1. 1 \in 1 .. n /\ Head(samples) = samples[1] /\ samples[1] \in AnySample
      BY <1>2, <2>4, ElementOfSeq
    <3>2. samples[1].counters \in AllValues
      BY <3>1 DEF AnySample
    <3> QED  BY <1>4, <1>5, <3>1, <3>2 DEF AllValues
  <2>7. prev.counters[c] <= s.counters[c]
    BY <1>8, <2>1 DEF AtMost
  <2>8. (IF c \in Grew(prev, s) THEN s.counters[c] - prev.counters[c] ELSE 0)
          = s.counters[c] - prev.counters[c]
    BY <1>6, <2>2, <2>7 DEF Grew
  <2> QED  BY <1>5, <1>6, <2>2, <2>3, <2>5, <2>6, <2>8
<1> QED  BY <1>7, <1>8

LEMMA StartedFeed ==
  ASSUME NEW mode \in Modes, NEW g
  PROVE  Started(mode, g).events = <<>> /\ Started(mode, g).baselineReset = FALSE
BY DEF Started, Empty, Modes

LEMMA MockFeed ==
  ASSUME StoreTypes, NEW x \in timeouts, TickMock(x)
  PROVE  \E s \in AnySample : /\ s = MockSample(Last(state.samples))
                              /\ state'.samples = Pushed(state.samples, s)
                              /\ state'.events = EventsFrom(state.samples, s, state.events)
<1>1. PICK s : s = MockSample(Last(state.samples))
  OBVIOUS
<1>2. s \in AnySample
  BY <1>1, MockIsSample DEF TickMock
<1>3. DOMAIN state = StateFields
  BY DEF StoreTypes, StateTypes
<1>4. state' = [state EXCEPT !.samples = Pushed(@, s),
                             !.events = EventsFrom(state.samples, s, @),
                             !.lastSuccessAt = now, !.ticked = TRUE]
  BY <1>1 DEF TickMock
<1>5. /\ state'.samples = Pushed(state.samples, s)
      /\ state'.events = EventsFrom(state.samples, s, state.events)
  BY <1>3, <1>4 DEF StateFields
<1> QED  BY <1>1, <1>2, <1>5

LEMMA FailureFeed ==
  ASSUME StoreTypes, NEW f \in flights, NEW health, NEW latencyFails,
         EndTick(f, health, latencyFails), f.stats = Failed
  PROVE  state'.events = state.events /\ state'.baselineReset = state.baselineReset
BY DEF EndTick, NoStatistics, StoreTypes, StateTypes, StateFields

(* The feed changes where what the pages read changes, and nowhere else.    *)
SameFeed ==
  /\ state'.mode = state.mode /\ state'.samples = state.samples /\ state'.events = state.events
  /\ state'.baselineReset = state.baselineReset
  /\ sound' => sound

LEMMA FeedMoves ==
  ASSUME StoreTypes, [Next]_vars
  PROVE  \/ SameFeed
         \/ \E mode \in Modes : Switch(mode)
         \/ \E x \in timeouts : TickMock(x)
         \/ \E f \in flights, report \in Reports : EndTick(f, report[1], report[2])
<1>1. ASSUME sound' => sound,
             state' = state \/ \E value : state' = [state EXCEPT !.paused = value]
      PROVE  SameFeed
  BY <1>1 DEF SameFeed, StoreTypes, StateTypes, StateFields
<1>2. ASSUME NEW x \in timeouts, Drop(x) \/ TickPaused(x) \/ TickLive(x) PROVE SameFeed
  BY <1>1, <1>2 DEF Drop, TickPaused, TickLive, poller, history
<1>3. ASSUME NEW f \in flights, ServeStats(f) \/ ServeCounters(f) \/ RequestFails(f) \/ EndStale(f)
      PROVE  SameFeed
  BY <1>1, <1>3 DEF ServeStats, ServeCounters, RequestFails, Answered, EndStale, poller, history
<1>4. CASE Hide \/ Show
  BY <1>1, <1>4 DEF Hide, Show
<1>5. CASE \/ \E ms \in Polls : SetPollInterval(ms)
           \/ \E p \in Procs : CallProcedure(p)
           \/ \E c \in Counters : Reject(c)
           \/ RestartCluster \/ Advance \/ UNCHANGED vars
  BY <1>1, <1>5
  DEF SetPollInterval, CallProcedure, Reject, RestartCluster, Advance, vars, poller, history
<1> QED  BY <1>2, <1>3, <1>4, <1>5 DEF Next, Fire

LEMMA InitFeed == Init => FeedInv
<1> SUFFICES ASSUME Init PROVE FeedInv
  OBVIOUS
<1>1. PICK mode \in Modes : now = 0 /\ state = Started(mode, 1)
  BY DEF Init
<1>2. state.events = <<>> /\ state.mode = mode /\ (mode = "live" => state.samples = <<>>)
      /\ (mode = "live" => state.baselineReset = FALSE)
  BY <1>1, StartedFeed, StartedFields DEF Modes
<1>3. <<>> \in Seq(AnyEntry) /\ Len(<<>>) = 0 /\ 0 <= MaxEvents
  BY TelemetryAssumption
<1> QED  BY <1>2, <1>3 DEF FeedInv, Accounted

LEMMA StepFeed ==
  ASSUME StoreInv, SoundInv, FeedInv, [Next]_vars
  PROVE  FeedInv'
<1>1. /\ StoreTypes /\ ProviderInv /\ state.samples \in Seq(AnySample)
      /\ state.events \in Seq(AnyEntry) /\ Len(state.events) <= MaxEvents
      /\ <<>> \in Seq(AnyEntry) /\ Len(<<>>) = 0 /\ 0 <= MaxEvents
  BY TelemetryAssumption DEF StoreInv, StoreTypes, StateTypes, FeedInv
<1>2. ASSUME state'.samples = state.samples, state'.events = state.events,
             state'.mode = state.mode, state'.baselineReset = state.baselineReset,
             sound' => sound \/ state.samples = <<>>
      PROVE  FeedInv'
  BY <1>1, <1>2 DEF FeedInv, Accounted
<1>3. ASSUME state'.samples = <<>>, state'.events = <<>>
      PROVE  FeedInv'
  BY <1>1, <1>3 DEF FeedInv, Accounted
<1>4. ASSUME NEW mode \in Modes, Switch(mode) PROVE FeedInv'
  <2>1. PICK g \in Nat : now \in Nat /\ state' = Started(mode, g)
    BY <1>1, <1>4 DEF Switch, StoreTypes, ClockTypes
  <2>2. /\ state'.events = <<>> /\ state'.mode = mode
        /\ mode = "live" => state'.samples = <<>>
    BY <2>1, StartedFeed, StartedFields DEF Modes
  <2> QED  BY <1>1, <1>3, <2>2 DEF FeedInv
<1>5. ASSUME NEW s \in AnySample, NEW out, out = EventsFrom(state.samples, s, state.events)
      PROVE  out \in Seq(AnyEntry) /\ Len(out) <= MaxEvents
  <2>1. CASE state.samples = <<>>
    BY <1>1, <1>5, <2>1 DEF EventsFrom
  <2>2. CASE state.samples # <<>>
    <3>1. PICK prev \in AnySample : prev = Last(state.samples)
      BY <1>1, <2>2, LastOfSamples
    <3>2. prev.counters \in AllValues /\ s.counters \in AllValues /\ s.t \in Nat
      BY DEF AnySample
    <3> QED  BY <1>1, <1>5, <2>2, <3>1, <3>2, FeedGrows
  <2> QED  BY <2>1, <2>2
<1>6. ASSUME NEW x \in timeouts, TickMock(x) PROVE FeedInv'
  <2>1. PICK s \in AnySample : state'.events = EventsFrom(state.samples, s, state.events)
    BY <1>1, <1>6, MockFeed
  <2>2. state'.mode = "mock"
    BY <1>1, <1>6, MockFacts
  <2> QED  BY <1>5, <2>1, <2>2 DEF FeedInv
<1>7. ASSUME NEW f \in flights, NEW report \in Reports, EndTick(f, report[1], report[2])
      PROVE  FeedInv'
  <2>1. CASE f.stats = Failed
    <3>1. /\ sound' = sound /\ state'.samples = state.samples /\ state'.mode = state.mode
      BY <1>1, <1>7, <2>1, FailureFacts
    <3>2. state'.events = state.events /\ state'.baselineReset = state.baselineReset
      BY <1>1, <1>7, <2>1, FailureFeed
    <3> QED  BY <1>2, <3>1, <3>2
  <2>2. CASE f.stats # Failed
    <3>1. state'.mode = state.mode /\ state.mode = "live"
      BY <1>1, <1>7, <2>2, CommitFacts, ReportsAreBoolean DEF EndTick, IsStale, ProviderInv
    <3>2. ASSUME NEW s \in AnySample,
                 state'.samples = Pushed(state.samples, s),
                 state'.events = EventsFrom(state.samples, s, state.events),
                 state'.baselineReset = FALSE,
                 sound' => sound /\ f.counters.st = "ok" /\ s.counters = f.counters.val
          PROVE  FeedInv'
      <4>1. state'.events \in Seq(AnyEntry) /\ Len(state'.events) <= MaxEvents
        BY <1>5, <3>2
      <4>2. state'.samples # <<>>
        BY <1>1, <3>2, PushedFacts
      <4>3. ASSUME sound' PROVE Accounted(state'.samples, state'.events)
        <5>1. Accounted(state.samples, state.events)
              /\ (state.samples = <<>> => state.events = <<>>)
          BY <3>1, <3>2, <4>3 DEF FeedInv
        <5>2. state.samples # <<>> => AtMost(Last(state.samples).counters, s.counters)
          <6>1. f \in InFlight(generation)
            BY <1>7 DEF EndTick, IsStale, InFlight
          <6> QED  BY <3>1, <3>2, <4>3, <6>1 DEF SoundInv
        <5> QED  BY <1>1, <3>2, <5>1, <5>2, AddedIsAccounted
      <4> QED  BY <3>2, <4>1, <4>2, <4>3 DEF FeedInv
    <3>3. \/ /\ state'.samples = state.samples /\ state'.events = state.events
             /\ state'.baselineReset = state.baselineReset
             /\ sound' => (sound \/ state.samples = <<>>)
          \/ state'.samples = <<>> /\ state'.events = <<>>
          \/ \E s \in AnySample :
               /\ state'.samples = Pushed(state.samples, s)
               /\ state'.events = EventsFrom(state.samples, s, state.events)
               /\ state'.baselineReset = FALSE
               /\ sound' => sound /\ f.counters.st = "ok" /\ s.counters = f.counters.val
      BY <1>1, <1>7, <2>2, CommitFeed, ReportsAreBoolean
    <3> QED  BY <1>2, <1>3, <3>1, <3>2, <3>3
  <2> QED  BY <2>1, <2>2
<1>8. CASE SameFeed
  BY <1>2, <1>8 DEF SameFeed
<1> QED  BY <1>1, <1>4, <1>6, <1>7, <1>8, FeedMoves

(* The feed accounts for the counters between the first sample and the last *)
(* (eventsFrom, telemetry.ts), and a reset that is announced has left       *)
(* nothing of before it.                                                    *)
THEOREM FeedsAccountForCounters == Spec => []EventsAccountForCounters
<1>1. StoreInv /\ SoundInv /\ FeedInv => EventsAccountForCounters
  <2> SUFFICES ASSUME StoreInv, FeedInv PROVE EventsAccountForCounters
    OBVIOUS
  <2>1. \A c : FeedTotal(c) = Total(state.events, c)
    BY DEF FeedTotal, Total
  <2>2. "reset" \in Banners => state.mode = "live" /\ state.baselineReset
    <3> SUFFICES ASSUME "reset" \in Banners PROVE state.mode = "live" /\ state.baselineReset
      OBVIOUS
    <3>1. state.mode \in {"mock", "live"}
      BY DEF StoreInv, StoreTypes, StateTypes, Modes
    <3>2. state.mode # "mock"
      BY DEF Banners
    <3>3. "reset" \notin (IF Unreachable THEN {"unreachable"} ELSE {})
      OBVIOUS
    <3>4. Banners = (IF state.baselineReset THEN {"reset"} ELSE {})
                      \cup (IF Unreachable THEN {"unreachable"} ELSE {})
      BY <3>2, Zenon DEF Banners
    <3>5. CASE ~state.baselineReset
      BY <3>3, <3>4, <3>5, Zenon
    <3> QED  BY <3>1, <3>2, <3>5, Zenon
  <2> QED  BY <2>1, <2>2 DEF EventsAccountForCounters, FeedInv, Accounted
<1>2. Init => StoreInv /\ SoundInv /\ FeedInv
  BY InitStore, InitSpans, InitFeed
<1>3. StoreInv /\ SoundInv /\ FeedInv /\ [Next]_vars => (StoreInv /\ SoundInv /\ FeedInv)'
  BY StepStore, StepSound, StepFeed
<1> QED  BY <1>1, <1>2, <1>3, PTL DEF Spec
----------------------------------------------------------------------------
(* Limits *)

(* The clock stops at MaxTime, and every start of a provider but the first  *)
(* is a trouble.                                                            *)
ClockLimits ==
  now <= MaxTime /\ troubles \in Nat /\ generation \in Gens /\ generation <= troubles + 1

PageTypes ==
  /\ hidden \in BOOLEAN /\ pollMs \in Polls
  /\ state.paused \in BOOLEAN /\ state.baselineReset \in BOOLEAN
  /\ state.health \in {None, "up", "down"}

(* What a cluster counts stays within MaxCount, wherever it was copied to:  *)
(* to the answers of a tick in flight, to the last poll, and as differences *)
(* to the samples and the entries of the feed.                              *)
LimitedCalls(inv) == \A p \in Procs : At(inv, p) <= MaxCount
LimitedPoll(raw)  == raw.t \in Instants /\ LimitedCalls(raw.inv) /\ raw.counters \in Values
LimitedFlight(f)  ==
  /\ f.t \in Instants
  /\ f.stats.st = "ok" => LimitedCalls(f.stats.inv)
  /\ f.counters.st = "ok" => f.counters.val \in Values
PollLimits ==
  /\ prevRaw # None => LimitedPoll(prevRaw)
  /\ \A f \in flights : LimitedFlight(f)
  /\ cluster.inv \in CallCounts /\ cluster.counters \in Values

LimitedSample(s) ==
  /\ s.t \in Instants /\ s.since \in Instants /\ s.counters \in Values
  /\ s.calls \in [Procs -> -MaxCount .. MaxCount]
RingLimits ==
  /\ \A i \in DOMAIN state.samples : LimitedSample(state.samples[i])
  /\ Len(state.samples) <= MaxSamples
  /\ \A i \in DOMAIN state.events : state.events[i] \in Entries
  /\ state.lastSuccessAt \in {None} \cup Instants

(* An id names one timeout, or one tick in flight.                          *)
OwnIds ==
  /\ \A x, y \in timeouts : x.id = y.id => x = y
  /\ \A f, g \in flights : f.id = g.id => f = g

LEMMA ConstantFacts ==
  /\ MaxTime \in Nat /\ MaxTroubles \in Nat /\ MaxCount \in Nat \ {0}
  /\ MaxSamples \in Nat \ {0} /\ MaxEvents \in Nat \ {0} /\ Polls \subseteq Nat \ {0}
BY TelemetryAssumption

LEMMA InitClock == Init => ClockLimits
BY ConstantFacts DEF Init, ClockLimits, Gens

LEMMA StepClock ==
  ASSUME StoreTypes, ClockLimits, [Next]_vars
  PROVE  ClockLimits'
<1> USE ConstantFacts DEF ClockLimits, StoreTypes, ClockTypes, Gens
<1>1. ASSUME now' = now, generation' = generation, troubles' = troubles \/ troubles' = troubles + 1
      PROVE  ClockLimits'
  BY <1>1
<1>2. ASSUME NEW mode \in Modes, Switch(mode) PROVE ClockLimits'
  <2>1. /\ now' = now /\ generation' = generation + 1
        /\ troubles < MaxTroubles /\ troubles' = troubles + 1
    BY <1>2 DEF Switch, Trouble
  <2> QED  BY <2>1
<1>3. CASE Advance
  BY <1>3 DEF Advance, poller, history
<1>4. ASSUME NEW x \in timeouts, Fire(x) PROVE ClockLimits'
  BY <1>1, <1>4 DEF Fire, Drop, TickPaused, TickMock, TickLive, poller, history
<1>5. ASSUME NEW f \in flights, ServeStats(f) \/ ServeCounters(f) \/ RequestFails(f) \/ EndStale(f)
      PROVE  ClockLimits'
  BY <1>1, <1>5
  DEF ServeStats, ServeCounters, RequestFails, Answered, EndStale, Trouble, poller, history
<1>6. ASSUME NEW f \in flights, NEW report \in Reports, EndTick(f, report[1], report[2])
      PROVE  ClockLimits'
  BY <1>1, <1>6 DEF EndTick, Trouble
<1>7. CASE \/ \E ms \in Polls : SetPollInterval(ms)
           \/ \E p \in Procs : CallProcedure(p)
           \/ \E c \in Counters : Reject(c)
           \/ Hide \/ Show \/ RestartCluster \/ UNCHANGED vars
  BY <1>1, <1>7
  DEF SetPollInterval, CallProcedure, Reject, Hide, Show, RestartCluster, Trouble, vars, poller,
      history
<1> QED  BY <1>2, <1>3, <1>4, <1>5, <1>6, <1>7 DEF Next

(* What is started, field by field.                                         *)
LEMMA StartedPage ==
  ASSUME NEW mode \in Modes, NEW g
  PROVE  /\ Started(mode, g).paused = FALSE /\ Started(mode, g).baselineReset = FALSE
         /\ Started(mode, g).health \in {None, "up", "down"}
BY DEF Started, Empty, Modes

LEMMA InitPage == Init => PageTypes
BY StartedPage DEF Init, PageTypes

(* A poll that has its statistics keeps the page as it is, and makes its    *)
(* own of the banner.                                                       *)
LEMMA CommitPage ==
  ASSUME StoreTypes, NEW f \in flights, NEW health, NEW latencyFails \in BOOLEAN,
         EndTick(f, health, latencyFails), f.stats # Failed
  PROVE  /\ state'.paused = state.paused
         /\ state'.baselineReset \in {state.baselineReset, FALSE, TRUE}
<1>1. Commit(f, health, latencyFails \/ f.counters = Failed) /\ DOMAIN state = StateFields
  BY DEF EndTick, StoreTypes, StateTypes
<1>2. PICK next :
        /\ next = (IF prevRaw = None THEN NoBaseline(state)
                   ELSE IF Restarted(Poll(f)) THEN ClearedBaseline(state)
                   ELSE Extended(state, Poll(f)))
        /\ state' = [next EXCEPT !.health = health, !.tables = f.gen,
                                 !.lastError = (latencyFails \/ f.counters = Failed),
                                 !.lastSuccessAt = f.t, !.ticked = TRUE]
  BY <1>1 DEF Commit
<1>3. /\ DOMAIN next = StateFields /\ next.paused = state.paused
      /\ next.baselineReset \in {state.baselineReset, FALSE, TRUE}
  BY <1>1, <1>2 DEF NoBaseline, ClearedBaseline, Extended, StateFields
<1>4. state'.paused = next.paused /\ state'.baselineReset = next.baselineReset
  BY <1>2, <1>3, PolledFields, PolledFeed
<1> QED  BY <1>3, <1>4

LEMMA StepPage ==
  ASSUME StoreTypes, PageTypes, [Next]_vars
  PROVE  PageTypes'
<1>f. DOMAIN state = StateFields
  BY DEF StoreTypes, StateTypes
<1>1. ASSUME hidden' = hidden, pollMs' = pollMs, state' = state PROVE PageTypes'
  BY <1>1 DEF PageTypes
<1>2. ASSUME NEW mode \in Modes, Switch(mode) PROVE PageTypes'
  <2>1. /\ hidden' = hidden /\ pollMs' = pollMs /\ state' = Started(mode, generation + 1)
    BY <1>2 DEF Switch
  <2> QED  BY <2>1, StartedPage DEF PageTypes
<1>3. ASSUME NEW ms \in Polls, SetPollInterval(ms) PROVE PageTypes'
  BY <1>3 DEF SetPollInterval, PageTypes
<1>4. CASE Hide \/ Show
  <2>1. PICK value \in BOOLEAN :
          state' = [state EXCEPT !.paused = value] /\ hidden' \in BOOLEAN /\ pollMs' = pollMs
    BY <1>4 DEF Hide, Show
  <2>2. /\ state'.paused = value /\ state'.baselineReset = state.baselineReset
        /\ state'.health = state.health
    BY <1>f, <2>1 DEF StateFields
  <2> QED  BY <2>1, <2>2 DEF PageTypes
<1>5. ASSUME NEW x \in timeouts, Fire(x) PROVE PageTypes'
  <2>1. CASE TickMock(x)
    <3>1. PICK samples, events :
            state' = [state EXCEPT !.samples = samples, !.events = events,
                                   !.lastSuccessAt = now, !.ticked = TRUE]
      BY <2>1 DEF TickMock
    <3>2. /\ state'.paused = state.paused /\ state'.baselineReset = state.baselineReset
          /\ state'.health = state.health
      BY <1>f, <3>1 DEF StateFields
    <3>3. hidden' = hidden /\ pollMs' = pollMs
      BY <2>1 DEF TickMock
    <3> QED  BY <3>2, <3>3 DEF PageTypes
  <2>2. CASE Drop(x) \/ TickPaused(x) \/ TickLive(x)
    BY <1>1, <2>2 DEF Drop, TickPaused, TickLive, poller
  <2> QED  BY <1>5, <2>1, <2>2 DEF Fire
<1>6. ASSUME NEW f \in flights, NEW report \in Reports, EndTick(f, report[1], report[2])
      PROVE  PageTypes'
  <2>1. hidden' = hidden /\ pollMs' = pollMs
    BY <1>6 DEF EndTick
  <2>2. report[2] \in BOOLEAN /\ report[1] \in {"up", "down"}
    BY ReportsAreBoolean
  <2>3. CASE f.stats = Failed
    <3>1. state' = [state EXCEPT !.health = report[1], !.lastError = TRUE, !.ticked = TRUE]
      BY <1>6, <2>3 DEF EndTick, NoStatistics
    <3>2. /\ state'.paused = state.paused /\ state'.baselineReset = state.baselineReset
          /\ state'.health = report[1]
      BY <1>f, <3>1 DEF StateFields
    <3> QED  BY <2>1, <2>2, <3>2 DEF PageTypes
  <2>4. CASE f.stats # Failed
    <3>1. /\ state'.paused = state.paused
          /\ state'.baselineReset \in {state.baselineReset, FALSE, TRUE}
      BY <1>6, <2>2, <2>4, CommitPage
    <3>2. state'.health = report[1]
      BY <1>6, <2>2, <2>4, CommitFacts
    <3> QED  BY <2>1, <2>2, <3>1, <3>2 DEF PageTypes
  <2> QED  BY <2>3, <2>4
<1>7. ASSUME NEW f \in flights, ServeStats(f) \/ ServeCounters(f) \/ RequestFails(f) \/ EndStale(f)
      PROVE  PageTypes'
  BY <1>1, <1>7 DEF ServeStats, ServeCounters, RequestFails, Answered, EndStale, poller
<1>8. CASE \/ \E p \in Procs : CallProcedure(p)
           \/ \E c \in Counters : Reject(c)
           \/ RestartCluster \/ Advance \/ UNCHANGED vars
  BY <1>1, <1>8 DEF CallProcedure, Reject, RestartCluster, Advance, vars, poller
<1> QED  BY <1>2, <1>3, <1>4, <1>5, <1>6, <1>7, <1>8 DEF Next

(* A timeout is set under an id that no other pending one has.              *)
LEMMA OwnTimer ==
  ASSUME StoreTypes, OwnIds, NEW pending \in SUBSET timeouts, NEW g, NEW delay,
         SetTimer(pending, g, delay)
  PROVE  \A x, y \in timeouts' : x.id = y.id => x = y
<1>1. \A x \in pending : x.id # FreeId(pending)
  BY FS_Subset, FreeIdIsFree DEF StoreTypes, PollTypes
<1>2. PICK x : x.id = FreeId(pending) /\ timeouts' = pending \cup {x}
  BY DEF SetTimer
<1> QED  BY <1>1, <1>2 DEF OwnIds

(* What an answer makes of a tick in flight.                                *)
LEMMA AnsweredLimits ==
  ASSUME StoreTypes, PollLimits, NEW f \in flights,
         ServeStats(f) \/ ServeCounters(f) \/ RequestFails(f)
  PROVE  \E g : Answered(f, g) /\ g.id = f.id /\ LimitedFlight(g)
<1>1. /\ f \in AnyFlight /\ LimitedFlight(f)
      /\ cluster.inv \in CallCounts /\ cluster.counters \in Values
  BY DEF StoreTypes, PollTypes, PollLimits
<1>2. CASE ServeStats(f)
  <2>1. PICK inv : inv = [p \in {p \in Procs : cluster.inv[p] > 0} |-> cluster.inv[p]]
    OBVIOUS
  <2>2. LimitedCalls(inv)
    <3>1. \A p \in Procs : cluster.inv[p] \in 0 .. MaxCount
      BY <1>1 DEF CallCounts
    <3> QED  BY <2>1, <3>1, ConstantFacts DEF LimitedCalls, At
  <2>3. PICK g : g = [f EXCEPT !.stats = [st |-> "ok", inv |-> inv]]
    OBVIOUS
  <2>4. /\ g.id = f.id /\ g.t = f.t /\ g.counters = f.counters
        /\ g.stats.st = "ok" /\ g.stats.inv = inv
    BY <1>1, <2>3 DEF AnyFlight
  <2>5. Answered(f, g)
    BY <1>2, <2>1, <2>3 DEF ServeStats
  <2> QED  BY <1>1, <2>2, <2>4, <2>5 DEF LimitedFlight
<1>3. CASE ServeCounters(f)
  <2>1. PICK g : g = [f EXCEPT !.counters = [st |-> "ok", val |-> cluster.counters]]
    OBVIOUS
  <2>2. /\ g.id = f.id /\ g.t = f.t /\ g.stats = f.stats
        /\ g.counters.st = "ok" /\ g.counters.val = cluster.counters
    BY <1>1, <2>1 DEF AnyFlight
  <2>3. Answered(f, g)
    BY <1>3, <2>1 DEF ServeCounters
  <2> QED  BY <1>1, <2>2, <2>3 DEF LimitedFlight
<1>4. CASE RequestFails(f)
  <2>1. PICK g, h : g = [f EXCEPT !.stats = Failed] /\ h = [f EXCEPT !.counters = Failed]
    OBVIOUS
  <2>2. Failed.st # "ok"
    BY DEF Failed
  <2>3. /\ g.id = f.id /\ g.t = f.t /\ g.counters = f.counters /\ g.stats = Failed
        /\ h.id = f.id /\ h.t = f.t /\ h.stats = f.stats /\ h.counters = Failed
    BY <1>1, <2>1 DEF AnyFlight
  <2>4. LimitedFlight(g) /\ LimitedFlight(h)
    BY <1>1, <2>2, <2>3 DEF LimitedFlight
  <2>5. Answered(f, g) \/ Answered(f, h)
    BY <1>4, <2>1 DEF RequestFails
  <2> QED  BY <2>3, <2>4, <2>5
<1> QED  BY <1>2, <1>3, <1>4

LEMMA InitOwnIds == Init => OwnIds
BY DEF Init, OwnIds

LEMMA StepTimerIds ==
  ASSUME StoreTypes, OwnIds, [Next]_vars
  PROVE  \A x, y \in timeouts' : x.id = y.id => x = y
<1> DEFINE Own(pending) == \A x, y \in pending : x.id = y.id => x = y
<1>1. ASSUME timeouts' \subseteq timeouts PROVE Own(timeouts')
  BY <1>1 DEF OwnIds
<1>2. CASE \/ \E mode \in Modes : Switch(mode)
           \/ Show
           \/ \E x \in timeouts : TickPaused(x) \/ TickMock(x)
           \/ \E f \in flights, report \in Reports : EndTick(f, report[1], report[2])
  BY <1>2, WhoSetsTimers, OwnTimer
<1>3. ASSUME NEW x \in timeouts, Drop(x) \/ TickLive(x) PROVE Own(timeouts')
  <2>1. timeouts' = timeouts \ {x}
    BY <1>3 DEF Drop, TickLive
  <2> QED  BY <1>1, <2>1
<1>4. ASSUME NEW f \in flights, ServeStats(f) \/ ServeCounters(f) \/ RequestFails(f) \/ EndStale(f)
      PROVE  Own(timeouts')
  <2>1. timeouts' = timeouts
    BY <1>4 DEF ServeStats, ServeCounters, RequestFails, Answered, EndStale
  <2> QED  BY <1>1, <2>1
<1>5. CASE \/ \E ms \in Polls : SetPollInterval(ms)
           \/ \E p \in Procs : CallProcedure(p)
           \/ \E c \in Counters : Reject(c)
           \/ Hide \/ RestartCluster \/ Advance \/ UNCHANGED vars
  <2>1. timeouts' = timeouts
    BY <1>5 DEF SetPollInterval, CallProcedure, Reject, Hide, RestartCluster, Advance, vars
  <2> QED  BY <1>1, <2>1
<1> QED  BY <1>2, <1>3, <1>4, <1>5 DEF Next, Fire

(* A tick that is sent: its id, and that nothing is answered yet.           *)
LEMMA SentTick ==
  ASSUME StoreTypes, ClockLimits, NEW x \in timeouts, TickLive(x)
  PROVE  \E f : /\ flights' = flights \cup {f} /\ LimitedFlight(f)
                /\ \A g \in flights : g.id # f.id
<1>1. PICK f : f = [id |-> FreeId(flights), gen |-> x.gen, t |-> now,
                    stats |-> Waiting, counters |-> Waiting]
  OBVIOUS
<1>2. \A g \in flights : g.id # f.id
  BY <1>1, FreeIdIsFree DEF StoreTypes, PollTypes
<1>3. now \in Instants /\ Waiting.st # "ok"
  BY ConstantFacts DEF StoreTypes, ClockTypes, ClockLimits, Instants, Waiting
<1>4. LimitedFlight(f)
  BY <1>1, <1>3 DEF LimitedFlight
<1>5. flights' = flights \cup {f}
  BY <1>1 DEF TickLive
<1> QED  BY <1>2, <1>4, <1>5

(* The ticks in flight: they keep their ids, and what is answered to them   *)
(* is what the cluster has counted.                                         *)
LEMMA StepFlightLimits ==
  ASSUME StoreTypes, ClockLimits, PollLimits, OwnIds, [Next]_vars
  PROVE  /\ \A f, g \in flights' : f.id = g.id => f = g
         /\ \A f \in flights' : LimitedFlight(f)
<1> DEFINE Fine(F) == /\ \A f, g \in F : f.id = g.id => f = g
                       /\ \A h \in F : LimitedFlight(h)
<1>0. \A f \in flights : LimitedFlight(f)
  BY DEF PollLimits
<1>1. ASSUME flights' \subseteq flights PROVE Fine(flights')
  BY <1>0, <1>1 DEF OwnIds
<1>2. ASSUME NEW x \in timeouts, TickLive(x) PROVE Fine(flights')
  <2>1. PICK f : /\ flights' = flights \cup {f} /\ LimitedFlight(f)
                 /\ \A g \in flights : g.id # f.id
    BY <1>2, SentTick
  <2> QED  BY <1>0, <2>1 DEF OwnIds
<1>3. ASSUME NEW f \in flights, ServeStats(f) \/ ServeCounters(f) \/ RequestFails(f)
      PROVE  Fine(flights')
  <2>1. PICK g : Answered(f, g) /\ g.id = f.id /\ LimitedFlight(g)
    BY <1>3, AnsweredLimits
  <2>2. flights' = (flights \ {f}) \cup {g}
    BY <2>1 DEF Answered
  <2> QED  BY <1>0, <2>1, <2>2 DEF OwnIds
<1>4. ASSUME NEW f \in flights, \/ EndStale(f)
                                \/ \E report \in Reports : EndTick(f, report[1], report[2])
      PROVE  Fine(flights')
  <2>1. flights' = flights \ {f}
    BY <1>4 DEF EndStale, EndTick
  <2> QED  BY <1>1, <2>1
<1>5. ASSUME NEW x \in timeouts, Fire(x) PROVE Fine(flights')
  <2>1. CASE Drop(x) \/ TickPaused(x) \/ TickMock(x)
    <3>1. flights' = flights
      BY <2>1 DEF Drop, TickPaused, TickMock
    <3> QED  BY <1>1, <3>1
  <2> QED  BY <1>2, <1>5, <2>1 DEF Fire
<1>6. CASE \/ \E mode \in Modes : Switch(mode)
           \/ \E ms \in Polls : SetPollInterval(ms)
           \/ \E p \in Procs : CallProcedure(p)
           \/ \E c \in Counters : Reject(c)
           \/ Hide \/ Show \/ RestartCluster \/ Advance \/ UNCHANGED vars
  <2>1. flights' = flights
    BY <1>6
    DEF Switch, SetPollInterval, CallProcedure, Reject, Hide, Show, RestartCluster, Advance, vars
  <2> QED  BY <1>1, <2>1
<1> QED  BY <1>3, <1>4, <1>5, <1>6 DEF Next

(* What is counted stays within the bound on all that is counted.           *)
LEMMA CountIsLimited ==
  ASSUME NEW S, IsFiniteSet(S), NEW f \in [S -> Nat], NEW T, IsFiniteSet(T), NEW h \in [T -> Nat],
         SumFunction(f) + SumFunction(h) < MaxCount, NEW x \in S
  PROVE  f[x] + 1 \in 0 .. MaxCount
<1>1. SumFunction(f) = SumFunctionOnSet(f, S) /\ SumFunction(h) = SumFunctionOnSet(h, T)
  BY DEF SumFunction
<1>2. PICK s, t, r \in Nat :
        /\ s = SumFunctionOnSet(f, S) /\ t = SumFunctionOnSet(h, T)
        /\ r = SumFunctionOnSet(f, S \ {x})
  <2>1. \A y \in S : f[y] \in Nat
    OBVIOUS
  <2>2. \A y \in T : h[y] \in Nat
    OBVIOUS
  <2>3. IsFiniteSet(S \ {x}) /\ \A y \in S \ {x} : f[y] \in Nat
    BY <2>1, FS_Subset
  <2> QED  BY <2>1, <2>2, <2>3, SumInNat
<1>3. s = f[x] + r
  BY <1>2, SumRemove
<1>4. f[x] \in Nat /\ s + t < MaxCount /\ MaxCount \in Nat
  BY <1>1, <1>2, ConstantFacts
<1> QED  BY <1>2, <1>3, <1>4

ClusterLimits == cluster.inv \in CallCounts /\ cluster.counters \in Values

LEMMA StepClusterLimits ==
  ASSUME StoreTypes, ClusterLimits, [Next]_vars
  PROVE  ClusterLimits'
<1>c. /\ cluster \in [inv : [Procs -> Nat], counters : AllValues]
      /\ IsFiniteSet(Procs) /\ IsFiniteSet(Counters)
      /\ cluster.inv \in [Procs -> Nat] /\ cluster.counters \in [Counters -> Nat]
  BY TelemetryAssumption DEF StoreTypes, PollTypes, AllValues
<1>1. ASSUME cluster' = cluster PROVE ClusterLimits'
  BY <1>1 DEF ClusterLimits
<1>2. ASSUME NEW p \in Procs, CallProcedure(p) PROVE ClusterLimits'
  <2>1. /\ SumFunction(cluster.inv) + SumFunction(cluster.counters) < MaxCount
        /\ cluster' = [cluster EXCEPT !.inv[p] = @ + 1]
    BY <1>2 DEF CallProcedure, MayCount
  <2>2. cluster.inv[p] + 1 \in 0 .. MaxCount
    BY <1>c, <2>1, CountIsLimited
  <2>3. /\ cluster'.inv = [cluster.inv EXCEPT ![p] = cluster.inv[p] + 1]
        /\ cluster'.counters = cluster.counters
    BY <1>c, <2>1
  <2> QED  BY <2>2, <2>3 DEF ClusterLimits, CallCounts
<1>3. ASSUME NEW c \in Counters, Reject(c) PROVE ClusterLimits'
  <2>1. /\ SumFunction(cluster.inv) + SumFunction(cluster.counters) < MaxCount
        /\ cluster' = [cluster EXCEPT !.counters[c] = @ + 1]
    BY <1>3 DEF Reject, MayCount
  <2>2. cluster.counters[c] + 1 \in 0 .. MaxCount
    <3>1. PICK s, t \in Nat : s = SumFunction(cluster.inv) /\ t = SumFunction(cluster.counters)
      <4>1. /\ SumFunction(cluster.inv) = SumFunctionOnSet(cluster.inv, Procs)
            /\ SumFunction(cluster.counters) = SumFunctionOnSet(cluster.counters, Counters)
        BY <1>c DEF SumFunction
      <4>2. (\A p \in Procs : cluster.inv[p] \in Nat) /\ \A d \in Counters : cluster.counters[d] \in Nat
        BY <1>c
      <4> QED  BY <1>c, <4>1, <4>2, SumInNat
    <3>2. SumFunction(cluster.counters) + SumFunction(cluster.inv) < MaxCount
      BY <2>1, <3>1, ConstantFacts
    <3> QED  BY <1>c, <3>2, CountIsLimited
  <2>3. /\ cluster'.counters = [cluster.counters EXCEPT ![c] = cluster.counters[c] + 1]
        /\ cluster'.inv = cluster.inv
    BY <1>c, <2>1
  <2> QED  BY <2>2, <2>3 DEF ClusterLimits, Values
<1>4. CASE RestartCluster
  <2>1. PICK c \in {Zero, cluster.counters} :
          cluster' = [inv |-> [p \in Procs |-> 0], counters |-> c]
    BY <1>4 DEF RestartCluster
  <2>2. 0 \in 0 .. MaxCount
    BY ConstantFacts
  <2> QED  BY <2>1, <2>2 DEF ClusterLimits, CallCounts, Values, Zero
<1>5. ASSUME NEW x \in timeouts, Fire(x) PROVE ClusterLimits'
  BY <1>1, <1>5 DEF Fire, Drop, TickPaused, TickMock, TickLive
<1>6. ASSUME NEW f \in flights,
             \/ ServeStats(f) \/ ServeCounters(f) \/ RequestFails(f) \/ EndStale(f)
             \/ \E report \in Reports : EndTick(f, report[1], report[2])
      PROVE ClusterLimits'
  BY <1>1, <1>6 DEF ServeStats, ServeCounters, RequestFails, Answered, EndStale, EndTick
<1>7. CASE \/ \E mode \in Modes : Switch(mode)
           \/ \E ms \in Polls : SetPollInterval(ms)
           \/ Hide \/ Show \/ Advance \/ UNCHANGED vars
  BY <1>1, <1>7 DEF Switch, SetPollInterval, Hide, Show, Advance, vars
<1> QED  BY <1>2, <1>3, <1>4, <1>5, <1>6, <1>7 DEF Next

(* The answers to a tick are a poll within the limits.                      *)
LEMMA PollIsLimited ==
  ASSUME NEW f \in AnyFlight, Waiting \notin {f.stats, f.counters}, f.stats # Failed,
         LimitedFlight(f)
  PROVE  LimitedPoll(Poll(f))
<1>1. f.stats.st = "ok"
  BY DEF AnyFlight
<1>2. Zero \in Values
  BY ConstantFacts DEF Zero, Values
<1>3. /\ Poll(f).t = f.t /\ Poll(f).inv = f.stats.inv
      /\ Poll(f).counters = IF f.counters.st = "ok" THEN f.counters.val ELSE Zero
  BY DEF Poll
<1> QED  BY <1>1, <1>2, <1>3 DEF LimitedFlight, LimitedPoll

LEMMA StepPollLimits ==
  ASSUME StoreTypes, ClockLimits, PollLimits, OwnIds, [Next]_vars
  PROVE  PollLimits'
<1>1. ClusterLimits'
  BY StepClusterLimits DEF PollLimits, ClusterLimits
<1>2. \A f \in flights' : LimitedFlight(f)
  BY StepFlightLimits
<1>3. prevRaw' # None => LimitedPoll(prevRaw')
  <2>1. CASE prevRaw' = prevRaw
    BY <2>1 DEF PollLimits
  <2>2. CASE prevRaw' = None
    BY <2>2
  <2>3. ASSUME NEW f \in flights, NEW report \in Reports, EndTick(f, report[1], report[2])
        PROVE  prevRaw' # None => LimitedPoll(prevRaw')
    <3>1. CASE f.stats = Failed
      BY <2>3, <3>1 DEF EndTick, NoStatistics
    <3>2. CASE f.stats # Failed
      <4>1. prevRaw' = Poll(f)
        BY <2>3, <3>2, CommitFacts, ReportsAreBoolean
      <4>2. f \in AnyFlight /\ Waiting \notin {f.stats, f.counters} /\ LimitedFlight(f)
        BY <2>3 DEF EndTick, StoreTypes, PollTypes, PollLimits
      <4> QED  BY <3>2, <4>1, <4>2, PollIsLimited
    <3> QED  BY <3>1, <3>2
  <2>4. ASSUME NEW mode \in Modes, Switch(mode) PROVE prevRaw' = None
    BY <2>4 DEF Switch
  <2>5. ASSUME NEW x \in timeouts, TickMock(x) PROVE prevRaw' = prevRaw
    BY <2>5 DEF TickMock
  <2>6. SameStore => prevRaw' = prevRaw
    BY DEF SameStore
  <2> QED  BY <2>1, <2>2, <2>3, <2>4, <2>5, <2>6, StoreMoves
<1> QED  BY <1>1, <1>2, <1>3 DEF PollLimits, ClusterLimits

LEMMA InitPoll == Init => PollLimits
<1> SUFFICES ASSUME Init PROVE PollLimits
  OBVIOUS
<1>1. prevRaw = None /\ flights = {} /\ cluster = Fresh
  BY DEF Init
<1>2. 0 \in 0 .. MaxCount
  BY ConstantFacts
<1> QED  BY <1>1, <1>2 DEF PollLimits, Fresh, Zero, CallCounts, Values

LEMMA PushedLength ==
  ASSUME NEW S, NEW samples \in Seq(S), NEW s \in S, Len(samples) <= MaxSamples
  PROVE  Len(Pushed(samples, s)) <= MaxSamples
<1>1. Len(samples) \in Nat /\ MaxSamples \in Nat \ {0}
  BY LenProperties, ConstantFacts
<1>2. CASE Len(samples) < MaxSamples
  <2>1. Pushed(samples, s) = Append(samples, s)
    BY <1>2 DEF Pushed
  <2>2. Len(Append(samples, s)) = Len(samples) + 1
    OBVIOUS
  <2> QED  BY <1>1, <1>2, <2>1, <2>2
<1>3. CASE ~(Len(samples) < MaxSamples)
  <2>1. Pushed(samples, s) = Append(Tail(samples), s) /\ samples # <<>>
    BY <1>1, <1>3 DEF Pushed
  <2>2. PICK rest \in Seq(S) : rest = Tail(samples) /\ Len(rest) = Len(samples) - 1
    BY <2>1, HeadTailProperties
  <2>3. Len(Append(rest, s)) = Len(rest) + 1
    OBVIOUS
  <2> QED  BY <1>1, <2>1, <2>2, <2>3
<1> QED  BY <1>2, <1>3

(* The sample of two polls, and that of the mock provider.                  *)
LEMMA SampleIsLimited ==
  ASSUME NEW raw \in AnyPoll, prevRaw \in AnyPoll, LimitedPoll(raw), LimitedPoll(prevRaw)
  PROVE  LimitedSample(SampleOf(raw))
<1>1. PICK s : s = SampleOf(raw)
  OBVIOUS
<1>2. /\ s.t = raw.t /\ s.since = prevRaw.t /\ s.counters = raw.counters
      /\ s.calls = [p \in Procs |-> At(raw.inv, p) - At(prevRaw.inv, p)]
  BY <1>1 DEF SampleOf
<1>3. ASSUME NEW p \in Procs
      PROVE  At(raw.inv, p) - At(prevRaw.inv, p) \in -MaxCount .. MaxCount
  <2>1. PICK a, b \in Nat : a = At(raw.inv, p) /\ b = At(prevRaw.inv, p)
    BY AtIsNat DEF AnyPoll
  <2>2. a <= MaxCount /\ b <= MaxCount
    BY <2>1 DEF LimitedPoll, LimitedCalls
  <2> QED  BY <2>1, <2>2, ConstantFacts
<1> QED  BY <1>1, <1>2, <1>3 DEF LimitedPoll, LimitedSample

LEMMA OneCall == [p \in Procs |-> 1] \in [Procs -> -MaxCount .. MaxCount]
BY ConstantFacts

LEMMA MockIsLimited ==
  ASSUME StoreTypes, ClockLimits, RingLimits, state.mode = "mock"
  PROVE  LimitedSample(MockSample(Last(state.samples)))
<1>1. PICK prev : prev = Last(state.samples) /\ LimitedSample(prev)
  BY LastOfSamples DEF StoreTypes, StateTypes, RingLimits
<1>2. PICK s : s = MockSample(prev)
  OBVIOUS
<1>3. /\ s.t = now /\ s.since = prev.t /\ s.calls = [p \in Procs |-> 1]
      /\ s.counters = [c \in Counters |-> IF prev.counters[c] < MaxCount
                                          THEN prev.counters[c] + 1 ELSE MaxCount]
  BY <1>2 DEF MockSample
<1>4. now \in Instants
  BY ConstantFacts DEF StoreTypes, ClockTypes, ClockLimits, Instants
<1>5. ASSUME NEW c \in Counters
      PROVE  (IF prev.counters[c] < MaxCount THEN prev.counters[c] + 1 ELSE MaxCount)
               \in 0 .. MaxCount
  <2>1. PICK n \in 0 .. MaxCount : n = prev.counters[c]
    BY <1>1 DEF LimitedSample, Values
  <2> QED  BY <2>1, ConstantFacts
<1>6. s.counters \in Values
  BY <1>3, <1>5 DEF Values
<1> QED  BY <1>1, <1>2, <1>3, <1>4, <1>6, OneCall DEF LimitedSample

(* The entries of two samples, and the feed they are put before.            *)
LEMMA EntriesAreLimited ==
  ASSUME NEW prev, prev.counters \in Values, NEW s, s.counters \in Values, s.t \in Instants,
         NEW e \in NewEntries(prev, s)
  PROVE  e \in Entries
<1>1. PICK c \in Counters : s.counters[c] > prev.counters[c] /\ e = EntryOf(prev, s, c)
  BY DEF NewEntries, Grew
<1>2. PICK m, n \in 0 .. MaxCount : m = s.counters[c] /\ n = prev.counters[c]
  BY DEF Values
<1>3. m - n \in 1 .. MaxCount
  BY <1>1, <1>2, ConstantFacts
<1>4. e = [t |-> s.t, name |-> c, delta |-> m - n]
  BY <1>1, <1>2 DEF EntryOf
<1> QED  BY <1>3, <1>4 DEF Entries

LEMMA ValuesAreNumbers == Values \subseteq AllValues
<1>1. 0 .. MaxCount \subseteq Nat
  BY ConstantFacts
<1> QED  BY <1>1 DEF Values, AllValues

LEMMA FeedIsLimited ==
  ASSUME NEW samples \in Seq(AnySample), \A i \in DOMAIN samples : LimitedSample(samples[i]),
         NEW s, LimitedSample(s),
         NEW events \in Seq(AnyEntry), \A i \in DOMAIN events : events[i] \in Entries,
         NEW out, out = EventsFrom(samples, s, events)
  PROVE  \A i \in DOMAIN out : out[i] \in Entries
<1>1. CASE samples = <<>>
  BY <1>1 DEF EventsFrom
<1>2. CASE samples # <<>>
  <2>1. PICK prev : prev = Last(samples) /\ LimitedSample(prev)
    BY <1>2, LastOfSamples
  <2>2. /\ prev.counters \in Values /\ s.counters \in Values /\ s.t \in Instants
        /\ prev.counters \in AllValues /\ s.counters \in AllValues /\ s.t \in Nat
    BY <2>1, ValuesAreNumbers, ConstantFacts DEF LimitedSample, Instants
  <2>3. \A i \in DOMAIN out :
          out[i] \in NewEntries(prev, s) \/ \E j \in DOMAIN events : out[i] = events[j]
    BY <1>2, <2>1, <2>2, FeedGrows
  <2>4. \A e \in NewEntries(prev, s) : e \in Entries
    BY <2>2, EntriesAreLimited
  <2> QED  BY <2>3, <2>4
<1> QED  BY <1>1, <1>2

(* A provider that starts: the mock one with a sample of nothing.           *)
LEMMA StartedRing ==
  ASSUME NEW mode \in Modes, NEW g, now \in Instants, NEW n, n = Started(mode, g)
  PROVE  /\ \A i \in DOMAIN n.samples : LimitedSample(n.samples[i])
         /\ Len(n.samples) <= MaxSamples
         /\ n.events = <<>> /\ n.lastSuccessAt \in {None} \cup Instants
<1>1. CASE mode = "live"
  <2>1. n.samples = <<>> /\ n.events = <<>> /\ n.lastSuccessAt = None
    BY <1>1 DEF Started, Empty
  <2> QED  BY <2>1, ConstantFacts
<1>2. CASE mode = "mock"
  <2>1. PICK s : s = [t |-> now, since |-> now, calls |-> [p \in Procs |-> 1],
                      vanished |-> {}, gen |-> g, counters |-> Zero]
    OBVIOUS
  <2>2. Zero \in Values
    BY ConstantFacts DEF Zero, Values
  <2>3. LimitedSample(s)
    BY <2>1, <2>2, OneCall DEF LimitedSample
  <2>4. n.samples = <<s>> /\ n.events = <<>> /\ n.lastSuccessAt = now
    BY <1>2, <2>1 DEF Started, Empty
  <2>5. DOMAIN <<s>> = {1} /\ <<s>>[1] = s /\ Len(<<s>>) = 1
    OBVIOUS
  <2> QED  BY <2>3, <2>4, <2>5, ConstantFacts
<1> QED  BY <1>1, <1>2 DEF Modes

LEMMA InitRing == Init => RingLimits
<1> SUFFICES ASSUME Init PROVE RingLimits
  OBVIOUS
<1>1. PICK mode \in Modes : now = 0 /\ state = Started(mode, 1)
  BY DEF Init
<1>2. now \in Instants
  BY <1>1, ConstantFacts DEF Instants
<1>3. /\ \A i \in DOMAIN state.samples : LimitedSample(state.samples[i])
      /\ Len(state.samples) <= MaxSamples
      /\ state.events = <<>> /\ state.lastSuccessAt \in {None} \cup Instants
  BY <1>1, <1>2, StartedRing
<1> QED  BY <1>3 DEF RingLimits

LEMMA StepRing ==
  ASSUME StoreInv, FeedInv, ClockLimits, PollLimits, RingLimits, [Next]_vars
  PROVE  RingLimits'
<1>1. /\ StoreTypes /\ state.samples \in Seq(AnySample) /\ state.events \in Seq(AnyEntry)
      /\ now \in Instants
  BY ConstantFacts
  DEF StoreInv, StoreTypes, StateTypes, ClockTypes, FeedInv, ClockLimits, Instants
<1>2. ASSUME state'.samples = state.samples, state'.events = state.events,
             state'.lastSuccessAt \in {None} \cup Instants
      PROVE  RingLimits'
  BY <1>2 DEF RingLimits
<1>3. ASSUME state'.samples = <<>>, state'.events = <<>>,
             state'.lastSuccessAt \in {None} \cup Instants
      PROVE  RingLimits'
  BY <1>3, ConstantFacts DEF RingLimits
<1>4. ASSUME NEW s \in AnySample, LimitedSample(s), state'.samples = Pushed(state.samples, s),
             state'.events = EventsFrom(state.samples, s, state.events),
             state'.lastSuccessAt \in {None} \cup Instants
      PROVE  RingLimits'
  <2>1. \A i \in DOMAIN state'.samples : LimitedSample(state'.samples[i])
    BY <1>1, <1>4, PushedKeeps DEF RingLimits
  <2>2. Len(state'.samples) <= MaxSamples
    BY <1>1, <1>4, PushedLength DEF RingLimits
  <2>3. \A i \in DOMAIN state'.events : state'.events[i] \in Entries
    BY <1>1, <1>4, FeedIsLimited DEF RingLimits
  <2> QED  BY <1>4, <2>1, <2>2, <2>3 DEF RingLimits
<1>5. ASSUME NEW mode \in Modes, Switch(mode) PROVE RingLimits'
  <2>1. state' = Started(mode, generation + 1)
    BY <1>5 DEF Switch
  <2>2. /\ \A i \in DOMAIN state'.samples : LimitedSample(state'.samples[i])
        /\ Len(state'.samples) <= MaxSamples
        /\ state'.events = <<>> /\ state'.lastSuccessAt \in {None} \cup Instants
    BY <1>1, <2>1, StartedRing
  <2> QED  BY <2>2 DEF RingLimits
<1>6. ASSUME NEW x \in timeouts, TickMock(x) PROVE RingLimits'
  <2>1. PICK s \in AnySample : /\ s = MockSample(Last(state.samples))
                               /\ state'.samples = Pushed(state.samples, s)
                               /\ state'.events = EventsFrom(state.samples, s, state.events)
    BY <1>1, <1>6, MockFeed
  <2>2. LimitedSample(s)
    BY <1>1, <1>6, <2>1, MockIsLimited DEF TickMock
  <2>3. state'.lastSuccessAt = now
    BY <1>1, <1>6, MockFacts
  <2> QED  BY <1>1, <1>4, <2>1, <2>2, <2>3
<1>7. ASSUME NEW f \in flights, NEW report \in Reports, EndTick(f, report[1], report[2])
      PROVE  RingLimits'
  <2>1. CASE f.stats = Failed
    <3>1. state'.samples = state.samples /\ state'.lastSuccessAt = state.lastSuccessAt
      BY <1>1, <1>7, <2>1, FailureFacts
    <3>2. state'.events = state.events
      BY <1>1, <1>7, <2>1, FailureFeed
    <3> QED  BY <1>2, <3>1, <3>2 DEF RingLimits
  <2>2. CASE f.stats # Failed
    <3>1. state'.lastSuccessAt = f.t /\ Poll(f) \in AnyPoll
      BY <1>1, <1>7, <2>2, CommitFacts, ReportsAreBoolean
    <3>2. f \in AnyFlight /\ Waiting \notin {f.stats, f.counters} /\ LimitedFlight(f)
      BY <1>1, <1>7 DEF EndTick, StoreTypes, PollTypes, PollLimits
    <3>3. state'.lastSuccessAt \in {None} \cup Instants /\ LimitedPoll(Poll(f))
      BY <2>2, <3>1, <3>2, PollIsLimited DEF LimitedFlight
    <3>4. prevRaw # None /\ prevRaw \in AnyPoll => LimitedSample(SampleOf(Poll(f)))
      BY <3>1, <3>3, SampleIsLimited DEF PollLimits
    <3>5. \/ state'.samples = state.samples /\ state'.events = state.events
          \/ state'.samples = <<>> /\ state'.events = <<>>
          \/ \E s \in AnySample :
               /\ prevRaw # None /\ prevRaw \in AnyPoll /\ s = SampleOf(Poll(f))
               /\ state'.samples = Pushed(state.samples, s)
               /\ state'.events = EventsFrom(state.samples, s, state.events)
      BY <1>1, <1>7, <2>2, CommitFeed, ReportsAreBoolean
    <3> QED  BY <1>2, <1>3, <1>4, <3>3, <3>4, <3>5
  <2> QED  BY <2>1, <2>2
<1>8. CASE SameStore /\ SameFeed
  BY <1>2, <1>8 DEF SameStore, SameFeed, RingLimits
<1> QED  BY <1>1, <1>5, <1>6, <1>7, <1>8, StoreMoves, FeedMoves

LimitsInv == ClockLimits /\ PageTypes /\ PollLimits /\ RingLimits /\ OwnIds

LEMMA LimitsAreTypes == StoreInv /\ FeedInv /\ LimitsInv => TypeOK
<1> SUFFICES ASSUME StoreInv, FeedInv, LimitsInv PROVE TypeOK
  OBVIOUS
<1>1. /\ StoreTypes /\ ProvidersNeverMix /\ state.samples \in Seq(AnySample)
      /\ ClockLimits /\ PageTypes /\ PollLimits /\ RingLimits /\ OwnIds
  BY DEF StoreInv, StoreTypes, StateTypes, ProviderInv, LimitsInv
<1>2. now \in Instants /\ generation \in Gens
  BY <1>1, ConstantFacts DEF StoreTypes, ClockTypes, ClockLimits, Instants
<1>3. ASSUME NEW i \in DOMAIN state.samples PROVE state.samples[i] \in Samples
  <2>1. PICK s \in AnySample : s = state.samples[i]
    BY <1>1, ElementOfSeq, LenProperties
  <2>2. LimitedSample(s) /\ s.gen = generation
    BY <1>1, <2>1 DEF RingLimits, ProvidersNeverMix
  <2> QED  BY <1>2, <2>1, <2>2 DEF AnySample, LimitedSample, Samples
<1>4. state.mode \in Modes /\ state.lastError \in BOOLEAN /\ state.ticked \in BOOLEAN
  BY <1>1, Zenon DEF StoreTypes, StateTypes
<1>5. {state.paused, state.lastError, state.ticked, state.baselineReset} \subseteq BOOLEAN
  BY <1>1, <1>4, Zenon DEF PageTypes
<1> QED
  BY <1>1, <1>2, <1>3, <1>4, <1>5 DEF TypeOK, PageTypes, PollLimits, RingLimits, OwnIds, FeedInv

(* The store, the timeouts and the requests in flight are well typed and    *)
(* within the bounds of the runs: the ring and the feed keep their length   *)
(* (push and eventsFrom, telemetry.ts), and an id is never used twice.      *)
THEOREM TelemetryIsTyped == Spec => []TypeOK
<1>1. Init => StoreInv /\ SoundInv /\ FeedInv /\ LimitsInv
  BY InitStore, InitSpans, InitFeed, InitClock, InitPage, InitPoll, InitRing, InitOwnIds
  DEF LimitsInv
<1>2. StoreInv /\ SoundInv /\ FeedInv /\ LimitsInv /\ [Next]_vars
      => (StoreInv /\ SoundInv /\ FeedInv /\ LimitsInv)'
  <2> SUFFICES ASSUME StoreInv, SoundInv, FeedInv, LimitsInv, [Next]_vars
               PROVE  (StoreInv /\ SoundInv /\ FeedInv /\ LimitsInv)'
    OBVIOUS
  <2>1. /\ StoreTypes /\ ClockLimits /\ PageTypes /\ PollLimits /\ RingLimits /\ OwnIds
    BY DEF StoreInv, LimitsInv
  <2>2. (StoreInv /\ SoundInv /\ FeedInv)'
    BY StepStore, StepSound, StepFeed
  <2>3. ClockLimits' /\ PageTypes' /\ PollLimits' /\ RingLimits'
    BY <2>1, StepClock, StepPage, StepPollLimits, StepRing
  <2>4. OwnIds'
    BY <2>1, StepTimerIds, StepFlightLimits DEF OwnIds
  <2> QED  BY <2>2, <2>3, <2>4 DEF LimitsInv
<1> QED  BY <1>1, <1>2, LimitsAreTypes, PTL DEF Spec
=============================================================================
