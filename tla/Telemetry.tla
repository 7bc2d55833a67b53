----------------------------- MODULE Telemetry -----------------------------
(***************************************************************************)
(* The console's telemetry store (ui/src/data/telemetry.ts) and the shell  *)
(* that starts it and shows its status (ConsoleShell.tsx).                 *)
(*                                                                         *)
(* One chain of timeouts is meant to poll: a timeout runs tick, a tick of  *)
(* the live provider awaits its requests, and the end of a tick sets the   *)
(* next timeout.  Hiding and showing the page and switching the provider   *)
(* interleave with the requests in flight.  Code between two awaits is one *)
(* action.  The cluster behind the requests serves each one at a moment of *)
(* its own, counts calls and rejections, and may restart.                  *)
(***************************************************************************)
EXTENDS Integers, Sequences, FiniteSets, SequencesExt

CONSTANTS
  None,
  Procs,        \* procedures the cluster reports
  Ingest,       \* the one that records a transaction
  Counters,     \* names of the hygiene counters
  Polls,        \* intervals the settings page offers
  Quick,        \* the first delay of the live provider
  Slack,        \* what the shell adds to two intervals before it says stale
  MaxSamples,   \* size of the sample ring
  MaxEvents,    \* length of the event feed
  MaxTime,      \* bound: the clock, which stops earlier the more troubles there were
  MaxLate,      \* bound: how late a timeout fires
  MaxCount,     \* bound: calls and rejections a cluster counts
  MaxTroubles   \* bound: changes of the provider or the interval, hidings of the
                \* page, restarts of the cluster and requests that fail, together

ASSUME TelemetryAssumption ==
  /\ Ingest \in Procs /\ IsFiniteSet(Procs) /\ IsFiniteSet(Counters)
  /\ Polls \subseteq Nat \ {0} /\ Polls # {}
  /\ {Quick, MaxSamples, MaxEvents, MaxCount} \subseteq Nat \ {0}
  /\ {Slack, MaxTime, MaxLate, MaxTroubles} \subseteq Nat
  /\ None \notin Int /\ None \notin {"up", "down"}

VARIABLES
  now,         \* the clock
  hidden,      \* document.hidden
  pollMs,      \* settings.pollMs, which intervalMs follows
  generation,  \* bumped by every start of a provider
  state,       \* what the pages read
  prevRaw,     \* the last good poll, or None
  timeouts,    \* pending timeouts: id, generation, due
  timer,       \* id of the timeout set last, or None
  flights,     \* live ticks that await their requests
  cluster,     \* invocations per procedure, value per counter
  returns,     \* history: returns of the page during a tick of this generation
  troubles,    \* what MaxTroubles bounds
  sound        \* history: since the samples were cleared no restart, no failed
               \* GetCounters and no second tick in flight

poller  == <<pollMs, generation, state, prevRaw>>
history == <<returns, troubles, sound>>
vars == <<now, hidden, poller, timeouts, timer, flights, cluster, history>>

Modes == {"mock", "live"}

(* Bound. *)
Trouble == troubles < MaxTroubles /\ troubles' = troubles + 1

Empty(mode) ==
  [ mode |-> mode, samples |-> <<>>, events |-> <<>>, paused |-> FALSE, health |-> None,
    tables |-> None, lastError |-> FALSE, lastSuccessAt |-> None, ticked |-> FALSE,
    baselineReset |-> FALSE ]

----------------------------------------------------------------------------
(* Timeouts.  Ids of timeouts that are gone are used again. *)

FreeId(things) == CHOOSE i \in 1 .. Cardinality(things) + 1 : \A x \in things : x.id # i

(* setTimeout(() => tick(g), delay), its handle kept in timer.              *)
SetTimer(pending, g, delay) ==
  LET id == FreeId(pending)
  IN  /\ timeouts' = pending \cup {[id |-> id, gen |-> g, due |-> now + delay]}
      /\ timer' = id

(* Defective: the pending timeout is left alone.                            *)
BugCleared(pending) == pending
(* clearTimeout(timer): nothing when that timeout has fired.                *)
Cleared(pending) == {x \in pending : x.id # timer}

----------------------------------------------------------------------------
(* Samples and events *)

At(inv, p) == IF p \in DOMAIN inv THEN inv[p] ELSE 0

Zero == [c \in Counters |-> 0]

(* Defective: the ring keeps one sample too many.                           *)
BugPushed(samples, s) ==
  Append(IF Len(samples) <= MaxSamples THEN samples ELSE Tail(samples), s)
(* slice(-MAX_SAMPLES + 1) and the new sample.                              *)
Pushed(samples, s) ==
  Append(IF Len(samples) < MaxSamples THEN samples ELSE Tail(samples), s)

Kept(seq, n) == SubSeq(seq, 1, IF Len(seq) < n THEN Len(seq) ELSE n)

(* Defective: the first sample is compared with counters of zero.           *)
BugEventsFrom(samples, s, events) ==
  LET Before(c) == IF samples = <<>> THEN 0 ELSE Last(samples).counters[c]
      Grew == {c \in Counters : s.counters[c] > Before(c)}
  IN  Kept(SetToSeq({[t |-> s.t, name |-> c, delta |-> s.counters[c] - Before(c)] : c \in Grew})
           \o events, MaxEvents)
(* One entry per counter that grew since the previous sample, newest first. *)
EventsFrom(samples, s, events) ==
  IF samples = <<>> THEN events
  ELSE LET prev == Last(samples)
           Grew == {c \in Counters : s.counters[c] > prev.counters[c]}
       IN  Kept(SetToSeq({[t |-> s.t, name |-> c,
                           delta |-> s.counters[c] - prev.counters[c]] : c \in Grew})
                \o events, MaxEvents)

(* The mock provider: the counters drift upwards from the previous sample's. *)
MockSample(prev) ==
  [ t |-> now, since |-> prev.t, calls |-> [p \in Procs |-> 1], vanished |-> {},
    gen |-> generation,
    counters |-> [c \in Counters |-> IF prev.counters[c] < MaxCount
                                     THEN prev.counters[c] + 1 ELSE MaxCount] ]

----------------------------------------------------------------------------
(* startTelemetry, run at mount and by a change of settings.dataMode *)

Started(mode, g) ==
  IF mode = "live" THEN Empty(mode)
  ELSE [Empty(mode) EXCEPT
          !.samples = << [t |-> now, since |-> now, calls |-> [p \in Procs |-> 1],
                          vanished |-> {}, gen |-> g, counters |-> Zero] >>,
          !.lastSuccessAt = now, !.health = "up"]

FirstDelay(mode, ms) == IF mode = "live" THEN Quick ELSE ms

(* The cleanup of the old effect, then the new one.                         *)
Switch(mode) ==
  /\ mode # state.mode /\ Trouble
  /\ generation' = generation + 1
  /\ prevRaw' = None
  /\ state' = Started(mode, generation + 1)
  /\ SetTimer(Cleared(timeouts), generation + 1, FirstDelay(mode, pollMs))
  /\ returns' = 0 /\ sound' = TRUE
  /\ UNCHANGED <<now, hidden, pollMs, flights, cluster>>

SetPollInterval(ms) ==
  /\ ms # pollMs /\ Trouble
  /\ pollMs' = ms
  /\ UNCHANGED <<now, hidden, generation, state, prevRaw, timeouts, timer, flights, cluster,
                 returns, sound>>

(* onVis *)
Hide ==
  /\ ~hidden /\ Trouble
  /\ hidden' = TRUE
  /\ state' = [state EXCEPT !.paused = TRUE]
  /\ UNCHANGED <<now, pollMs, generation, prevRaw, timeouts, timer, flights, cluster, returns,
                 sound>>

InFlight(g) == {f \in flights : f.gen = g}

(* The pending timeout is replaced by a quick one.  A tick in flight is not *)
(* looked for: its end will set a timeout of its own.                       *)
Show ==
  /\ hidden
  /\ hidden' = FALSE
  /\ state' = [state EXCEPT !.paused = FALSE]
  /\ SetTimer(Cleared(timeouts), generation, Quick)
  /\ returns' = IF InFlight(generation) # {} THEN returns + 1 ELSE returns
  /\ UNCHANGED <<now, pollMs, generation, prevRaw, flights, cluster, troubles, sound>>

----------------------------------------------------------------------------
(* tick *)

Waiting == [st |-> "waiting"]
Failed  == [st |-> "failed"]

Drop(x) ==
  /\ x.gen # generation
  /\ timeouts' = timeouts \ {x}
  /\ UNCHANGED <<now, hidden, poller, timer, flights, cluster, history>>

TickPaused(x) ==
  /\ x.gen = generation /\ state.paused
  /\ SetTimer(timeouts \ {x}, x.gen, pollMs)
  /\ UNCHANGED <<now, hidden, poller, flights, cluster, history>>

TickMock(x) ==
  /\ x.gen = generation /\ ~state.paused /\ state.mode = "mock"
  /\ LET s == MockSample(Last(state.samples))
     IN  state' = [state EXCEPT !.samples = Pushed(@, s),
                                !.events = EventsFrom(state.samples, s, @),
                                !.lastSuccessAt = now, !.ticked = TRUE]
  /\ SetTimer(timeouts \ {x}, x.gen, pollMs)
  /\ UNCHANGED <<now, hidden, pollMs, generation, prevRaw, flights, cluster, history>>

(* liveTick up to its await: the clock is read and the requests are sent.   *)
TickLive(x) ==
  /\ x.gen = generation /\ ~state.paused /\ state.mode = "live"
  /\ timeouts' = timeouts \ {x}
  /\ flights' = flights \cup {[id |-> FreeId(flights), gen |-> x.gen, t |-> now,
                               stats |-> Waiting, counters |-> Waiting]}
  /\ sound' = (sound /\ InFlight(generation) = {})
  /\ UNCHANGED <<now, hidden, poller, timer, cluster, returns, troubles>>

(* Firing: a timeout whose time has come runs tick.                         *)
Fire(x) == x.due <= now /\ (Drop(x) \/ TickPaused(x) \/ TickMock(x) \/ TickLive(x))

(* A request is served, the statistics and the counters each at a moment of *)
(* their own, or fails.  What is answered to a tick of an earlier           *)
(* generation is of no account, and left out.                               *)
Answered(f, g) ==
  /\ f.gen = generation
  /\ flights' = (flights \ {f}) \cup {g}
  /\ UNCHANGED <<now, hidden, poller, timeouts, timer, cluster, returns, sound>>

ServeStats(f) ==
  /\ f.stats = Waiting
  /\ LET called == {p \in Procs : cluster.inv[p] > 0}
     IN  Answered(f, [f EXCEPT !.stats = [st |-> "ok", inv |-> [p \in called |-> cluster.inv[p]]]])
  /\ UNCHANGED troubles

ServeCounters(f) ==
  /\ f.counters = Waiting
  /\ Answered(f, [f EXCEPT !.counters = [st |-> "ok", val |-> cluster.counters]])
  /\ UNCHANGED troubles

RequestFails(f) ==
  /\ Trouble
  /\ \/ f.stats = Waiting /\ Answered(f, [f EXCEPT !.stats = Failed])
     \/ f.counters = Waiting /\ Answered(f, [f EXCEPT !.counters = Failed])

----------------------------------------------------------------------------
(* liveTick after its await, and the rest of tick *)

Poll(f) ==
  [ t |-> f.t, gen |-> f.gen, inv |-> f.stats.inv,
    counters |-> IF f.counters.st = "ok" THEN f.counters.val ELSE Zero ]

(* Defective: the counts are not compared.                                  *)
BugRestarted(raw) == raw.t <= prevRaw.t
(* A procedure of the new answer counts fewer calls than before, or no time *)
(* has passed.                                                              *)
Restarted(raw) ==
  \/ \E p \in DOMAIN raw.inv : raw.inv[p] < At(prevRaw.inv, p)
  \/ raw.t <= prevRaw.t

SampleOf(raw) ==
  [ t |-> raw.t, since |-> prevRaw.t, gen |-> raw.gen, counters |-> raw.counters,
    calls |-> [p \in Procs |-> At(raw.inv, p) - At(prevRaw.inv, p)],
    vanished |-> DOMAIN prevRaw.inv \ DOMAIN raw.inv ]

(* The health the poll reports, and whether its latency request failed.     *)
(* liveHealth catches its errors, so health is never missing.  Bound: not   *)
(* both troubles in a poll.                                                 *)
Reports == {<<"up", FALSE>>, <<"up", TRUE>>, <<"down", FALSE>>}

(* Defective: the error of a failed poll is not kept.                       *)
BugNoStatistics(health) ==
  /\ state' = [state EXCEPT !.health = health, !.ticked = TRUE]
  /\ prevRaw' = None
  /\ UNCHANGED sound
NoStatistics(health) ==
  /\ state' = [state EXCEPT !.health = health, !.lastError = TRUE, !.ticked = TRUE]
  /\ prevRaw' = None
  /\ UNCHANGED sound

(* The new baseline, and what it makes of samples and events.               *)
NoBaseline(s) == s
ClearedBaseline(s) == [s EXCEPT !.samples = <<>>, !.events = <<>>, !.baselineReset = TRUE]
Extended(s, raw) ==
  LET sample == SampleOf(raw)
  IN  [s EXCEPT !.samples = Pushed(@, sample),
                !.events = EventsFrom(s.samples, sample, @),
                !.baselineReset = FALSE]

Commit(f, health, failure) ==
  LET raw  == Poll(f)
      next == IF prevRaw = None THEN NoBaseline(state)
              ELSE IF Restarted(raw) THEN ClearedBaseline(state)
              ELSE Extended(state, raw)
  IN  /\ state' = [next EXCEPT !.health = health, !.tables = f.gen, !.lastError = failure,
                               !.lastSuccessAt = f.t, !.ticked = TRUE]
      /\ prevRaw' = raw
      /\ sound' = (f.counters.st = "ok" /\ Cardinality(InFlight(generation)) = 1
                   /\ (sound \/ next.samples = <<>>))

(* Defective: the generation is not looked at after the await.              *)
BugIsStale(f) == FALSE
(* A tick of an earlier generation ends without a trace and without a       *)
(* successor.                                                               *)
IsStale(f) == f.gen # generation

EndStale(f) ==
  /\ IsStale(f)
  /\ flights' = flights \ {f}
  /\ UNCHANGED <<now, hidden, poller, timeouts, timer, cluster, history>>

(* Defective: a poll that failed does not set the next timeout.             *)
BugContinue(f) ==
  IF f.stats = Failed THEN UNCHANGED <<timeouts, timer>> ELSE SetTimer(timeouts, f.gen, pollMs)
Continue(f) == SetTimer(timeouts, f.gen, pollMs)

EndTick(f, health, latencyFails) ==
  /\ IF health = "down" \/ latencyFails THEN Trouble ELSE UNCHANGED troubles
  /\ Waiting \notin {f.stats, f.counters} /\ ~IsStale(f)
  /\ flights' = flights \ {f}
  /\ IF f.stats = Failed THEN NoStatistics(health)
     ELSE Commit(f, health, latencyFails \/ f.counters = Failed)
  /\ Continue(f)
  /\ UNCHANGED <<now, hidden, pollMs, generation, cluster, returns>>

----------------------------------------------------------------------------
(* The cluster and the clock (external) *)

(* Bounds. *)
Advance ==
  /\ now + troubles < MaxTime /\ \A x \in timeouts : now < x.due + MaxLate
  /\ now' = now + 1
  /\ UNCHANGED <<hidden, poller, timeouts, timer, flights, cluster, history>>

(* Bounds: how much is counted, and only while a request is still to be     *)
(* served, to which anything counted before it could as well be delayed.    *)
MayCount ==
  /\ SumFunction(cluster.inv) + SumFunction(cluster.counters) < MaxCount
  /\ \E f \in InFlight(generation) : Waiting \in {f.stats, f.counters}

CallProcedure(p) ==
  /\ MayCount
  /\ cluster' = [cluster EXCEPT !.inv[p] = @ + 1]
  /\ UNCHANGED <<now, hidden, poller, timeouts, timer, flights, history>>

Reject(c) ==
  /\ MayCount
  /\ cluster' = [cluster EXCEPT !.counters[c] = @ + 1]
  /\ UNCHANGED <<now, hidden, poller, timeouts, timer, flights, history>>

Fresh == [inv |-> [p \in Procs |-> 0], counters |-> Zero]

(* Statistics start over; the counters' table may be kept.                  *)
RestartCluster ==
  /\ Trouble
  /\ \E c \in {Zero, cluster.counters} :
       cluster' = [inv |-> [p \in Procs |-> 0], counters |-> c]
  /\ sound' = FALSE
  /\ UNCHANGED <<now, hidden, poller, timeouts, timer, flights, returns>>

Init ==
  \E mode \in Modes, ms \in Polls :
    /\ now = 0 /\ hidden \in BOOLEAN /\ pollMs = ms
    /\ generation = 1
    /\ state = Started(mode, 1)
    /\ prevRaw = None
    /\ timeouts = {[id |-> 1, gen |-> 1, due |-> FirstDelay(mode, ms)]} /\ timer = 1
    /\ flights = {}
    /\ cluster = Fresh
    /\ returns = 0 /\ troubles = (IF hidden THEN 1 ELSE 0) /\ sound = TRUE

Next ==
  \/ \E mode \in Modes : Switch(mode)
  \/ \E ms \in Polls : SetPollInterval(ms)
  \/ Hide \/ Show
  \/ \E x \in timeouts : Fire(x)
  \/ \E f \in flights :
       \/ ServeStats(f) \/ ServeCounters(f) \/ RequestFails(f)
       \/ EndStale(f)
       \/ \E report \in Reports : EndTick(f, report[1], report[2])
  \/ \E p \in Procs : CallProcedure(p)
  \/ \E c \in Counters : Reject(c)
  \/ RestartCluster \/ Advance

Spec == Init /\ [][Next]_vars

----------------------------------------------------------------------------
(* The shell's status *)

Stale == /\ state.lastSuccessAt # None
         /\ now - state.lastSuccessAt > 2 * pollMs + Slack

Unreachable == /\ state.lastError
               /\ state.health # "up" \/ (state.ticked /\ state.samples = <<>>)

Idle == state.samples # <<>> /\ Last(state.samples).calls[Ingest] = 0

Status ==
  IF state.mode = "mock" THEN "mock"
  ELSE IF ~state.ticked THEN "connecting"
  ELSE IF Unreachable THEN "unreachable"
  ELSE IF Stale THEN "stale"
  ELSE IF Idle THEN "idle"
  ELSE "operational"

(* The light of the footer, the card of the cluster and the banners.        *)
Pill == IF state.mode = "mock" THEN "mock" ELSE IF Unreachable THEN "offline"
        ELSE IF Stale THEN "stale" ELSE "live"

ClusterCard == IF state.mode = "mock" THEN "mock"
               ELSE IF state.health = None THEN "connecting" ELSE state.health

Banners ==
  IF state.mode = "mock" THEN {"mock"}
  ELSE (IF state.baselineReset THEN {"reset"} ELSE {})
         \cup (IF Unreachable THEN {"unreachable"} ELSE {})

----------------------------------------------------------------------------
(* The rate of a counter that the pages show: over the samples no older     *)
(* than a window before the last one, or unknown.                           *)
CounterRate(samples, c, window) ==
  LET last  == Last(samples)
      first == samples[SelectInSeq(samples, LAMBDA s : s.t >= last.t - window)]
  IN  IF Len(samples) < 2 \/ last.t <= first.t THEN None
      ELSE [grew |-> last.counters[c] - first.counters[c], over |-> last.t - first.t]

----------------------------------------------------------------------------
(* Properties *)

CallCounts == [Procs -> 0 .. MaxCount]
Values     == [Counters -> 0 .. MaxCount]
Instants   == 0 .. MaxTime
Gens       == 1 .. MaxTroubles + 1
Samples ==
  [t : Instants, since : Instants, calls : [Procs -> -MaxCount .. MaxCount],
   vanished : SUBSET Procs, gen : Gens, counters : Values]
Entries == [t : Instants, name : Counters, delta : 1 .. MaxCount]

(* The store, the timeouts and the requests in flight are well typed; the   *)
(* ring and the feed keep their length.                                     *)
TypeOK ==
  /\ now \in Instants /\ hidden \in BOOLEAN /\ pollMs \in Polls /\ generation \in Gens
  /\ state.mode \in Modes
  /\ \A i \in DOMAIN state.samples : state.samples[i] \in Samples
  /\ Len(state.samples) <= MaxSamples
  /\ \A i \in DOMAIN state.events : state.events[i] \in Entries
  /\ Len(state.events) <= MaxEvents
  /\ {state.paused, state.lastError, state.ticked, state.baselineReset} \subseteq BOOLEAN
  /\ state.health \in {None, "up", "down"} /\ state.lastSuccessAt \in {None} \cup Instants
  /\ \A x, y \in timeouts : x.id = y.id => x = y
  /\ \A f, g \in flights : f.id = g.id => f = g
  /\ cluster.inv \in CallCounts /\ cluster.counters \in Values

Chains(g) == Cardinality({x \in timeouts : x.gen = g}) + Cardinality(InFlight(g))

(* Polling never dies: whatever was hidden, shown, switched or failed, the  *)
(* provider in use has a timeout pending or a tick in flight.               *)
ChainAlive ==
  (\E x \in timeouts : x.gen = generation) \/ (\E f \in flights : f.gen = generation)

(* telemetry.ts:5, "providers never mix": the samples, the baseline and the *)
(* statistics all come from the start in use, also when an earlier one's    *)
(* requests are answered after the switch.                                  *)
ProvidersNeverMix ==
  /\ \A i \in DOMAIN state.samples : state.samples[i].gen = generation
  /\ prevRaw # None => prevRaw.gen = generation /\ state.mode = "live"
  /\ state.tables \in {None, generation}
  /\ state.mode = "mock" => state.tables = None /\ ~state.lastError

(* A chain is added to the first one only by a return of the page during a  *)
(* tick: onVis clears the timeout it knows of and starts another.           *)
ChainsNeedReturns == Chains(generation) <= 1 + returns

DeltasOf(events, c) ==
  [i \in DOMAIN events |-> IF events[i].name = c THEN events[i].delta ELSE 0]

FeedTotal(c) == SumFunction(DeltasOf(state.events, c))

(* The hygiene feed accounts for the counters: its entries add up to what   *)
(* they grew by between the first sample and the last, also across polls    *)
(* that failed; it takes a restart, a failed GetCounters or two ticks at a  *)
(* time to make it say otherwise.  While the banner says that a new         *)
(* baseline is collected, nothing of before the reset is shown.             *)
EventsAccountForCounters ==
  /\ "reset" \in Banners => state.samples = <<>> /\ state.events = <<>>
  /\ /\ state.mode = "live" /\ sound /\ state.samples # <<>>
     /\ Len(state.samples) < MaxSamples /\ Len(state.events) < MaxEvents
     => \A c \in Counters :
          FeedTotal(c) = Last(state.samples).counters[c] - Head(state.samples).counters[c]

(* Every sample spans some time, and a rate below zero is only of a         *)
(* procedure that the cluster no longer reports at all, or of a counter     *)
(* over polls between which something was lost.                             *)
NegativeRateMeansVanished ==
  state.mode = "live" =>
    /\ \A i \in DOMAIN state.samples :
         LET s == state.samples[i]
         IN  s.since < s.t /\ \A p \in Procs : s.calls[p] < 0 => p \in s.vanished
    /\ sound => \A c \in Counters, window \in Instants :
         LET rate == CounterRate(state.samples, c, window)
         IN  rate = None \/ rate.grew >= 0

(* The shell says that all is operational only when a poll of the provider  *)
(* in use has succeeded, no longer ago than two intervals and the slack;    *)
(* the footer and the banners then say so too, and the health is known,     *)
(* though it may be bad.                                                    *)
GreenIsEarned ==
  Status = "operational" =>
    /\ state.tables = generation /\ state.lastSuccessAt # None
    /\ now - state.lastSuccessAt <= 2 * pollMs + Slack
    /\ Pill = "live" /\ Banners \subseteq {"reset"} /\ ClusterCard # "connecting"
=============================================================================
