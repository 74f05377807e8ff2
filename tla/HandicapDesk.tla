---------------------------- MODULE HandicapDesk ----------------------------
(***************************************************************************)
(* The V2 handicap calculator: marks for one event of a competition day.   *)
(*                                                                         *)
(* Threads of one process calculate events.  Each takes one snapshot of    *)
(* the prediction artifacts (a file provider with a cache that is keyed by *)
(* file signatures), predicts every entrant from it, orders the field and  *)
(* searches the marks.  The legacy engine corrects its predictions by a    *)
(* bias read from the cloud, behind a circuit breaker that all threads     *)
(* share.  An operator may replace the artifact files at any time.         *)
(*                                                                         *)
(* Times are whole seconds, a posterior is its median and the noise of     *)
(* each simulated race; the tolerance of the objective (1e-12) is below    *)
(* the grain of whole counts and is exact here.                            *)
(***************************************************************************)
EXTENDS Integers, Sequences, FiniteSets, FiniteSetsExt, SequencesExt

CONSTANTS
  Calculators,      \* threads
  DayPlan,          \* thread -> the events it calculates, in order
  EventSpecs,       \* event -> [engine, entrants: Seq of [id, manual, history], ceiling]
  Installs,         \* the pairs [core, residual] that an operator may install
  CoreTimes,        \* core version -> entrant -> median
  ResidualShift,    \* residual -> seconds it adds to the median
  LegacyTimes,      \* entrant -> legacy baseline
  PanelTime,        \* the broad event prior
  Bias,             \* seconds that the bias read subtracts
  RaceNoise,        \* simulated race -> position -> seconds
  Ceilings,         \* the mark ceilings an event may set
  MaxExhaustive,    \* largest number of sheets that is searched completely
  MaxPasses,        \* coordinate passes
  BreakerWindow, BreakerThreshold,
  MaxReplacements, MaxDeskClock

MarkFloorSeconds == 3
NoTime == 0

\* Events are known, their entrants have the times that their engine reads, and those are numbers.
ASSUME DeskAssumption ==
  /\ PanelTime \in Int /\ Bias \in Int
  /\ \A plan \in DayPlan : \A w \in Calculators : plan[w] \in Seq(DOMAIN EventSpecs)
  /\ \A v \in DOMAIN CoreTimes : ResidualShift[v] \in Int
  /\ \A e \in DOMAIN EventSpecs :
       Len(EventSpecs[e].entrants) \in Nat /\ DOMAIN EventSpecs[e].entrants = 1..Len(EventSpecs[e].entrants)
  /\ \A e \in DOMAIN EventSpecs : \A n \in DOMAIN EventSpecs[e].entrants :
       LET x == EventSpecs[e].entrants[n] IN
       /\ x.manual \in Int
       /\ EventSpecs[e].engine = "v2" => \A v \in DOMAIN CoreTimes : CoreTimes[v][x.id] \in Int
       /\ EventSpecs[e].engine = "legacy" => LegacyTimes[x.id] \in Int

VARIABLES
  files,       \* [stamp, core, residual]: the artifact files and their signature
  cacheKey, cacheBundle,   \* the provider's cache
  loader,      \* the thread that holds the provider's lock
  desk,        \* thread -> its calculation
  finished,    \* thread -> its last result [event, entries, medians, marks]
  breaker,     \* [state, failures, trippedAt, probe]
  deskClock

deskVars == <<files, cacheKey, cacheBundle, loader, desk, finished, breaker, deskClock>>

Nobody == "nobody"
NoResult == [event |-> "none", entries |-> <<>>, medians |-> <<>>, marks |-> <<>>]

-----------------------------------------------------------------------------
(* Marks.                                                                  *)

Clamp(low, high, x) == IF x < low THEN low ELSE IF x > high THEN high ELSE x

\* The rounded gap to the slowest median.
RoundedGapMarks(medians, ceiling) ==
  LET slowest == Max({ medians[i] : i \in DOMAIN medians })
  IN  [i \in DOMAIN medians |-> Clamp(MarkFloorSeconds, ceiling, MarkFloorSeconds + slowest - medians[i])]

\* Finishes of one simulated race; the first of equal finishers wins.
Finishes(medians, marks, race) ==
  [i \in DOMAIN medians |-> medians[i] + RaceNoise[race][i] + marks[i] - MarkFloorSeconds]
Winner(finish) ==
  Min({ i \in DOMAIN finish : \A j \in DOMAIN finish : finish[i] <= finish[j] })

\* Unequal chances first, then the spread, then the distance from the rounded gaps, then the sheet.
MarkObjective(medians, marks, gaps) ==
  LET races == DOMAIN RaceNoise
      n == Len(medians)
      winners == { <<r, Winner(Finishes(medians, marks, r))>> : r \in races }
      wins(i) == Cardinality({ v \in winners : v[2] = i })
      spread(r) == LET f == Finishes(medians, marks, r)
                   IN  Max({ f[i] : i \in DOMAIN f }) - Min({ f[i] : i \in DOMAIN f })
      off(i) == n * wins(i) - Cardinality(races)
      gap(i) == IF marks[i] > gaps[i] THEN marks[i] - gaps[i] ELSE gaps[i] - marks[i]
  IN  <<MapThenSumSet(LAMBDA i : off(i) * off(i), 1..n),
        MapThenSumSet(spread, races),
        MapThenSumSet(gap, 1..n)>> \o marks

BetterSheet(one, other) ==
  \E k \in DOMAIN one : one[k] < other[k] /\ \A j \in 1..(k - 1) : one[j] = other[j]

\* The field is ordered by median, slowest first: that one starts on the floor, and nobody
\* starts before a slower entrant.
IsOrdered(marks, ceiling) ==
  /\ marks[1] = MarkFloorSeconds /\ marks[Len(marks)] <= ceiling
  /\ \A i \in 2..Len(marks) : marks[i - 1] <= marks[i]
OrderedSheets(n, ceiling) ==
  { marks \in [1..n -> MarkFloorSeconds..ceiling] : IsOrdered(marks, ceiling) }

BestOf(medians, gaps, sheets) ==
  LET objectives == { MarkObjective(medians, m, gaps) : m \in sheets }
      best == CHOOSE o \in objectives : \A p \in objectives \ {o} : BetterSheet(o, p)
  IN  SubSeq(best, 4, Len(best))   \* an objective ends in its sheet

\* The values that one mark may take between its neighbours.
MutantCoordinateRange(marks, i, ceiling) ==
  IF i = 1 THEN {MarkFloorSeconds} ELSE MarkFloorSeconds..ceiling
CoordinateRange(marks, i, ceiling) ==
  IF i = 1 THEN {MarkFloorSeconds}
  ELSE marks[i - 1]..(IF i = Len(marks) THEN ceiling ELSE marks[i + 1])

CoordinatePass(medians, gaps, ceiling, marks) ==
  FoldLeft(LAMBDA m, i : BestOf(medians, gaps,
             {m} \cup { [m EXCEPT ![i] = c] : c \in CoordinateRange(m, i, ceiling) }),
           marks, [i \in 1..Len(medians) |-> i])

OptimizedMarks(medians, ceiling) ==
  LET gaps == RoundedGapMarks(medians, ceiling)
      all == OrderedSheets(Len(medians), ceiling)
      found == IF Cardinality(all) <= MaxExhaustive THEN BestOf(medians, gaps, all)
               ELSE FoldLeft(LAMBDA m, p : CoordinatePass(medians, gaps, ceiling, m), gaps,
                             [p \in 1..MaxPasses |-> p])
  IN  IF BetterSheet(MarkObjective(medians, gaps, gaps), MarkObjective(medians, found, gaps))
      THEN gaps ELSE found

-----------------------------------------------------------------------------
(* Prediction artifacts.                                                   *)

NoBundle == [core |-> "none", residual |-> "none"]
Signature(f) == f.stamp

\* A residual is active only over the core it was trained on; without a core there is nothing.
ResidualFor(core, residual) ==
  IF core \in DOMAIN CoreTimes /\ residual = core THEN residual ELSE "none"
PanelPrediction == [time |-> PanelTime, by |-> "panel"]
\* The median of an entrant from a bundle with a core.
ModelTime(entrant, bundle) ==
  CoreTimes[bundle.core][entrant.id] + IF bundle.residual = "none" THEN 0 ELSE ResidualShift[bundle.residual]
\* manual, then residual, then core, then the broad prior.
BestPrediction(entrant, bundle) ==
  CASE entrant.manual # NoTime -> [time |-> entrant.manual, by |-> "manual"]
    [] entrant.manual = NoTime /\ bundle.core \in DOMAIN CoreTimes /\ bundle.residual # "none" ->
         [time |-> ModelTime(entrant, bundle), by |-> "ml"]
    [] entrant.manual = NoTime /\ bundle.core \in DOMAIN CoreTimes /\ bundle.residual = "none" ->
         [time |-> ModelTime(entrant, bundle), by |-> "baseline"]
    [] OTHER -> PanelPrediction

-----------------------------------------------------------------------------
(* A calculation.                                                          *)

IdleDesk(left) == [step |-> "idle", left |-> left]
SpecOf(d) == EventSpecs[Head(d.left)]

\* The caller's input is validated before anything is read.
InputsAreValid(spec) ==
  /\ Len(spec.entrants) > 0 /\ spec.ceiling \in Ceilings
  /\ \A i, j \in DOMAIN spec.entrants : i # j => spec.entrants[i].id # spec.entrants[j].id

BeginEvent(w) ==
  /\ desk[w].step = "idle" /\ desk[w].left # <<>>
  /\ desk' = [desk EXCEPT ![w] =
       IF InputsAreValid(SpecOf(@)) THEN [step |-> "stat", left |-> @.left] ELSE IdleDesk(Tail(@.left))]
  /\ UNCHANGED <<files, cacheKey, cacheBundle, loader, finished, breaker, deskClock>>

\* The signatures of both files are taken outside the lock.
StatArtifacts(w) ==
  /\ desk[w].step = "stat"
  /\ desk' = [desk EXCEPT ![w] = [step |-> "lock", left |-> @.left, key |-> Signature(files)]]
  /\ UNCHANGED <<files, cacheKey, cacheBundle, loader, finished, breaker, deskClock>>

NewPrediction(d, bundle) == [step |-> "predict", left |-> d.left, bundle |-> bundle, entries |-> <<>>]

TakeLock(w) ==
  /\ desk[w].step = "lock" /\ loader = Nobody
  /\ IF cacheKey = desk[w].key
     THEN desk' = [desk EXCEPT ![w] = NewPrediction(@, cacheBundle)] /\ UNCHANGED loader
     ELSE desk' = [desk EXCEPT ![w].step = "core"] /\ loader' = w
  /\ UNCHANGED <<files, cacheKey, cacheBundle, finished, breaker, deskClock>>

ReadCore(w) ==
  /\ desk[w].step = "core"
  /\ desk' = [desk EXCEPT ![w] = [step |-> "residual", left |-> @.left, key |-> @.key,
                                  core |-> files.core]]
  /\ UNCHANGED <<files, cacheKey, cacheBundle, loader, finished, breaker, deskClock>>

\* Reading the residual ends the load: the bundle is kept under the signature taken before.
MutantCacheKeyOf(d) == Signature(files)
CacheKeyOf(d) == d.key
ReadResidual(w) ==
  /\ desk[w].step = "residual"
  /\ LET bundle == IF desk[w].core \notin DOMAIN CoreTimes THEN NoBundle
                   ELSE [core |-> desk[w].core, residual |-> ResidualFor(desk[w].core, files.residual)] IN
     /\ cacheKey' = CacheKeyOf(desk[w])
     /\ cacheBundle' = bundle
     /\ desk' = [desk EXCEPT ![w] = NewPrediction(@, bundle)]
  /\ loader' = Nobody
  /\ UNCHANGED <<files, finished, breaker, deskClock>>

Entry(entrant, prediction, bundle) ==
  [id |-> entrant.id, time |-> prediction.time, by |-> prediction.by, bundle |-> bundle]
NextEntrant(d) == SpecOf(d).entrants[Len(d.entries) + 1]

\* All entrants are predicted from the snapshot of their calculation.
PredictWith(d) == d.bundle
PredictEntrant(w) ==
  /\ desk[w].step = "predict" /\ Len(desk[w].entries) < Len(SpecOf(desk[w]).entrants)
  /\ SpecOf(desk[w]).engine = "v2"
  /\ LET entrant == NextEntrant(desk[w])
         bundle == PredictWith(desk[w]) IN
     desk' = [desk EXCEPT ![w].entries = Append(@, Entry(entrant, BestPrediction(entrant, bundle), bundle))]
  /\ UNCHANGED <<files, cacheKey, cacheBundle, loader, finished, breaker, deskClock>>

\* Slowest first; the sort is stable: an entry's place is one more than the entries before it.
Precedes(entries, i, j) ==
  entries[i].time > entries[j].time \/ (entries[i].time = entries[j].time /\ i < j)
PlaceOf(entries, j) == 1 + Cardinality({ i \in DOMAIN entries : Precedes(entries, i, j) })
SlowestFirst(entries) ==
  [k \in DOMAIN entries |-> entries[CHOOSE j \in DOMAIN entries : PlaceOf(entries, j) = k]]

FinishEvent(w) ==
  /\ desk[w].step = "predict" /\ Len(desk[w].entries) = Len(SpecOf(desk[w]).entrants)
  /\ LET field == SlowestFirst(desk[w].entries)
         medians == [i \in DOMAIN field |-> field[i].time] IN
     finished' = [finished EXCEPT ![w] =
       [event |-> Head(desk[w].left), entries |-> field, medians |-> medians,
        marks |-> OptimizedMarks(medians, SpecOf(desk[w]).ceiling)]]
  /\ desk' = [desk EXCEPT ![w] = IdleDesk(Tail(@.left))]
  /\ UNCHANGED <<files, cacheKey, cacheBundle, loader, breaker, deskClock>>

\* The operator installs other files; the signature changes with every write.
ReplaceFiles(i) ==
  /\ files.stamp <= MaxReplacements
  /\ files' = [stamp |-> files.stamp + 1, core |-> i.core, residual |-> i.residual]
  /\ UNCHANGED <<cacheKey, cacheBundle, loader, desk, finished, breaker, deskClock>>

-----------------------------------------------------------------------------
(* The legacy engine and the circuit breaker of its bias read.             *)

ClosedBreaker == [state |-> "closed", failures |-> <<>>, trippedAt |-> 0, probe |-> FALSE]
Recent(failures) == SelectSeq(failures, LAMBDA t : t >= deskClock - BreakerWindow)
Cooled == breaker.state = "open" /\ deskClock - breaker.trippedAt > BreakerWindow
Probing == Cooled \/ (breaker.state = "half-open" /\ ~breaker.probe)

\* allow(): everyone while closed, one probe after the window.
Admits == breaker.state = "closed" \/ Probing

\* A manual time, or the baseline of the entrant before its correction.
LegacyBaseline(entrant) ==
  IF entrant.manual # NoTime THEN [time |-> entrant.manual, by |-> "manual"]
  ELSE [time |-> LegacyTimes[entrant.id], by |-> "baseline"]
BiasCorrected(time, by) == IF by = "manual" THEN time ELSE time - Bias

AskBias(w) ==
  /\ desk[w].step = "predict" /\ Len(desk[w].entries) < Len(SpecOf(desk[w]).entrants)
  /\ SpecOf(desk[w]).engine = "legacy"
  /\ LET entrant == NextEntrant(desk[w])
         entry == Entry(entrant, LegacyBaseline(entrant), desk[w].bundle) IN
     IF Admits
     THEN desk' = [desk EXCEPT ![w].step = IF Probing THEN "probe" ELSE "bias",
                               ![w].entries = Append(@, entry)]
     ELSE desk' = [desk EXCEPT ![w].entries = Append(@, entry)]
  /\ breaker' = [breaker EXCEPT
       !.failures = Recent(@),
       !.state = IF Probing THEN "half-open" ELSE @,
       !.probe = IF Probing THEN TRUE ELSE @]
  /\ UNCHANGED <<files, cacheKey, cacheBundle, loader, finished, deskClock>>

\* The read succeeded, whoever asked and however long ago.
BiasArrives(w) ==
  /\ desk[w].step \in {"bias", "probe"}
  /\ LET entries == desk[w].entries
         n == Len(entries)
         corrected == [entries EXCEPT ![n].time = BiasCorrected(@, entries[n].by)] IN
     desk' = [desk EXCEPT ![w].step = "predict", ![w].entries = corrected]
  /\ breaker' = ClosedBreaker
  /\ UNCHANGED <<files, cacheKey, cacheBundle, loader, finished, deskClock>>

\* It failed: any failure while half-open trips again, THRESHOLD recent ones trip a closed breaker.
AfterFailure ==
  LET failures == Append(Recent(breaker.failures), deskClock) IN
  IF breaker.state = "half-open"
  THEN [breaker EXCEPT !.state = "open", !.trippedAt = deskClock, !.probe = FALSE]
  ELSE IF breaker.state = "closed" /\ Len(failures) >= BreakerThreshold
  THEN [breaker EXCEPT !.state = "open", !.trippedAt = deskClock, !.failures = failures]
  ELSE [breaker EXCEPT !.failures = failures]
BiasFails(w) ==
  /\ desk[w].step \in {"bias", "probe"}
  /\ breaker' = AfterFailure
  /\ desk' = [desk EXCEPT ![w].step = "predict"]
  /\ UNCHANGED <<files, cacheKey, cacheBundle, loader, finished, deskClock>>

DeskTick ==
  /\ deskClock < MaxDeskClock /\ deskClock' = deskClock + 1
  /\ breaker.failures # <<>> \/ breaker.state # "closed"   \* otherwise no operation reads the clock
  /\ UNCHANGED <<files, cacheKey, cacheBundle, loader, desk, finished, breaker>>

-----------------------------------------------------------------------------
DeskInit ==
  /\ \E i \in Installs : files = [stamp |-> 1, core |-> i.core, residual |-> i.residual]
  /\ cacheKey = 0 /\ cacheBundle = NoBundle /\ loader = Nobody
  /\ \E plan \in DayPlan : desk = [w \in Calculators |-> IdleDesk(plan[w])]
  /\ finished = [w \in Calculators |-> NoResult]
  /\ breaker = ClosedBreaker
  /\ deskClock = 1

DeskNext ==
  \/ \E w \in Calculators :
       \/ BeginEvent(w) \/ StatArtifacts(w) \/ TakeLock(w) \/ ReadCore(w) \/ ReadResidual(w)
       \/ PredictEntrant(w) \/ FinishEvent(w)
       \/ AskBias(w) \/ BiasArrives(w) \/ BiasFails(w)
  \/ \E i \in Installs : ReplaceFiles(i)
  \/ DeskTick

DeskSpec == DeskInit /\ [][DeskNext]_deskVars

-----------------------------------------------------------------------------
(* A field is predicted by one set of artifacts, although the files and    *)
(* the shared cache may change between two of its entrants.                *)
OneBundlePerField ==
  \A w \in Calculators : LET r == finished[w] IN \A i, j \in DOMAIN r.entries : r.entries[i].bundle = r.entries[j].bundle

(* Whenever the signatures still match, the cached bundle is what is on    *)
(* disk: a file replaced during a load is picked up by the next snapshot   *)
(* (FilePredictionProvider.snapshot takes the signatures before the lock). *)
CacheIsFresh ==
  cacheKey = Signature(files) =>
    cacheBundle = (IF files.core \notin DOMAIN CoreTimes THEN NoBundle
                   ELSE [core |-> files.core, residual |-> ResidualFor(files.core, files.residual)])

(* Whichever search ran, a faster entrant never starts before a slower     *)
(* one, the slowest starts on the floor, and the sheet is at least as good *)
(* as the rounded gaps it replaces.                                        *)
SheetHolds(r) ==
  LET ceiling == EventSpecs[r.event].ceiling
      gaps == RoundedGapMarks(r.medians, ceiling) IN
  /\ IsOrdered(r.marks, ceiling)
  /\ ~BetterSheet(MarkObjective(r.medians, gaps, gaps), MarkObjective(r.medians, r.marks, gaps))
MarksKeepTheOrder ==
  [][\A w \in Calculators : finished'[w] # finished[w] => SheetHolds(finished'[w])]_deskVars

(* A half-open breaker waits for a probe that some thread is really        *)
(* making, and an open one is left after its window: the bias correction   *)
(* is never disabled for good.                                             *)
BreakerIsNeverStuck ==
  /\ breaker.state = "half-open" /\ breaker.probe => \E w \in Calculators : desk[w].step = "probe"
  /\ Cooled => Admits

(* Whatever files, caches and breakers do meanwhile, a field is predicted  *)
(* by one current set of artifacts and the correction comes back.          *)
PredictionsAreCoherent == OneBundlePerField /\ CacheIsFresh /\ BreakerIsNeverStuck
=============================================================================
