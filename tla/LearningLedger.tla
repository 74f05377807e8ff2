--------------------------- MODULE LearningLedger ---------------------------
(* What a settled result teaches.  The settlement dispatcher takes the       *)
(* settled sources in order and derives from each one the capability state   *)
(* of its competitor (capability_reactions.py) and the credibility of the    *)
(* assessors that forecast it (credibility_reactions.py): opportunities,     *)
(* scores, the reversal of those of a superseded revision, and a weight      *)
(* receipt.  Each record is a command of its own, so that a process may stop *)
(* between any two of them, and the API's threads may run the dispatcher     *)
(* side by side.  An exception is a stop like any other: the caller's thread *)
(* returns and recover_pending starts again from the log.                    *)
(*                                                                           *)
(* The log is llog; the position of an event is its global sequence and also *)
(* its time.  A distribution, a score's metrics and a weight are left out: a *)
(* capability state is the set of the revisions it was advanced with, a      *)
(* weight receipt the set of the records it was calibrated from.             *)
EXTENDS Naturals, Sequences, FiniteSets, FiniteSetsExt, SequencesExt

CONSTANTS Entries,          \* results: a competitor in an issued field
          EntryRace,        \* the field of an entry
          EntryShow,        \* its tournament
          EntrySubject,     \* its competitor and context
          Assessors,        \* the assessors that forecast
          Operational,      \* FORMULA and ML; the others are diagnostic
          Reactors,         \* threads that run the dispatcher
          LearnSetup,       \* what has happened already
          MaxLearnRevisions,
          MaxLineageRows,   \* the signed capacity envelope
          MaxLearnEvents

VARIABLES llog,             \* v3_events
          reactor           \* what a dispatcher holds in memory

learnVars == <<llog, reactor>>

LearnedAt(k) == { i \in DOMAIN llog : llog[i].kind = k }
LearnRoom(n) == Len(llog) + n <= MaxLearnEvents

----------------------------------------------------------------------------
(* Results and their settlement.                                            *)

ResultsOf(e) == { i \in LearnedAt("result") : llog[i].entry = e }
IsLatest(i) == i = Max(ResultsOf(llog[i].entry))

\* A settlement settles the latest revision of every member of its field.
Settlements(i) ==
  { j \in LearnedAt("settled") :
      /\ j > i /\ llog[j].race = EntryRace[llog[i].entry]
      /\ \A k \in ResultsOf(llog[i].entry) : k <= i \/ k > j }
SettledTime(i) == Min(Settlements(i))

RaceIssued(r) == \E i \in LearnedAt("issued") : llog[i].race = r
ShowClosed(s) == \E i \in LearnedAt("closed") : llog[i].show = s
StreamMembers(r) == { e \in Entries : EntryRace[e] = r }

Markers == {"capability", "credibility", "scoring", "coverage", "weights"}
Done(i, m) == \E j \in LearnedAt("done") : llog[j].src = i /\ llog[j].marker = m
SequenceDone(i) == \A m \in Markers : Done(i, m)

LearnPending == { i \in LearnedAt("result") : Settlements(i) # {} /\ ~SequenceDone(i) }

\* _settled_authority: the source must be the latest revision, and settled.
ActiveAuthority(i) == IsLatest(i) /\ Settlements(i) # {}

----------------------------------------------------------------------------
(* Capability: one stream of evidence per competitor and context.           *)

StreamOf(s) == { i \in LearnedAt("capability") : EntrySubject[llog[i].entry] = s }

\* replay_capability: the last revision of every result, when it has a raw time.
FoldedStream(stream) ==
  { <<llog[i].entry, llog[i].rev>> :
      i \in { j \in stream : /\ llog[j].counts
                             /\ \A k \in stream : llog[k].entry = llog[j].entry => llog[k].rev <= llog[j].rev } }

\* A first revision has no predecessor, a correction follows the last one.
Supersedes(i, stream) ==
  LET same == { llog[j].rev : j \in { k \in stream : llog[k].entry = llog[i].entry } }
  IN IF llog[i].rev = 1 THEN same = {} ELSE same # {} /\ Max(same) = llog[i].rev - 1

\* evaluate_rebase_capacity.
WithinCapacity(stream) == Cardinality(stream) + 1 <= MaxLineageRows

\* _advance: a state moved on by one result, which replaces its own earlier revision.
Advance(state, r) ==
  { x \in state : x[1] # r.entry } \cup (IF r.counts THEN {<<r.entry, r.rev>>} ELSE {})

\* The event with its receipt, made of the stream that was read.
CapabilityReceipt(i, stream) ==
  LET r == llog[i]
  IN [kind |-> "capability", src |-> i, entry |-> r.entry, rev |-> r.rev, counts |-> r.counts,
      before |-> FoldedStream(stream), after |-> Advance(FoldedStream(stream), r)]

CapabilityOf(i) == { j \in LearnedAt("capability") : llog[j].src = i }

\* What SQLiteCapabilityStateResolver.resolve_current accepts: every receipt is the
\* replay of the evidence before and after it, and the last one has a state.
ResolvesCurrent(s) ==
  LET stream == StreamOf(s)
  IN stream # {} =>
       /\ \A i \in stream : /\ llog[i].before = FoldedStream({ j \in stream : j < i })
                            /\ llog[i].after = FoldedStream({ j \in stream : j <= i })
       /\ llog[Max(stream)].after # {}

----------------------------------------------------------------------------
(* Credibility: an append-only ledger, folded from the log on every use.    *)

Opportunity(i, a, outcome) ==
  [kind |-> "opportunity", src |-> i, entry |-> llog[i].entry, rev |-> llog[i].rev,
   assessor |-> a, outcome |-> outcome]
Score(i, a) ==
  [kind |-> "score", src |-> i, entry |-> llog[i].entry, rev |-> llog[i].rev,
   assessor |-> a, at |-> SettledTime(i)]
Identity(r) == <<r.kind, r.entry, r.rev, r.assessor>>
Reversal(i, target) == [kind |-> "reversal", src |-> i, target |-> target]

\* The opportunities or scores no reversal before position n names.
ActiveBefore(k, n) ==
  { i \in LearnedAt(k) :
      i < n /\ \A j \in LearnedAt("reversal") : j < n => llog[j].target # Identity(llog[i]) }
Active(k) == ActiveBefore(k, Len(llog) + 1)

\* append_opportunity, append_score and append_reversal.
Appends(i) ==
  LET r == llog[i]
  IN CASE r.kind = "opportunity" ->
            \A j \in LearnedAt("opportunity") : j < i => Identity(llog[j]) # Identity(r)
       [] r.kind = "score" ->
            /\ \A j \in LearnedAt("score") : j < i => Identity(llog[j]) # Identity(r)
            /\ \E j \in ActiveBefore("opportunity", i) :
                 Tail(Identity(llog[j])) = Tail(Identity(r)) /\ llog[j].outcome = "successful"
       [] r.kind = "reversal" ->
            \E k \in {"opportunity", "score"} :
              \E j \in ActiveBefore(k, i) : Identity(llog[j]) = r.target

LedgerLoads ==
  \A k \in {"opportunity", "score", "reversal"} : \A i \in LearnedAt(k) : Appends(i)

\* _eligible_forecasts: those committed before the result.
EligibleForecasts(i) ==
  { j \in LearnedAt("forecast") : j < i /\ llog[j].entry = llog[i].entry }
OneForecastEach(i) ==
  \A j, k \in EligibleForecasts(i) : llog[j].assessor = llog[k].assessor => j = k

\* _append_prior_reversals: what is active of the earlier revisions.
PriorReversals(i) ==
  LET prior(k) == { Identity(llog[j]) :
                      j \in { n \in Active(k) : llog[n].entry = llog[i].entry /\ llog[n].rev < llog[i].rev } }
      ordered(k) == [n \in DOMAIN SetToSeq(prior(k)) |-> Reversal(i, SetToSeq(prior(k))[n])]
  IN ordered("opportunity") \o ordered("score")

MissingOpportunities(i) ==
  LET missing == { a \in Operational : \A j \in EligibleForecasts(i) : llog[j].assessor # a }
  IN [n \in DOMAIN SetToSeq(missing) |-> Opportunity(i, SetToSeq(missing)[n], "unavailable")]

ForecastOutcomes(i) ==
  LET order == SetToSortSeq(EligibleForecasts(i), <)
      outcome(f) == IF llog[f].state = "committed"
                    THEN <<Opportunity(i, llog[f].assessor, "successful"), Score(i, llog[f].assessor)>>
                    ELSE <<Opportunity(i, llog[f].assessor, "abstained")>>
  IN FlattenSeq([n \in DOMAIN order |-> outcome(order[n])])

\* A result without an admitted time that reverses nothing.
MutantLedgerWork(i) ==
  IF llog[i].counts THEN PriorReversals(i) \o MissingOpportunities(i) \o ForecastOutcomes(i) ELSE <<>>

\* The outcomes of a result without an admitted time are only reversed.
LedgerWork(i) ==
  PriorReversals(i) \o (IF llog[i].counts THEN MissingOpportunities(i) \o ForecastOutcomes(i) ELSE <<>>)

\* _finalized_ledger: the active operational records of the tournaments that are closed.
Finalized ==
  { n \in Active("opportunity") \cup Active("score") :
      llog[n].assessor \in Operational /\ ShowClosed(EntryShow[llog[n].entry]) }
WeightBasis == { Identity(llog[n]) : n \in Finalized }

\* calibrate_baseline refuses a score that was settled after the cutoff.
CalibratesAt(t) == \A n \in Finalized : llog[n].kind = "score" => llog[n].at <= t

WeightsOf(i) == { j \in LearnedAt("weights") : llog[j].src = i }
DoneEvent(i, m, output) == [kind |-> "done", src |-> i, marker |-> m, output |-> output]
NoOutput == <<{}, {}>>

----------------------------------------------------------------------------
(* The tournaments, from the commands of the lifecycle service.             *)

IdleReactor == [at |-> "idle"]

LearnInit == llog = LearnSetup /\ reactor = [w \in Reactors |-> IdleReactor]

AppendLearned(es) == LearnRoom(Len(es)) /\ llog' = llog \o es

\* _verify_commit_causality and _verify_candidate_causality: issued, and no result yet.
ForecastAuthority(e) == RaceIssued(EntryRace[e]) /\ ResultsOf(e) = {}

\* commit_forecast and commit_candidate_evaluation: an exact repetition is the stored answer.
CommitForecast(e, a, state) ==
  LET f == [kind |-> "forecast", entry |-> e, assessor |-> a, state |-> state]
  IN /\ ForecastAuthority(e)
     /\ \A i \in LearnedAt("forecast") : llog[i] # f
     /\ AppendLearned(<<f>>)
     /\ UNCHANGED reactor

\* record_live_result: the correction of a settled result settles itself.
RecordEntry(e, counts) ==
  LET rev == Cardinality(ResultsOf(e)) + 1
      settled == ResultsOf(e) # {} /\ Settlements(Max(ResultsOf(e))) # {}
  IN /\ RaceIssued(EntryRace[e]) /\ rev <= MaxLearnRevisions /\ ~ShowClosed(EntryShow[e])
     /\ AppendLearned(<<[kind |-> "result", entry |-> e, rev |-> rev, counts |-> counts]>>
                      \o (IF settled THEN <<[kind |-> "settled", race |-> EntryRace[e]]>> ELSE <<>>))
     /\ UNCHANGED reactor

SettleRace(r) ==
  /\ \A e \in StreamMembers(r) : ResultsOf(e) # {}
  /\ \E e \in StreamMembers(r) : Settlements(Max(ResultsOf(e))) = {}
  /\ AppendLearned(<<[kind |-> "settled", race |-> r]>>)
  /\ UNCHANGED reactor

\* A tournament closes when every derivation of its results is complete.
CloseShow(s) ==
  /\ ~ShowClosed(s)
  /\ \A i \in LearnedAt("result") : EntryShow[llog[i].entry] = s => SequenceDone(i)
  /\ \E i \in LearnedAt("result") : EntryShow[llog[i].entry] = s
  /\ AppendLearned(<<[kind |-> "closed", show |-> s]>>)
  /\ UNCHANGED reactor

----------------------------------------------------------------------------
(* The dispatcher.                                                          *)

Moves(w, s) == reactor' = [reactor EXCEPT ![w] = s]

\* recover_pending: the first pending source, whatever its age; one that is not active raises.
TakeSource(w) ==
  /\ reactor[w] = IdleReactor
  /\ LearnPending # {} /\ ActiveAuthority(Min(LearnPending))
  /\ Moves(w, [at |-> "capability", src |-> Min(LearnPending)])
  /\ UNCHANGED llog

\* CapabilityReactionService.react up to its receipt: the receipt is made of the history read here.
ReadHistory(w) ==
  /\ reactor[w].at = "capability"
  /\ LET i == reactor[w].src
         stream == StreamOf(EntrySubject[llog[i].entry])
     IN IF CapabilityOf(i) # {}
        THEN Moves(w, [at |-> "barrier", src |-> i])
        ELSE /\ ActiveAuthority(i) /\ Supersedes(i, stream) /\ WithinCapacity(stream)
             /\ Moves(w, [at |-> "advance", src |-> i, seen |-> stream])
  /\ UNCHANGED llog

\* The command binds the head of now; its guard checks the source again, its key the repetition.
CommitCapability(w) ==
  /\ reactor[w].at = "advance"
  /\ LET i == reactor[w].src
     IN /\ CapabilityOf(i) = {} /\ ActiveAuthority(i)
        /\ AppendLearned(<<CapabilityReceipt(i, reactor[w].seen)>>)
        /\ Moves(w, [at |-> "barrier", src |-> i])

\* _complete_barrier; done already, its command is the stored answer.
CompleteCapability(w) ==
  /\ reactor[w].at = "barrier"
  /\ LET i == reactor[w].src
     IN /\ IF Done(i, "capability") THEN UNCHANGED llog
           ELSE AppendLearned(<<DoneEvent(i, "capability", NoOutput)>>)
        /\ Moves(w, [at |-> "result", src |-> i])

\* react_result up to its first command.  It takes the entry's latest revision, which may be newer
\* than the source the dispatcher holds; a completed one needs its single weight receipt.
ReadResult(w) ==
  /\ reactor[w].at = "result"
  /\ LET i == reactor[w].src
         now == Max(ResultsOf(llog[i].entry))
     IN /\ \A e \in StreamMembers(EntryRace[llog[i].entry]) : Settlements(Max(ResultsOf(e))) # {}
        /\ LedgerLoads
        /\ IF Done(now, "credibility")
           THEN /\ Cardinality(WeightsOf(now)) = 1
                /\ Moves(w, [at |-> "markers", src |-> i])
           ELSE /\ OneForecastEach(now)
                /\ Moves(w, [at |-> "records", src |-> i, result |-> now, todo |-> LedgerWork(now)])
  /\ UNCHANGED llog

\* A credibility record is a command named by its own digest.
Recorded(r) == IF \E i \in DOMAIN llog : llog[i] = r THEN <<>> ELSE <<r>>

\* _append_credibility_record.
AppendRecord(w) ==
  /\ reactor[w].at = "records" /\ reactor[w].todo # <<>>
  /\ AppendLearned(Recorded(Head(reactor[w].todo)))
  /\ Moves(w, [reactor[w] EXCEPT !.todo = Tail(@)])

\* baseline_weights, with the settlement of this result as cutoff.
Weigh(w) ==
  /\ reactor[w].at = "records" /\ reactor[w].todo = <<>>
  /\ LET i == reactor[w].result
     IN /\ LedgerLoads /\ CalibratesAt(SettledTime(i))
        /\ Moves(w, [at |-> "weights", src |-> reactor[w].src, result |-> i, basis |-> WeightBasis,
                     ledger |-> { Identity(llog[n]) : n \in Active("opportunity") \cup Active("score") }])
  /\ UNCHANGED llog

\* _append_weights: the command is named by the digest of what was calibrated.
AppendWeights(w) ==
  /\ reactor[w].at = "weights"
  /\ AppendLearned(Recorded([kind |-> "weights", src |-> reactor[w].result, basis |-> reactor[w].basis]))
  /\ Moves(w, [reactor[w] EXCEPT !.at = "complete"])

\* The marker binds the ledger and the receipt; another output for a completed reaction conflicts.
CompleteCredibility(w) ==
  /\ reactor[w].at = "complete"
  /\ LET i == reactor[w].result
         done == DoneEvent(i, "credibility", <<reactor[w].ledger, reactor[w].basis>>)
     IN /\ Done(i, "credibility") => Recorded(done) = <<>>
        /\ AppendLearned(Recorded(done))
        /\ Moves(w, [at |-> "markers", src |-> reactor[w].src])

\* _complete_credibility_reactions: the three markers that are left, one command each.
CompleteMarkers(w) ==
  /\ reactor[w].at = "markers"
  /\ LET i == reactor[w].src
         open == SelectSeq(<<"scoring", "coverage", "weights">>, LAMBDA m : ~Done(i, m))
     IN IF open = <<>>
        THEN Moves(w, IdleReactor) /\ UNCHANGED llog
        ELSE AppendLearned(<<DoneEvent(i, Head(open), NoOutput)>>) /\ UNCHANGED reactor

\* An exception, or the end of the process.
StopReactor(w) ==
  /\ reactor[w] # IdleReactor
  /\ Moves(w, IdleReactor)
  /\ UNCHANGED llog

LearnNext ==
  \/ \E e \in Entries, a \in Assessors, s \in {"committed", "abstained"} : CommitForecast(e, a, s)
  \/ \E e \in Entries, c \in BOOLEAN : RecordEntry(e, c)
  \/ \E e \in Entries : SettleRace(EntryRace[e]) \/ CloseShow(EntryShow[e])
  \/ \E w \in Reactors :
       \/ TakeSource(w) \/ ReadHistory(w) \/ CommitCapability(w) \/ CompleteCapability(w)
       \/ ReadResult(w) \/ AppendRecord(w) \/ Weigh(w) \/ AppendWeights(w)
       \/ CompleteCredibility(w) \/ CompleteMarkers(w) \/ StopReactor(w)

LearnSpec == LearnInit /\ [][LearnNext]_learnVars

----------------------------------------------------------------------------

\* The ledger can always be folded from the log: no thread that was overtaken, no repetition and no
\* correction leaves a record the fold refuses, after which every reaction would fail (load_ledger).
LedgerReplays == LedgerLoads

\* Once the reaction to an entry's latest revision is complete, the active outcomes of that entry are
\* those of that revision alone, one for every operational assessor when the result counts.
OutcomesAreCurrent ==
  \A e \in Entries :
    LET i == Max(ResultsOf(e))
        active(k) == { n \in Active(k) : llog[n].entry = e }
    IN ResultsOf(e) # {} /\ Done(i, "credibility") =>
         /\ \A n \in active("opportunity") \cup active("score") : llog[n].rev = llog[i].rev
         /\ llog[i].counts =>
              \A a \in Operational : \E n \in active("opportunity") : llog[n].assessor = a

\* The learning ledger stays readable and, entry by entry, says what the last result says.
LearningFollowsResults == LedgerReplays /\ OutcomesAreCurrent
=============================================================================
