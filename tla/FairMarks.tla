----------------------------- MODULE FairMarks -----------------------------
(* The V3 mark optimizer (domain/optimizer.py, optimizer_kernel.py).  A field *)
(* of entrants with expected times and one sealed sample of joint draws is    *)
(* given a sheet of whole-second marks: small fields exhaust every legal      *)
(* sheet near the rounded one, larger fields run a beam search, and the knee  *)
(* of the Pareto frontier is sealed in a receipt.  Draws are evaluated by a   *)
(* vectorised path, by a bitset path with a cache of comparisons shared by    *)
(* the evaluation threads, or by the native kernel.                           *)
EXTENDS Integers, FiniteSets, FiniteSetsExt, Functions, SequencesExt

CONSTANTS FieldInputs,    \* inputs: [expected: times of the entrants, samples: draws of their times]
          Ceiling,
          Tick,           \* time units in a second (1000)
          SmallMaximum,   \* small_field_maximum
          Radius,         \* small_field_radius_seconds
          BeamWidth,      \* beam_width; at least one place for each anchor
          RoundLimit,     \* maximum_expansion_rounds
          VectorLimit,    \* batches below this size are evaluated by the vectorised path (32)
          Tolerance,      \* 1 / PARETO_TOLERANCE
          Knee(_)         \* distance of a normalised row from the plane through the anchors

ASSUME FairAssumption == BeamWidth >= 4 /\ Tick > 0 /\ Tolerance > 0

MarkFloor == 3
Objectives == 1..4

VARIABLES field, step, evaluated, dominated, beam, rounds, masks, kernel, receipt, score
fairVars == <<field, step, evaluated, dominated, beam, rounds, masks, kernel, receipt, score>>

----------------------------------------------------------------------------
(* Sheets.                                                                  *)

Entrants == DOMAIN field.expected
EntrantCount == Len(field.expected)
Draws == DOMAIN field.samples
Slowest == Max(Range(field.expected))

\* x / n, rounded to the nearest integer, halves to the even one.
HalfEven(x, n) == LET q == x \div n  r == 2 * (x % n)
                  IN IF r > n \/ (r = n /\ q % 2 = 1) THEN q + 1 ELSE q

Rounded(gap) == HalfEven(gap, Tick)

CanonicalSheet ==
  [e \in Entrants |-> Min({Ceiling, Max({MarkFloor, MarkFloor + Rounded(Slowest - field.expected[e])})})]

LegalSheet(m) ==
  /\ Min(Range(m)) = MarkFloor /\ \A e \in Entrants : m[e] \in MarkFloor..Ceiling
  /\ \A e, g \in Entrants :
       /\ field.expected[e] > field.expected[g] => m[e] <= m[g]
       /\ field.expected[e] = field.expected[g] => m[e] = m[g]

SmallCandidates ==
  { m \in [Entrants -> MarkFloor..Ceiling] :
      LegalSheet(m) /\ \A e \in Entrants : m[e] - CanonicalSheet[e] \in -Radius..Radius }

\* One entrant moves by one second.
OneSecondMoves(m) ==
  { t \in { [m EXCEPT ![e] = @ + d] : e \in Entrants, d \in {-1, 1} } : t \notin DOMAIN evaluated /\ LegalSheet(t) }

LexLess(a, b) == \E i \in DOMAIN a : a[i] < b[i] /\ \A j \in 1..(i - 1) : a[j] = b[j]
FirstOf(S, n, Key(_)) == { x \in S : Cardinality({ y \in S : LexLess(Key(y), Key(x)) }) < n }

----------------------------------------------------------------------------
(* Evaluation of a sheet: four objectives, to be minimised, as the integer    *)
(* numerators of fractions with the denominators below.                       *)

Lcm(n) == CHOOSE k \in 1..60 : (\A i \in 1..n : k % i = 0) /\ \A j \in 1..(k - 1) : \E i \in 1..n : j % i # 0
CreditScale == Lcm(EntrantCount)
Denominators == <<EntrantCount, CreditScale * Cardinality(Draws) * EntrantCount, Cardinality(Draws), EntrantCount>>

Delay(m, e) == (m[e] - MarkFloor) * Tick
Finish(m, d, e) == field.samples[d][e] + Delay(m, e)
FinishTimes(m, d) == { Finish(m, d, e) : e \in Entrants }

\* _winner_credits_vectorized: the credit of a draw is shared by the entrants who finish first together.
CreditsOfFinishes(m) ==
  [e \in Entrants |->
     MapThenSumSet(LAMBDA d : LET w == { g \in Entrants : Finish(m, d, g) = Min(FinishTimes(m, d)) }
                              IN IF e \in w THEN CreditScale \div Cardinality(w) ELSE 0, Draws)]

\* The comparisons of two entrants are kept by the difference of their delays.
Threshold(m, l, r) == Delay(m, r) - Delay(m, l)
MaskKey(m, l, r) == <<l, r, Threshold(m, l, r)>>

Compared(m, l, r) == { d \in Draws : field.samples[d][l] - field.samples[d][r] <= Threshold(m, l, r) }

\* What the cache holds after one more sheet is evaluated: what is there is never computed again.
Remember(cached, m) ==
  LET pairs == { p \in Entrants \X Entrants : p[1] # p[2] }
      fresh == { p \in pairs : MaskKey(m, p[1], p[2]) \notin DOMAIN cached }
  IN [k \in DOMAIN cached \cup { MaskKey(m, p[1], p[2]) : p \in fresh } |->
        IF k \in DOMAIN cached THEN cached[k] ELSE Compared(m, k[1], k[2])]

TiedCredit(winners) == CreditScale \div Cardinality(winners)

\* _winner_credits_bitset, _credits_from_winner_masks: an entrant wins the draws of all its comparisons.
CreditsOfMasks(m, cached) ==
  LET wins == [l \in Entrants |-> { d \in Draws : \A r \in Entrants \ {l} : d \in cached[MaskKey(m, l, r)] }]
  IN [e \in Entrants |-> MapThenSumSet(LAMBDA d : TiedCredit({ g \in Entrants : d \in wins[g] }), wins[e])]

\* The native kernel counts the finishes of every draw, as its source does.
NativeCredits(m) == CreditsOfFinishes(m)

SumOver(S, Op(_)) == MapThenSumSet(Op, S)
Abs(x) == IF x < 0 THEN -x ELSE x

\* _evaluate_candidates_impl.  The square of the gap error is expanded so that its constant part is summed once.
RawObjective(m, credit) ==
  LET ideal(e) == Slowest - field.expected[e]
  IN <<SumOver(Entrants, LAMBDA e : ideal(e) * ideal(e))
         + SumOver(Entrants, LAMBDA e : Delay(m, e) * Delay(m, e) - 2 * Delay(m, e) * ideal(e)),
       Max({ Abs(credit[e] * EntrantCount - CreditScale * Cardinality(Draws)) : e \in Entrants }),
       SumOver(Draws, LAMBDA d : Max(FinishTimes(m, d)) - Min(FinishTimes(m, d))),
       SumOver(Entrants, LAMBDA e : Abs(m[e] - CanonicalSheet[e]))>>

\* The path that a batch of sheets takes.
Path(batch) == IF Cardinality(batch) < VectorLimit THEN "vector" ELSE IF kernel THEN "native" ELSE "bitset"

Evaluated(batch) ==
  LET filled == IF Path(batch) # "bitset" THEN masks ELSE FoldSet(LAMBDA m, c : Remember(c, m), masks, batch)
  IN [objectives |-> [m \in batch |->
        RawObjective(m, CASE Path(batch) = "vector" -> CreditsOfFinishes(m)
                          [] Path(batch) = "native" -> NativeCredits(m)
                          [] OTHER -> CreditsOfMasks(m, filled))],
      masks |-> filled]

----------------------------------------------------------------------------
(* Dominance and the frontier.                                              *)

\* The tolerance in whole numerators, as _GlobalRawParetoIndex computes it.
NonStrict(c) == Denominators[c] \div Tolerance
Strict(c) == (-Denominators[c] - 1) \div Tolerance

Dominates(a, b) ==
  /\ \A c \in Objectives : a[c] <= b[c] + NonStrict(c)
  /\ \E c \in Objectives : a[c] <= b[c] + Strict(c)

\* _GlobalRawParetoIndex.add: old rows against new ones, new against old, new against new.
Marked(old, new) ==
  LET all == old @@ new
  IN dominated \cup { m \in DOMAIN all : \E s \in DOMAIN all :
                         (m \in DOMAIN new \/ s \in DOMAIN new) /\ Dominates(all[s], all[m]) }

\* The sheets that _pareto_frontier_raw_skyline meets in order: a row is dropped when a kept one dominates
\* it, and drops the kept ones that it dominates.
Skyline(rows) ==
  LET order == SetToSortSeq(DOMAIN rows, LAMBDA a, b : LexLess(rows[a] \o a, rows[b] \o b))
      meet(kept, m) == IF \E k \in kept : Dominates(rows[k], rows[m]) THEN kept
                       ELSE { k \in kept : ~Dominates(rows[m], rows[k]) } \cup {m}
  IN FoldLeft(meet, {}, order)

Frontier == DOMAIN evaluated \ dominated

Lowest(F, c) == Min({ evaluated[m][c] : m \in F })
Widest(F, c) == Max({ evaluated[m][c] : m \in F }) - Lowest(F, c)

\* The rows of a frontier on one integer scale: no distance is divided, each is multiplied by the others.
NormalRow(F, m) ==
  LET scale == FoldSet(LAMBDA c, p : IF Widest(F, c) = 0 THEN p ELSE p * Widest(F, c), 1, Objectives)
  IN [c \in Objectives |-> IF Widest(F, c) = 0 THEN 0
                           ELSE (evaluated[m][c] - Lowest(F, c)) * (scale \div Widest(F, c))]

\* _tie_key
TieKey(F, m) ==
  LET row == NormalRow(F, m)
  IN <<Max(Range(row)), row[1] + row[2] + row[3] + row[4],
       SumOver(Entrants, LAMBDA e : Abs(m[e] - CanonicalSheet[e]))>> \o m

\* The best sheet of each objective.
Anchors(F) ==
  UNION { FirstOf({ m \in F : NormalRow(F, m)[c] = 0 }, 1, LAMBDA m : TieKey(F, m)) : c \in Objectives }

MutantNextBeam(F) == FirstOf(F, BeamWidth, LAMBDA m : TieKey(F, m))

NextBeam(F) ==
  Anchors(F) \cup FirstOf(F \ Anchors(F), BeamWidth - Cardinality(Anchors(F)), LAMBDA m : TieKey(F, m))

\* Better than the rounded sheet on two objectives, or on one and no worse on another.
Improves(m) ==
  LET base == evaluated[CanonicalSheet]
      better == { c \in Objectives : evaluated[m][c] <= base[c] + Strict(c) }
      level == { c \in Objectives : evaluated[m][c] <= base[c] + NonStrict(c) }
  IN Cardinality(better) >= 2 \/ (Cardinality(better) = 1 /\ Cardinality(level) >= 2)

Meaningful(F) == { m \in F : Improves(m) }

\* _select_chim_exact
SelectKnee(F) ==
  CHOOSE m \in Meaningful(F) : FirstOf(Meaningful(F), 1, LAMBDA x : <<-Knee(NormalRow(F, x))>> \o TieKey(F, x)) = {m}

----------------------------------------------------------------------------
(* optimize_field, one expansion round a step.                               *)

NoSheetReceipt == [marks |-> <<>>, frontier |-> {}, strategy |-> "none", fallback |-> "none"]

FairInit ==
  /\ field \in FieldInputs
  /\ step = "field" /\ evaluated = <<>> /\ dominated = {} /\ beam = {} /\ rounds = 0 /\ masks = <<>>
  /\ kernel \in BOOLEAN     \* is the sealed native kernel loadable on this host
  /\ receipt = NoSheetReceipt /\ score = <<>>

Sealed(marks, frontier, strategy, fallback) ==
  [marks |-> marks, frontier |-> frontier, strategy |-> strategy, fallback |-> fallback]

\* A field without entrants has no sheet, and one entrant starts at Mark 3.
Trivial ==
  /\ step = "field" /\ EntrantCount <= 1
  /\ receipt' = IF EntrantCount = 0 THEN Sealed(<<>>, {}, "empty_field", "empty_field")
                ELSE Sealed(CanonicalSheet, {CanonicalSheet}, "single_competitor", "none")
  /\ evaluated' = IF EntrantCount = 0 THEN <<>> ELSE Evaluated({CanonicalSheet}).objectives
  /\ step' = "sealed"
  /\ UNCHANGED <<field, dominated, beam, rounds, masks, kernel, score>>

Exhaust ==
  /\ step = "field" /\ EntrantCount \in 2..SmallMaximum
  /\ LET done == Evaluated(SmallCandidates)
     IN /\ evaluated' = done.objectives /\ masks' = done.masks
        /\ dominated' = SmallCandidates \ Skyline(done.objectives)
  /\ step' = "searched"
  /\ UNCHANGED <<field, beam, rounds, kernel, receipt, score>>

StartBeam ==
  /\ step = "field" /\ EntrantCount > SmallMaximum
  /\ LET done == Evaluated({CanonicalSheet})
     IN evaluated' = done.objectives /\ masks' = done.masks
  /\ beam' = {CanonicalSheet}
  /\ step' = "beam"
  /\ UNCHANGED <<field, dominated, rounds, kernel, receipt, score>>

CandidateLimit == 1 + RoundLimit * BeamWidth

\* The neighbours of the beam, in the order of their marks as far as the work budget goes.
Neighbours ==
  FirstOf(UNION { OneSecondMoves(m) : m \in beam }, CandidateLimit - Cardinality(DOMAIN evaluated), LAMBDA m : m)

Expand ==
  /\ step = "beam" /\ rounds < RoundLimit /\ Neighbours # {}
  /\ LET done == Evaluated(Neighbours)
     IN /\ masks' = done.masks
        /\ evaluated' = evaluated @@ done.objectives
        /\ dominated' = Marked(evaluated, done.objectives)
  /\ rounds' = rounds + 1
  /\ step' = "expanded"
  /\ UNCHANGED <<field, beam, kernel, receipt, score>>

KeepBeam ==
  /\ step = "expanded"
  /\ beam' = NextBeam(Frontier) /\ step' = "beam"
  /\ UNCHANGED <<field, evaluated, dominated, rounds, masks, kernel, receipt, score>>

EndBeam ==
  /\ step = "beam" /\ (rounds = RoundLimit \/ Neighbours = {})
  /\ step' = "searched"
  /\ UNCHANGED <<field, evaluated, dominated, beam, rounds, masks, kernel, receipt, score>>

\* No improvement: the rounded sheet is the answer, and the receipt says so.
SealSheet ==
  /\ step = "searched"
  /\ receipt' = IF Meaningful(Frontier) = {}
                THEN Sealed(CanonicalSheet, Frontier, "canonical_fallback", "no_valid_improvement")
                ELSE Sealed(SelectKnee(Frontier), Frontier,
                            IF EntrantCount <= SmallMaximum THEN "exhaustive" ELSE "beam", "none")
  /\ step' = "sealed"
  /\ UNCHANGED <<field, evaluated, dominated, beam, rounds, masks, kernel, score>>

\* An evaluation or the null space of the anchors failed: the rounded sheet, without a frontier.
FailSearch ==
  /\ step \in {"beam", "searched"}
  /\ \E why \in {"optimizer_failure", "rank_invalid"} : receipt' = Sealed(CanonicalSheet, {}, "canonical_fallback", why)
  /\ step' = "sealed"
  /\ UNCHANGED <<field, evaluated, dominated, beam, rounds, masks, kernel, score>>

\* OptimizerReceipt.__post_init__
ReceiptFits(r) ==
  /\ r.frontier # {} => r.marks \in r.frontier
  /\ r.marks # <<>> => LegalSheet(r.marks)
  /\ \A m \in r.frontier : LegalSheet(m)
  /\ CASE r.fallback = "none" -> r.frontier # {} /\ r.strategy \in {"single_competitor", "exhaustive", "beam"}
       [] r.fallback = "empty_field" -> EntrantCount = 0 /\ r.marks = <<>> /\ r.frontier = {}
       [] r.fallback = "no_valid_improvement" -> r.marks = CanonicalSheet /\ r.frontier # {}
       [] OTHER -> r.marks = CanonicalSheet /\ r.frontier = {}

\* SharedOptimizerConsequenceEvaluator.evaluate: the result is scored against the marks once every
\* entrant has a time; _tie_split_probabilities apportions the win probabilities by largest remainder.
WinUnits == 100
Apportioned(credits) ==
  LET whole == CreditScale * Cardinality(Draws)
      floor(e) == (credits[e] * WinUnits) \div whole
      rest(e) == (credits[e] * WinUnits) % whole
      missing == WinUnits - SumOver(Entrants, floor)
      given == FirstOf(Entrants, missing, LAMBDA e : <<-rest(e), e>>)
  IN [e \in Entrants |-> floor(e) + IF e \in given THEN 1 ELSE 0]

Score ==
  /\ step = "sealed" /\ EntrantCount > 0
  /\ \E d \in Draws, missing \in {{}, {1}} :     \* the times run, and the entrants without one
       score' = IF missing # {} THEN <<"pending">>
                ELSE <<"scored", Apportioned(CreditsOfFinishes(receipt.marks)),
                       HalfEven(SumOver(Entrants, LAMBDA e : field.samples[d][e] - field.expected[e]), EntrantCount)>>
  /\ step' = "done"
  /\ UNCHANGED <<field, evaluated, dominated, beam, rounds, masks, kernel, receipt>>

FairNext == Trivial \/ Exhaust \/ StartBeam \/ Expand \/ KeepBeam \/ EndBeam \/ SealSheet \/ FailSearch \/ Score
FairSpec == FairInit /\ [][FairNext]_fairVars

----------------------------------------------------------------------------
(* Properties.                                                              *)

\* The objectives of a sheet by their definition: no expansion, no cache, no scale but the common one.
TrueObjective(m) ==
  LET won(e) == SumOver(Draws, LAMBDA d :
        LET first == { g \in Entrants : \A h \in Entrants : Finish(m, d, g) <= Finish(m, d, h) }
        IN IF e \in first THEN CreditScale \div Cardinality(first) ELSE 0)
      gap(e) == Delay(m, e) - (Slowest - field.expected[e])
  IN <<SumOver(Entrants, LAMBDA e : gap(e) * gap(e)),
       Max({ Abs(won(e) * EntrantCount - CreditScale * Cardinality(Draws)) : e \in Entrants }),
       SumOver(Draws, LAMBDA d : Max(FinishTimes(m, d)) - Min(FinishTimes(m, d))),
       SumOver(Entrants, LAMBDA e : Abs(m[e] - CanonicalSheet[e]))>>

\* Whatever path a batch took and whatever the cache of comparisons held, every sheet was given the
\* objectives of its definition: a receipt can be replayed on a host without the kernel.
ObjectivesAreExact == \A m \in DOMAIN evaluated : evaluated[m] = TrueObjective(m)

\* The rows that the incremental index or the skyline has dropped are those that some evaluated sheet
\* dominates, and the beam grows from the frontier alone.
FrontierIsExact ==
  /\ step # "field" /\ EntrantCount > 1
       => dominated = { m \in DOMAIN evaluated : \E s \in DOMAIN evaluated : Dominates(evaluated[s], evaluated[m]) }
  /\ \A c \in Objectives : step = "beam" /\ NonStrict(c) = 0
       => \E m \in beam : \A s \in Frontier : evaluated[m][c] <= evaluated[s][c]

\* A sealed sheet passes the receipt's own checks, no sheet of the search dominates it, and where it
\* departs from the rounded sheet it improves on that sheet.
SheetIsJustified ==
  step \in {"sealed", "done"} =>
    /\ ReceiptFits(receipt)
    /\ receipt.fallback = "none" /\ receipt.marks # CanonicalSheet =>
         /\ Improves(receipt.marks)
         /\ \A m \in DOMAIN evaluated : ~Dominates(evaluated[m], evaluated[receipt.marks])
    /\ Len(score) > 1 => SumOver(Entrants, LAMBDA e : score[2][e]) = WinUnits

\* The search evaluates what it says it does, keeps the sheets that nothing dominates and seals one
\* of them.
SealedSheetIsBest == ObjectivesAreExact /\ FrontierIsExact /\ SheetIsJustified
============================================================================
