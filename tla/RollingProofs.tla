---------------------------- MODULE RollingProofs ----------------------------
(***************************************************************************)
(* A rolling database restarts from its newest checkpoint with the cards   *)
(* its whole history gives, and never publishes an older card over a newer *)
(* one, for any racers, epochs, commands and damages and any bounds of the *)
(* suffix and of the event tail.                                           *)
(***************************************************************************)
EXTENDS RollingCards, FiniteSetTheorems, SequenceTheorems, TLAPS

LEMMA LeastNatural ==
  ASSUME NEW S \in SUBSET Nat, S # {}
  PROVE  \E m \in S : \A n \in S : m <= n
<1>1. PICK m \in S : \A n \in S : <<n, m>> \notin OpToRel(<, Nat)
  BY NatLessThanWellFounded, WFMin
<1>2. \A n \in S : <<n, m>> \notin OpToRel(<, Nat) => m <= n
  BY DEF OpToRel
<1> QED
  BY <1>1, <1>2

LEMMA GreatestNatural ==
  ASSUME NEW n \in Nat, NEW S \in SUBSET (1..n), S # {}
  PROVE  \E m \in S : \A k \in S : k <= m
<1> DEFINE Above == { b \in 0..n : \A m \in S : m <= b }
<1>1. Above \in SUBSET Nat /\ n \in Above
  OBVIOUS
<1> HIDE DEF Above
<1>2. PICK b \in Above : \A c \in Above : b <= c
  BY <1>1, LeastNatural
<1>3. b \in 0..n /\ \A m \in S : m <= b
  BY <1>2 DEF Above
<1>4. b \in S
  <2> SUFFICES ASSUME b \notin S PROVE FALSE
    OBVIOUS
  <2>1. \A m \in S : m <= b - 1 /\ m >= 1
    BY <1>3
  <2>2. \E m : m \in S
    OBVIOUS
  <2>3. b - 1 \in Above
    BY <2>1, <2>2, <1>3 DEF Above
  <2> QED
    BY <2>3, <1>2, <1>3
<1> QED
  BY <1>3, <1>4

-----------------------------------------------------------------------------
(* The rolling database.                                                   *)

Commands ==
  [kind : {"result"}, who : CardSubjects] \cup [kind : {"close"}, who : CardEpochs] \cup [kind : {"other"}, who : {NoCard}]
DeltaKinds == {"rolling_status", "job_history", "reaction_completion", "epoch_closure", "event_tail"}
DeltaRows == [kind : DeltaKinds, seq : Nat \ {0}]
StatusEntries == [card : Cards, current : BOOLEAN]
Completed(d) == {c.source : c \in d.done}

RdbFields(d) ==
  d \in [log : {d.log}, cursor : {d.cursor}, jobs : {d.jobs}, hist : {d.hist}, pubs : {d.pubs}, status : {d.status},
         current : {d.current}, closed : {d.closed}, done : {d.done}, points : {d.points}, suffix : {d.suffix},
         newest : {d.newest}]

\* An epoch is closed by one command.
LogHolds(d) ==
  /\ d.log \in Seq(Commands) /\ Len(d.log) <= MaxSources
  /\ \A m, n \in DOMAIN d.log :
       d.log[m].kind = "close" /\ d.log[n].kind = "close" /\ d.log[m].who = d.log[n].who => m = n
RowsHold(d) ==
  /\ d.jobs = [k \in DOMAIN d.jobs |-> d.jobs[k]] /\ DOMAIN d.jobs \in SUBSET Cards
  /\ d.hist \in Nat /\ d.closed \in [CardEpochs -> Nat] /\ d.points \in Seq(Nat)
  /\ IsFiniteSet(d.pubs) /\ d.pubs \in SUBSET DOMAIN d.jobs /\ d.current \in SUBSET d.pubs
StatusesHold(d) ==
  /\ d.status \in Seq(StatusEntries) /\ \A i \in DOMAIN d.status : d.status[i].card \in d.pubs
  /\ \A j, k \in VerifiedCurrent(d) : SubjectOf(j) = SubjectOf(k) => j = k
DeltasHold(d) == d.suffix \in Seq(DeltaRows) /\ \A i \in DOMAIN d.suffix : DeltaAuthorityHolds(d, d.suffix[i])

\* The heads of the first n events.
HeadsAt(log, n, heads) ==
  /\ DOMAIN heads = {log[i].who : i \in 1..n}
  /\ \A w \in DOMAIN heads : heads[w] = Cardinality({i \in 1..n : log[i].who = w})
\* The last delta of an authority names this row; without one the checkpoint has the row.
NoneNamed(d, kind) == \A i \in DOMAIN d.suffix : d.suffix[i].kind # kind
TipIs(d, kind, row) ==
  \E i \in DOMAIN d.suffix : /\ d.suffix[i].kind = kind /\ d.suffix[i].seq = row
                             /\ \A j \in DOMAIN d.suffix : d.suffix[j].kind = kind => j <= i
\* The newest checkpoint, as the material of an earlier state of this database.
NewestHolds(d) ==
  /\ d.newest.source \in Nat /\ d.newest.source <= Len(d.log) /\ HeadsAt(d.log, d.newest.source, d.newest.heads)
  /\ d.newest.pending \ Completed(d) = {n \in PendingPlans(d) : n <= d.newest.source}
  /\ NoneNamed(d, "reaction_completion") => d.newest.pending \cap Completed(d) = {}
  /\ (NoneNamed(d, "rolling_status") /\ Len(d.status) = d.newest.status) \/ TipIs(d, "rolling_status", Len(d.status))
  /\ \/ NoneNamed(d, "job_history") /\ d.hist = d.newest.hist /\ ActiveCards(d) = d.newest.active
     \/ TipIs(d, "job_history", d.hist)
  /\ CurrentAfterSuffix(d) = VerifiedCurrent(d)

DbHolds(d) == RdbFields(d) /\ LogHolds(d) /\ RowsHold(d) /\ StatusesHold(d) /\ DeltasHold(d) /\ NewestHolds(d)

-----------------------------------------------------------------------------
(* A database like this one restarts.                                      *)

LEMMA LatestOfNone ==
  ASSUME NEW d, NEW kind, NoneNamed(d, kind) PROVE LatestAuthority(d, kind) = 0
BY DEF NoneNamed, LatestAuthority

LEMMA LatestIsTip ==
  ASSUME NEW d, d.suffix \in Seq(DeltaRows), NEW kind, NEW row, TipIs(d, kind, row)
  PROVE  LatestAuthority(d, kind) = row /\ LatestAuthority(d, kind) # 0
<1> DEFINE named == {i \in DOMAIN d.suffix : d.suffix[i].kind = kind}
<1>1. PICK i \in named : d.suffix[i].seq = row /\ \A j \in named : j <= i
  BY DEF TipIs
<1> DEFINE c == CHOOSE x \in named : \A j \in named : j <= x
<1>2. c \in named /\ \A j \in named : j <= c
  BY <1>1
<1>3. c = i
  BY <1>1, <1>2
<1>4. d.suffix[i] \in DeltaRows
  BY <1>1
<1>5. LatestAuthority(d, kind) = d.suffix[c].seq
  BY <1>1 DEF LatestAuthority
<1> HIDE DEF c
<1> QED
  BY <1>1, <1>3, <1>4, <1>5 DEF DeltaRows

\* An authority that the suffix names has a last delta.
LEMMA NamedHasLatest ==
  ASSUME NEW d, d.suffix \in Seq(DeltaRows), NEW kind, ~NoneNamed(d, kind)
  PROVE  \E row : TipIs(d, kind, row)
<1> DEFINE named == {i \in DOMAIN d.suffix : d.suffix[i].kind = kind}
<1>1. Len(d.suffix) \in Nat /\ named \in SUBSET (1..Len(d.suffix)) /\ named # {}
  BY DEF NoneNamed
<1>2. \E i \in named : \A j \in named : j <= i
  <2> HIDE DEF named
  <2> QED
    BY <1>1, GreatestNatural
<1> QED
  BY <1>2 DEF TipIs

\* The heads of the checkpoint, advanced by the tail, are the heads of the log.
LEMMA TailContinues ==
  ASSUME NEW d, LogHolds(d), d.newest.source \in Nat, d.newest.source <= Len(d.log),
         HeadsAt(d.log, d.newest.source, d.newest.heads)
  PROVE  TailVerified(d)
<1> DEFINE n == d.newest.source
           Old(w) == {i \in 1..n : d.log[i].who = w}
           New(w) == {i \in TailOf(d, n) : d.log[i].who = w}
           All(w) == {i \in TailOf(d, 0) : d.log[i].who = w}
           heads == d.newest.heads
<1>1. DOMAIN d.log = 1..Len(d.log) /\ Len(d.log) \in Nat /\ 1..n \subseteq DOMAIN d.log
  BY DEF LogHolds
<1>2. \A w : All(w) = Old(w) \cup New(w) /\ Old(w) \cap New(w) = {}
  <2>1. \A i : i \in TailOf(d, 0) <=> i \in 1..n \/ i \in TailOf(d, n)
    BY <1>1 DEF TailOf
  <2>2. \A i : ~(i \in 1..n /\ i \in TailOf(d, n))
    BY <1>1 DEF TailOf
  <2> QED
    BY <2>1, <2>2
<1>3. \A w : IsFiniteSet(Old(w)) /\ IsFiniteSet(New(w))
  <2>1. IsFiniteSet(1..n) /\ IsFiniteSet(1..Len(d.log))
    <3>1. \A m \in Int : IsFiniteSet(1..m)
      BY FS_Interval
    <3>2. n \in Int /\ Len(d.log) \in Int
      BY <1>1
    <3> HIDE DEF n
    <3> QED
      BY <3>1, <3>2
  <2>2. \A w : Old(w) \in SUBSET (1..n) /\ New(w) \in SUBSET (1..Len(d.log))
    BY <1>1 DEF TailOf
  <2> HIDE DEF Old, New, n
  <2> QED
    BY <2>1, <2>2, FS_Subset
<1>4. \A w : Cardinality(All(w)) = Cardinality(Old(w)) + Cardinality(New(w))
  <2> TAKE w
  <2> DEFINE A == Old(w)
             B == New(w)
  <2>1. IsFiniteSet(A) /\ IsFiniteSet(B) /\ A \cap B = {} /\ All(w) = A \cup B
    BY <1>2, <1>3
  <2> HIDE DEF A, B, All
  <2>2. Cardinality(A \cup B) = Cardinality(A) + Cardinality(B) - Cardinality(A \cap B)
    BY <2>1, FS_Union
  <2>3. Cardinality(A \cap B) = 0 /\ Cardinality(A) \in Nat /\ Cardinality(B) \in Nat
    BY <2>1, FS_EmptySet, FS_CardinalityType
  <2> QED
    BY <2>1, <2>2, <2>3 DEF A, B
<1>5. \A w : w \notin DOMAIN heads => Cardinality(Old(w)) = 0
  <2> TAKE w
  <2> HAVE w \notin DOMAIN heads
  <2>1. Old(w) = {}
    BY DEF HeadsAt
  <2> HIDE DEF Old
  <2> QED
    BY <2>1, FS_EmptySet
<1>6. \A w \in DOMAIN heads : heads[w] = Cardinality(Old(w))
  BY DEF HeadsAt
<1>7. DOMAIN heads \cup {d.log[i].who : i \in TailOf(d, n)} = {d.log[i].who : i \in DOMAIN d.log}
  BY <1>1 DEF HeadsAt, TailOf
<1>8. \A w : EventsAfter(d, n, w) = Cardinality(New(w)) /\ EventsAfter(d, 0, w) = Cardinality(All(w))
  BY DEF EventsAfter
<1>9. \A w : Cardinality(Old(w)) \in Nat /\ Cardinality(New(w)) \in Nat
  BY <1>3, FS_CardinalityType
<1> HIDE DEF Old, New, All
<1>10. \A w : (IF w \in DOMAIN heads THEN heads[w] ELSE 0) + EventsAfter(d, n, w) = EventsAfter(d, 0, w)
  BY <1>4, <1>5, <1>6, <1>8, <1>9
<1> QED
  BY <1>7, <1>10 DEF TailVerified, HeadsAfterTail, AggregateHeads

LEMMA DatabaseRestarts ==
  ASSUME NEW d, DbHolds(d), WithinSuffix(d), WithinTail(d)
  PROVE  RestartVerified(d, <<>>) /\ CurrentAfterSuffix(d) = VerifiedCurrent(d)
<1>1. d.suffix \in Seq(DeltaRows)
  BY DEF DbHolds, DeltasHold
<1>2. StatusVerified(d)
  <2>1. CASE NoneNamed(d, "rolling_status") /\ Len(d.status) = d.newest.status
    BY <2>1, LatestOfNone DEF StatusVerified
  <2>2. CASE TipIs(d, "rolling_status", Len(d.status))
    BY <1>1, <2>2, LatestIsTip DEF StatusVerified
  <2> QED
    BY <2>1, <2>2 DEF DbHolds, NewestHolds
<1>3. HistoryVerified(d)
  <2>1. CASE NoneNamed(d, "job_history") /\ d.hist = d.newest.hist /\ ActiveCards(d) = d.newest.active
    BY <2>1, LatestOfNone DEF HistoryVerified
  <2>2. CASE TipIs(d, "job_history", d.hist)
    BY <1>1, <2>2, LatestIsTip DEF HistoryVerified
  <2> QED
    BY <2>1, <2>2 DEF DbHolds, NewestHolds
<1>4. PendingVerified(d)
  <2> DEFINE m == d.newest
  <2>1. m.pending \ Completed(d) = {n \in PendingPlans(d) : n <= m.source} /\ m.source \in Nat
    BY DEF DbHolds, NewestHolds
  <2>2. \A n \in Obligations(d) : n \in Nat /\ n <= Len(d.log)
    BY DEF DbHolds, LogHolds, Obligations
  <2>3. (m.pending \ Completed(d)) \cup {n \in Obligations(d) : n > m.source /\ n \notin Completed(d)} = PendingPlans(d)
    BY <2>1, <2>2 DEF PendingPlans, Completed
  <2>4. ASSUME Len(d.log) = m.source, LatestAuthority(d, "reaction_completion") = 0
        PROVE  PendingPlans(d) = m.pending
    <3>1. NoneNamed(d, "reaction_completion")
      BY <1>1, <2>4, NamedHasLatest, LatestIsTip
    <3>2. m.pending \cap Completed(d) = {}
      BY <3>1 DEF DbHolds, NewestHolds
    <3>3. \A n \in PendingPlans(d) : n <= m.source
      BY <2>2, <2>4 DEF PendingPlans
    <3> QED
      BY <2>1, <3>2, <3>3
  <2> QED
    BY <2>3, <2>4 DEF PendingVerified, Completed
<1>5. AnchorHolds(d, <<>>)
  BY DEF AnchorHolds, DbHolds, RowsHold
<1>6. TailVerified(d)
  BY TailContinues DEF DbHolds, NewestHolds
<1>7. Len(d.log) >= d.newest.source
  BY DEF DbHolds, NewestHolds, LogHolds
<1> QED
  BY <1>2, <1>3, <1>4, <1>5, <1>6, <1>7 DEF RestartVerified, DbHolds, DeltasHold, NewestHolds
-----------------------------------------------------------------------------
(* Deltas are appended, and old deltas keep their rows.                    *)

\* The new sequence begins with the old one.
Continues(old, new) == Len(new) >= Len(old) /\ \A i \in DOMAIN old : new[i] = old[i]

LEMMA AppendContinues ==
  ASSUME NEW S, NEW s \in Seq(S), NEW x \in S
  PROVE  /\ Append(s, x) \in Seq(S) /\ Continues(s, Append(s, x))
         /\ Len(Append(s, x)) = Len(s) + 1 /\ Append(s, x)[Len(s) + 1] = x /\ DOMAIN Append(s, x) = 1..(Len(s) + 1)
BY DEF Continues

\* r is s and then t.
Joins(S, s, t, r) ==
  /\ r \in Seq(S) /\ Len(r) = Len(s) + Len(t) /\ Continues(s, r)
  /\ \A m \in 1..Len(t) : Len(s) + m \in DOMAIN r /\ r[Len(s) + m] = t[m]
  /\ \A j \in DOMAIN r : j \in DOMAIN s \/ \E m \in 1..Len(t) : j = Len(s) + m
  /\ \A j \in DOMAIN s : j \in Nat /\ j \in DOMAIN r /\ r[j] = s[j] /\ \A m \in 1..Len(t) : Len(s) + m > j
LEMMA ConcatParts ==
  ASSUME NEW S, NEW s \in Seq(S), NEW t \in Seq(S) PROVE Joins(S, s, t, s \o t)
<1>1. /\ s \o t \in Seq(S) /\ Len(s \o t) = Len(s) + Len(t) /\ Continues(s, s \o t)
  BY DEF Continues
<1>2. Len(s) \in Nat /\ Len(t) \in Nat /\ DOMAIN s = 1..Len(s) /\ DOMAIN t = 1..Len(t) /\ DOMAIN (s \o t) = 1..(Len(s) + Len(t))
  OBVIOUS
<1>3. \A m \in 1..Len(t) : Len(s) + m \in DOMAIN (s \o t) /\ (s \o t)[Len(s) + m] = t[m]
  OBVIOUS
<1>4. \A j \in DOMAIN (s \o t) : j \in DOMAIN s \/ \E m \in 1..Len(t) : j = Len(s) + m
  <2> TAKE j \in DOMAIN (s \o t)
  <2>1. j \in Int /\ j >= 1 /\ j <= Len(s) + Len(t)
    BY <1>2
  <2>2. CASE j > Len(s)
    <3>1. j - Len(s) \in 1..Len(t) /\ j = Len(s) + (j - Len(s))
      BY <1>2, <2>1, <2>2
    <3> QED
      BY <3>1
  <2>3. CASE j <= Len(s)
    BY <1>2, <2>1, <2>3
  <2> QED
    BY <2>1, <2>2, <2>3, <1>2
<1>5. \A j \in DOMAIN s : j \in Nat /\ j \in DOMAIN (s \o t) /\ (s \o t)[j] = s[j] /\ \A m \in 1..Len(t) : Len(s) + m > j
  <2> TAKE j \in DOMAIN s
  <2>1. j \in 1..Len(s) /\ j \in 1..(Len(s) + Len(t))
    BY <1>2
  <2> QED
    BY <1>1, <1>2, <2>1 DEF Continues
<1> QED
  BY <1>1, <1>3, <1>4, <1>5 DEF Joins

\* Deltas of another authority leave the tip of this one where it was.
LEMMA TipKept ==
  ASSUME NEW d, NEW e, d.suffix \in Seq(DeltaRows), e.suffix \in Seq(DeltaRows), Continues(d.suffix, e.suffix), NEW kind,
         \A i \in DOMAIN e.suffix : i \notin DOMAIN d.suffix => e.suffix[i].kind # kind
  PROVE  /\ NoneNamed(d, kind) => NoneNamed(e, kind)
         /\ \A row : TipIs(d, kind, row) => TipIs(e, kind, row)
<1>1. \A i \in DOMAIN d.suffix : i \in DOMAIN e.suffix /\ e.suffix[i] = d.suffix[i]
  BY DEF Continues
<1>2. NoneNamed(d, kind) => NoneNamed(e, kind)
  BY <1>1 DEF NoneNamed
<1>3. ASSUME NEW row, TipIs(d, kind, row) PROVE TipIs(e, kind, row)
  <2>1. PICK i \in DOMAIN d.suffix : /\ d.suffix[i].kind = kind /\ d.suffix[i].seq = row
                                     /\ \A j \in DOMAIN d.suffix : d.suffix[j].kind = kind => j <= i
    BY <1>3 DEF TipIs
  <2>2. \A j \in DOMAIN e.suffix : e.suffix[j].kind = kind => j <= i
    BY <2>1, <1>1
  <2> QED
    BY <2>1, <2>2, <1>1 DEF TipIs
<1> QED
  BY <1>2, <1>3

LEMMA TipMoves ==
  ASSUME NEW e, e.suffix \in Seq(DeltaRows), e.suffix # <<>>
  PROVE  TipIs(e, e.suffix[Len(e.suffix)].kind, e.suffix[Len(e.suffix)].seq)
BY DEF TipIs

\* What a delta names stays when the tables grow.
LEMMA RowsStay ==
  ASSUME NEW d, NEW e, d.log \in Seq(Commands), e.log \in Seq(Commands), Len(d.log) <= Len(e.log),
         d.status \in Seq(StatusEntries), e.status \in Seq(StatusEntries), Len(d.status) <= Len(e.status),
         d.hist \in Nat, e.hist \in Nat, d.hist <= e.hist, Completed(d) \subseteq Completed(e),
         \A ep \in CardEpochs : d.closed[ep] # 0 => e.closed[ep] = d.closed[ep],
         NEW x \in DeltaRows, DeltaAuthorityHolds(d, x)
  PROVE  DeltaAuthorityHolds(e, x)
<1>1. x.seq \in Nat /\ x.seq # 0
  BY DEF DeltaRows
<1>2. Len(d.log) \in Nat /\ Len(e.log) \in Nat /\ Len(d.status) \in Nat /\ Len(e.status) \in Nat
  OBVIOUS
<1>3. CASE x.kind = "rolling_status" /\ x.seq <= Len(d.status)
  <2>1. x.seq <= Len(e.status)
    BY <1>1, <1>2, <1>3
  <2> QED
    BY <1>3, <2>1 DEF DeltaAuthorityHolds
<1>4. CASE x.kind = "job_history" /\ x.seq <= d.hist
  <2>1. x.seq <= e.hist
    BY <1>1, <1>4
  <2> QED
    BY <1>4, <2>1 DEF DeltaAuthorityHolds
<1>5. CASE x.kind = "reaction_completion" /\ x.seq \in Completed(d)
  <2>1. x.seq \in Completed(e)
    BY <1>5
  <2> QED
    BY <1>5, <2>1 DEF DeltaAuthorityHolds, Completed
<1>6. CASE x.kind = "epoch_closure" /\ \E ep \in CardEpochs : d.closed[ep] = x.seq
  <2>1. \E ep \in CardEpochs : e.closed[ep] = x.seq
    BY <1>1, <1>6
  <2> QED
    BY <1>6, <2>1 DEF DeltaAuthorityHolds
<1>7. CASE x.kind = "event_tail" /\ x.seq <= Len(d.log)
  <2>1. x.seq <= Len(e.log)
    BY <1>1, <1>2, <1>7
  <2> QED
    BY <1>7, <2>1 DEF DeltaAuthorityHolds
<1> QED
  BY <1>3, <1>4, <1>5, <1>6, <1>7 DEF DeltaAuthorityHolds, Completed

\* Replaying the suffix after other deltas were appended.
LEMMA ReplayKept ==
  ASSUME NEW d, NEW e, d.suffix \in Seq(DeltaRows), e.suffix \in Seq(DeltaRows), Continues(d.suffix, e.suffix),
         \A i \in DOMAIN e.suffix : i \notin DOMAIN d.suffix => e.suffix[i].kind # "rolling_status",
         e.status = d.status, e.newest.current = d.newest.current
  PROVE  CurrentAfterSuffix(e) = CurrentAfterSuffix(d)
<1>1. \A i \in DOMAIN d.suffix : i \in DOMAIN e.suffix /\ e.suffix[i] = d.suffix[i]
  BY DEF Continues
<1>2. StatusRows(e) = StatusRows(d)
  BY <1>1 DEF StatusRows
<1>3. \A i \in StatusRows(d) : e.status[e.suffix[i].seq] = d.status[d.suffix[i].seq]
  BY <1>1 DEF StatusRows
<1>4. \A i \in StatusRows(d) : \A k : (Removes(e, i, k) <=> Removes(d, i, k)) /\ (MakesCurrent(e, i, k) <=> MakesCurrent(d, i, k))
  BY <1>3 DEF Removes, MakesCurrent
<1> QED
  BY <1>2, <1>4 DEF CurrentAfterSuffix

\* The part of the newest checkpoint that is about the log and the obligations.
LogPart(d) ==
  /\ d.newest.source \in Nat /\ d.newest.source <= Len(d.log) /\ HeadsAt(d.log, d.newest.source, d.newest.heads)
  /\ d.newest.pending \ Completed(d) = {n \in PendingPlans(d) : n <= d.newest.source}
  /\ NoneNamed(d, "reaction_completion") => d.newest.pending \cap Completed(d) = {}

LEMMA LogPartKept ==
  ASSUME NEW d, NEW e, LogPart(d), e.log = d.log, e.done = d.done, e.newest = d.newest,
         NoneNamed(e, "reaction_completion") => NoneNamed(d, "reaction_completion")
  PROVE  LogPart(e)
<1>1. Completed(e) = Completed(d) /\ PendingPlans(e) = PendingPlans(d)
  BY DEF Completed, PendingPlans, Obligations
<1> QED
  BY <1>1 DEF LogPart

\* A longer suffix names everything the shorter one names.
LEMMA NamedStays ==
  ASSUME NEW d, NEW e, Continues(d.suffix, e.suffix), d.suffix \in Seq(DeltaRows), e.suffix \in Seq(DeltaRows),
         NEW kind, NoneNamed(e, kind)
  PROVE  NoneNamed(d, kind)
BY DEF NoneNamed, Continues
\* The deltas of a database whose tables and suffix grew.
LEMMA DeltasKept ==
  ASSUME NEW d, NEW e, DbHolds(d), e.log \in Seq(Commands), Len(d.log) <= Len(e.log),
         e.status \in Seq(StatusEntries), Len(d.status) <= Len(e.status),
         e.hist \in Nat, d.hist <= e.hist, Completed(d) \subseteq Completed(e),
         \A ep \in CardEpochs : d.closed[ep] # 0 => e.closed[ep] = d.closed[ep],
         e.suffix \in Seq(DeltaRows), Continues(d.suffix, e.suffix),
         \A i \in DOMAIN e.suffix : i \notin DOMAIN d.suffix => DeltaAuthorityHolds(e, e.suffix[i])
  PROVE  DeltasHold(e)
<1>1. d.suffix \in Seq(DeltaRows) /\ \A i \in DOMAIN d.suffix : DeltaAuthorityHolds(d, d.suffix[i])
  BY DEF DbHolds, DeltasHold
<1>2. d.log \in Seq(Commands) /\ d.status \in Seq(StatusEntries) /\ d.hist \in Nat
  BY DEF DbHolds, LogHolds, StatusesHold, RowsHold
<1>3. \A i \in DOMAIN d.suffix : d.suffix[i] \in DeltaRows /\ e.suffix[i] = d.suffix[i]
  BY <1>1 DEF Continues
<1>4. ASSUME NEW i \in DOMAIN d.suffix PROVE DeltaAuthorityHolds(e, d.suffix[i])
  <2>1. d.suffix[i] \in DeltaRows /\ DeltaAuthorityHolds(d, d.suffix[i])
    BY <1>1, <1>3
  <2> QED
    BY <2>1, <1>2, RowsStay
<1> QED
  BY <1>3, <1>4 DEF DeltasHold

-----------------------------------------------------------------------------
(* Repairing the projections.                                              *)

LEMMA SameRowsHold ==
  ASSUME NEW d, NEW e, DbHolds(d), RdbFields(e), e.log = d.log, e.jobs = d.jobs, e.hist = d.hist, e.pubs = d.pubs,
         e.status = d.status, e.closed = d.closed, e.done = d.done, e.points = d.points, e.suffix = d.suffix,
         e.newest = d.newest, e.current \in SUBSET d.pubs
  PROVE  DbHolds(e) /\ VerifiedCurrent(e) = VerifiedCurrent(d) /\ CurrentAfterSuffix(e) = CurrentAfterSuffix(d)
<1>1. VerifiedCurrent(e) = VerifiedCurrent(d)
  BY DEF VerifiedCurrent
<1>2. CurrentAfterSuffix(e) = CurrentAfterSuffix(d)
  BY DEF CurrentAfterSuffix, StatusRows, Removes, MakesCurrent
<1>3. ActiveCards(e) = ActiveCards(d) /\ PendingPlans(e) = PendingPlans(d) /\ Completed(e) = Completed(d)
  BY DEF ActiveCards, PendingPlans, Obligations, Completed
<1>4. LogHolds(e) /\ RowsHold(e)
  BY DEF DbHolds, LogHolds, RowsHold
<1>5. StatusesHold(e)
  BY <1>1 DEF DbHolds, StatusesHold
<1>6. DeltasHold(e)
  BY DEF DbHolds, DeltasHold, DeltaAuthorityHolds
<1>7. NewestHolds(e)
  BY <1>1, <1>2, <1>3 DEF DbHolds, NewestHolds, NoneNamed, TipIs
<1> QED
  BY <1>1, <1>2, <1>4, <1>5, <1>6, <1>7 DEF DbHolds

LEMMA VerifiedIsPublished ==
  ASSUME NEW d PROVE VerifiedCurrent(d) \in SUBSET d.pubs
BY DEF VerifiedCurrent

\* Only the suffix grew, by a delta that is not about a status, a job or a completion.
LEMMA EventTailHolds ==
  ASSUME NEW d, DbHolds(d), d.newest.source < Len(d.log)
  PROVE  LET e == AppendDelta(d, "event_tail", Len(d.log)) IN
         /\ DbHolds(e) /\ e.log = d.log /\ e.jobs = d.jobs /\ e.hist = d.hist /\ e.pubs = d.pubs /\ e.status = d.status
         /\ e.closed = d.closed /\ e.done = d.done /\ e.points = d.points /\ e.newest = d.newest /\ e.current = d.current
         /\ e.cursor = d.cursor
<1> DEFINE x == [kind |-> "event_tail", seq |-> Len(d.log)]
           e == AppendDelta(d, "event_tail", Len(d.log))
<1>1. d.suffix \in Seq(DeltaRows) /\ d.newest.source \in Nat /\ Len(d.log) \in Nat
  BY DEF DbHolds, DeltasHold, NewestHolds, LogHolds
<1>2. x \in DeltaRows
  BY <1>1 DEF DeltaRows, DeltaKinds
<1>3. RdbFields(d)
  BY DEF DbHolds
<1>4. e = [d EXCEPT !.suffix = Append(d.suffix, x)]
  BY DEF AppendDelta
<1> HIDE DEF e, x
<1>5. /\ e.log = d.log /\ e.jobs = d.jobs /\ e.hist = d.hist /\ e.pubs = d.pubs /\ e.status = d.status
      /\ e.closed = d.closed /\ e.done = d.done /\ e.points = d.points /\ e.newest = d.newest /\ e.current = d.current
      /\ e.cursor = d.cursor /\ e.suffix = Append(d.suffix, x) /\ RdbFields(e)
  BY <1>3, <1>4 DEF RdbFields
<1>6. e.suffix \in Seq(DeltaRows) /\ Continues(d.suffix, e.suffix)
      /\ \A i \in DOMAIN e.suffix : i \notin DOMAIN d.suffix => e.suffix[i] = x
  BY <1>1, <1>2, <1>5, AppendContinues
<1>7. x.kind = "event_tail" /\ x.seq = Len(d.log)
  BY DEF x
<1>8. VerifiedCurrent(e) = VerifiedCurrent(d)
  BY <1>5 DEF VerifiedCurrent
<1>9. CurrentAfterSuffix(e) = CurrentAfterSuffix(d)
  BY <1>1, <1>5, <1>6, <1>7, ReplayKept
<1>10. LogHolds(e) /\ RowsHold(e) /\ StatusesHold(e)
  BY <1>5, <1>8 DEF DbHolds, LogHolds, RowsHold, StatusesHold
<1>11. DeltaAuthorityHolds(e, x)
  BY <1>1, <1>5, <1>7 DEF DeltaAuthorityHolds
<1>12. DeltasHold(e)
  <2>1. Completed(d) \subseteq Completed(e)
    BY <1>5 DEF Completed
  <2>2. Len(e.log) <= Len(d.log) /\ Len(d.log) <= Len(e.log) /\ Len(d.status) <= Len(e.status) /\ d.hist <= e.hist /\ e.hist \in Nat
    BY <1>5, <1>10 DEF RowsHold, LogHolds, StatusesHold
  <2> QED
    BY <2>1, <2>2, <1>5, <1>6, <1>10, <1>11, DeltasKept DEF LogHolds, StatusesHold
<1>13. NewestHolds(e)
  <2>1. LogPart(e)
    <3>1. LogPart(d)
      BY DEF DbHolds, NewestHolds, LogPart
    <3> QED
      BY <3>1, <1>1, <1>5, <1>6, NamedStays, LogPartKept
  <2>2. /\ NoneNamed(d, "rolling_status") => NoneNamed(e, "rolling_status")
        /\ TipIs(d, "rolling_status", Len(d.status)) => TipIs(e, "rolling_status", Len(d.status))
    BY <1>1, <1>6, <1>7, TipKept
  <2>3. /\ NoneNamed(d, "job_history") => NoneNamed(e, "job_history")
        /\ TipIs(d, "job_history", d.hist) => TipIs(e, "job_history", d.hist)
    BY <1>1, <1>6, <1>7, TipKept
  <2>4. ActiveCards(e) = ActiveCards(d)
    BY <1>5 DEF ActiveCards
  <2> QED
    BY <2>1, <2>2, <2>3, <2>4, <1>5, <1>8, <1>9 DEF DbHolds, NewestHolds, LogPart
<1>14. DbHolds(e)
  BY <1>5, <1>10, <1>12, <1>13 DEF DbHolds
<1> QED
  BY <1>5, <1>14 DEF e

\* The repaired database has the same rows, and the current cards of its status history.
SameTables(d, e) ==
  /\ e.log = d.log /\ e.jobs = d.jobs /\ e.hist = d.hist /\ e.pubs = d.pubs /\ e.status = d.status
  /\ e.closed = d.closed /\ e.done = d.done /\ e.points = d.points /\ e.newest = d.newest
LEMMA RecoveredHolds ==
  ASSUME NEW d, DbHolds(d)
  PROVE  /\ DbHolds(Recovered(d)) /\ SameTables(d, Recovered(d))
         /\ Recovered(d).current = VerifiedCurrent(d) /\ VerifiedCurrent(Recovered(d)) = VerifiedCurrent(d)
<1> DEFINE c == RepairedCursor(d)
           r == RepairedSubjects(c)
<1>1. RdbFields(d)
  BY DEF DbHolds
<1>2. c = [d EXCEPT !.cursor = CursorOf(d)]
  BY DEF RepairedCursor
<1>3. r = [c EXCEPT !.current = CurrentAfterSuffix(c)]
  BY DEF RepairedSubjects
<1> HIDE DEF c, r
<1>4. RdbFields(c) /\ SameTables(d, c) /\ c.suffix = d.suffix /\ c.current = d.current
  BY <1>1, <1>2 DEF RdbFields, SameTables
<1>5. DbHolds(c) /\ VerifiedCurrent(c) = VerifiedCurrent(d) /\ CurrentAfterSuffix(c) = CurrentAfterSuffix(d)
  <2>1. c.current \in SUBSET d.pubs
    BY <1>4 DEF DbHolds, RowsHold
  <2> QED
    BY <2>1, <1>4, SameRowsHold DEF SameTables
<1>6. RdbFields(r) /\ SameTables(c, r) /\ r.suffix = c.suffix /\ r.current = CurrentAfterSuffix(c)
  BY <1>3, <1>4 DEF RdbFields, SameTables
<1>7. CurrentAfterSuffix(c) = VerifiedCurrent(c)
  BY <1>5 DEF DbHolds, NewestHolds
<1>8. DbHolds(r) /\ VerifiedCurrent(r) = VerifiedCurrent(c)
  <2>1. r.current \in SUBSET c.pubs
    BY <1>6, <1>7, VerifiedIsPublished
  <2> QED
    BY <2>1, <1>5, <1>6, SameRowsHold DEF SameTables
<1>9. CASE Recovered(d) = r
  BY <1>4, <1>5, <1>6, <1>7, <1>8, <1>9 DEF SameTables
<1>10. CASE Len(d.log) > d.newest.source /\ Recovered(d) = AppendDelta(r, "event_tail", Len(d.log))
  <2> DEFINE e == AppendDelta(r, "event_tail", Len(r.log))
  <2>1. r.log = d.log /\ r.newest = d.newest
    BY <1>4, <1>6 DEF SameTables
  <2>2. r.newest.source < Len(r.log)
    BY <2>1, <1>10 DEF DbHolds, NewestHolds, LogHolds
  <2>3. DbHolds(e) /\ SameTables(r, e) /\ e.current = r.current
    BY <2>2, <1>8, EventTailHolds DEF SameTables
  <2>4. Recovered(d) = e
    BY <2>1, <1>10
  <2> HIDE DEF e
  <2>5. VerifiedCurrent(e) = VerifiedCurrent(r)
    BY <2>3 DEF SameTables, VerifiedCurrent
  <2> QED
    BY <2>3, <2>4, <2>5, <1>4, <1>5, <1>6, <1>7, <1>8 DEF SameTables
<1> QED
  BY <1>9, <1>10 DEF Recovered, r, c
-----------------------------------------------------------------------------
(* The coordinator, the refresher and the registry.                        *)

CoordFields(c) ==
  c \in [up : BOOLEAN, cache : {c.cache}, active : {c.active}, stage : {c.stage}, source : {c.source}, plan : {c.plan},
         sealing : {c.sealing}]

\* What was prepared off the lock is the material of an earlier state of this database.
RefreshHolds(d, r) ==
  \/ r = NoRefresh
  \/ /\ r.at = "prepared"
     /\ r.material.source = r.guard.log /\ r.material.status = r.guard.status /\ r.material.hist = r.guard.hist
     /\ r.material.active = r.guard.active /\ r.material.pending = r.guard.pending
     /\ r.guard.log \in Nat /\ r.guard.log <= Len(d.log) /\ HeadsAt(d.log, r.guard.log, r.material.heads)
     /\ r.guard.status \in Nat /\ r.guard.status <= Len(d.status)
     /\ Len(d.status) = r.guard.status => r.material.current = VerifiedCurrent(d)

\* A reaction works on a command of the kind that its stage is for.
StageHolds(d, c) ==
  /\ c.stage # "idle" => c.source \in DOMAIN d.log
  /\ c.stage \in {"close", "sweep", "retire"} => d.log[c.source].kind = "close"
  /\ c.stage \in {"plan", "supersede", "enqueue"} => d.log[c.source].kind = "result"

\* Between the transactions of a closure only the sweep still has jobs to cancel, and only cards of
\* the epoch that is being closed are left to supersede; those are in the cache.
CurrentNewest(d) == {k \in d.current : IsNewestScheduled(d, k)}
ClosureHolds(d, c) ==
  /\ c.stage # "sweep" => \A k \in ActiveCards(d) : d.closed[CardEpochOf(k)] = 0
  /\ CurrentNewest(d) \subseteq c.cache
  /\ \A k \in CurrentNewest(d) : d.closed[CardEpochOf(k)] # 0 =>
       c.stage \in {"sweep", "retire"} /\ CardEpochOf(k) = d.log[c.source].who

CoordHolds(d, c) ==
  /\ CoordFields(c) /\ StageHolds(d, c)
  /\ ~c.up => c.stage = "idle"
  /\ c.up => d.current = VerifiedCurrent(d) /\ ClosureHolds(d, c)

RegistryHolds(d) ==
  retained \in Seq(Nat) /\ damages \in Nat /\ anchored \in BOOLEAN /\ (anchored => AnchorHolds(d, retained))

RollInv ==
  /\ DbHolds(rdb) /\ WithinSuffix(rdb) /\ RegistryHolds(rdb)
  /\ RefreshHolds(rdb, refresh) /\ (refresh # NoRefresh => anchored)
  /\ CoordHolds(rdb, coord) /\ (coord.up => anchored)
-----------------------------------------------------------------------------
(* The transactions of the queue and of the publications.                  *)

\* The suffix grew by deltas that are not about statuses; the rest of the checkpoint is given.
LEMMA NewestKept ==
  ASSUME NEW d, NEW e, DbHolds(d), e.suffix \in Seq(DeltaRows), Continues(d.suffix, e.suffix),
         \A i \in DOMAIN e.suffix : i \notin DOMAIN d.suffix => e.suffix[i].kind # "rolling_status",
         e.status = d.status, e.pubs = d.pubs, e.newest = d.newest, LogPart(e),
         \/ NoneNamed(e, "job_history") /\ e.hist = e.newest.hist /\ ActiveCards(e) = e.newest.active
         \/ TipIs(e, "job_history", e.hist)
  PROVE  NewestHolds(e) /\ VerifiedCurrent(e) = VerifiedCurrent(d)
<1>1. d.suffix \in Seq(DeltaRows)
  BY DEF DbHolds, DeltasHold
<1>2. /\ NoneNamed(d, "rolling_status") => NoneNamed(e, "rolling_status")
      /\ TipIs(d, "rolling_status", Len(d.status)) => TipIs(e, "rolling_status", Len(d.status))
  BY <1>1, TipKept
<1>3. CurrentAfterSuffix(e) = CurrentAfterSuffix(d)
  BY <1>1, ReplayKept
<1>4. VerifiedCurrent(e) = VerifiedCurrent(d)
  BY DEF VerifiedCurrent
<1> QED
  BY <1>2, <1>3, <1>4 DEF DbHolds, NewestHolds, LogPart

\* A change of the jobs, with its row of history and its delta.
LEMMA JobsMove ==
  ASSUME NEW d, DbHolds(d), NEW jobs, jobs = [k \in DOMAIN jobs |-> jobs[k]], DOMAIN jobs \in SUBSET Cards,
         DOMAIN d.jobs \subseteq DOMAIN jobs
  PROVE  LET e == AppendJobHistory([d EXCEPT !.jobs = jobs]) IN
         /\ DbHolds(e) /\ VerifiedCurrent(e) = VerifiedCurrent(d) /\ e.jobs = jobs
         /\ e.log = d.log /\ e.pubs = d.pubs /\ e.status = d.status /\ e.current = d.current
         /\ e.closed = d.closed /\ e.done = d.done /\ e.points = d.points /\ e.newest = d.newest
<1> DEFINE x == [kind |-> "job_history", seq |-> d.hist + 1]
           e == AppendJobHistory([d EXCEPT !.jobs = jobs])
<1>1. d.suffix \in Seq(DeltaRows) /\ d.hist \in Nat /\ RdbFields(d)
  BY DEF DbHolds, DeltasHold, RowsHold
<1>2. x \in DeltaRows
  BY <1>1 DEF DeltaRows, DeltaKinds
<1>3. e = [d EXCEPT !.jobs = jobs, !.hist = d.hist + 1, !.suffix = Append(d.suffix, x)]
  BY <1>1 DEF AppendJobHistory, AppendDelta, RdbFields
<1>4. x.kind = "job_history" /\ x.seq = d.hist + 1
  OBVIOUS
<1> HIDE DEF e, x
<1>5. /\ e.log = d.log /\ e.jobs = jobs /\ e.hist = d.hist + 1 /\ e.pubs = d.pubs /\ e.status = d.status
      /\ e.closed = d.closed /\ e.done = d.done /\ e.points = d.points /\ e.newest = d.newest /\ e.current = d.current
      /\ e.suffix = Append(d.suffix, x) /\ RdbFields(e)
  BY <1>1, <1>3 DEF RdbFields
<1>6. e.suffix \in Seq(DeltaRows) /\ Continues(d.suffix, e.suffix)
      /\ \A i \in DOMAIN e.suffix : i \notin DOMAIN d.suffix => e.suffix[i] = x
  BY <1>1, <1>2, <1>5, AppendContinues
<1>7. e.hist \in Nat /\ d.hist <= e.hist
  BY <1>1, <1>5
<1>8. LogPart(e)
  <2>1. LogPart(d)
    BY DEF DbHolds, NewestHolds, LogPart
  <2> QED
    BY <2>1, <1>1, <1>5, <1>6, NamedStays, LogPartKept
<1>9. TipIs(e, "job_history", e.hist)
  <2>1. e.suffix # <<>> /\ e.suffix[Len(e.suffix)] = x
    BY <1>1, <1>2, <1>5, AppendContinues
  <2> QED
    BY <2>1, <1>4, <1>5, <1>6, TipMoves
<1>10. NewestHolds(e) /\ VerifiedCurrent(e) = VerifiedCurrent(d)
  BY <1>4, <1>5, <1>6, <1>8, <1>9, NewestKept
<1>11. LogHolds(e) /\ RowsHold(e) /\ StatusesHold(e)
  BY <1>5, <1>7, <1>10 DEF DbHolds, LogHolds, RowsHold, StatusesHold
<1>12. DeltasHold(e)
  <2>1. DeltaAuthorityHolds(e, x)
    BY <1>1, <1>4, <1>5 DEF DeltaAuthorityHolds
  <2>2. Completed(d) \subseteq Completed(e)
    BY <1>5 DEF Completed
  <2>3. Len(d.log) <= Len(e.log) /\ Len(d.status) <= Len(e.status)
    BY <1>5, <1>11 DEF LogHolds, StatusesHold
  <2> QED
    BY <2>1, <2>2, <2>3, <1>5, <1>6, <1>7, <1>11, DeltasKept DEF LogHolds, StatusesHold
<1> QED
  BY <1>5, <1>10, <1>11, <1>12 DEF DbHolds, e
LEMMA SetToSeqLists ==
  ASSUME NEW S, IsFiniteSet(S)
  PROVE  /\ Cardinality(S) \in Nat /\ SetToSeq(S) \in [1..Cardinality(S) -> S]
         /\ \A x \in S : \E i \in 1..Cardinality(S) : SetToSeq(S)[i] = x
<1> DEFINE n == Cardinality(S)
           P(f) == f \in [1..n -> S] /\ IsInjective(f)
           c == CHOOSE f : P(f)
<1>1. n \in Nat /\ ExistsBijection(1..n, S)
  BY FS_CardinalityType
<1>2. \E f : P(f)
  BY <1>1 DEF ExistsBijection, Bijection, Injection
<1>3. P(c)
  BY <1>2
<1>4. SetToSeq(S) = c
  BY DEF SetToSeq
<1> HIDE DEF c
<1>5. c \in Injection(1..n, S)
  BY <1>3 DEF Injection
<1>6. IsFiniteSet(1..n) /\ Cardinality(1..n) = n
  <2>1. \A m \in Nat : IsFiniteSet(1..m) /\ Cardinality(1..m) = m
    <3> TAKE m \in Nat
    <3>1. IsFiniteSet(1..m) /\ Cardinality(1..m) = IF 1 > m THEN 0 ELSE m - 1 + 1
      BY FS_Interval
    <3> QED
      BY <3>1
  <2> HIDE DEF n
  <2> QED
    BY <1>1, <2>1
<1>7. c \in Surjection(1..n, S)
  <2> HIDE DEF n
  <2>1. Cardinality(1..n) = Cardinality(S)
    BY <1>6 DEF n
  <2> QED
    BY <1>5, <1>6, <2>1, FS_Injection
<1> QED
  BY <1>1, <1>3, <1>4, <1>7 DEF Surjection

\* Statuses and deltas were appended: the old deltas replay as they did.
LEMMA OldDeltasReplay ==
  ASSUME NEW d, NEW e, DbHolds(d), e.suffix \in Seq(DeltaRows), Continues(d.suffix, e.suffix),
         e.status \in Seq(StatusEntries), Continues(d.status, e.status)
  PROVE  /\ \A i \in DOMAIN d.suffix : i \in StatusRows(d) <=> i \in StatusRows(e)
         /\ \A i \in StatusRows(d) : \A k : /\ Removes(e, i, k) <=> Removes(d, i, k)
                                            /\ MakesCurrent(e, i, k) <=> MakesCurrent(d, i, k)
<1>1. d.suffix \in Seq(DeltaRows) /\ d.status \in Seq(StatusEntries)
  BY DEF DbHolds, DeltasHold, StatusesHold
<1>2. \A i \in DOMAIN d.suffix : i \in DOMAIN e.suffix /\ e.suffix[i] = d.suffix[i]
  BY <1>1 DEF Continues
<1>3. \A i \in DOMAIN d.suffix : i \in StatusRows(d) <=> i \in StatusRows(e)
  BY <1>2 DEF StatusRows
<1>4. ASSUME NEW i \in StatusRows(d) PROVE e.status[e.suffix[i].seq] = d.status[d.suffix[i].seq]
  <2>1. i \in DOMAIN d.suffix /\ d.suffix[i].kind = "rolling_status" /\ d.suffix[i] \in DeltaRows
    BY <1>1 DEF StatusRows
  <2>2. DeltaAuthorityHolds(d, d.suffix[i])
    BY <2>1 DEF DbHolds, DeltasHold
  <2>3. d.suffix[i].seq <= Len(d.status)
    BY <2>1, <2>2 DEF DeltaAuthorityHolds
  <2>4. d.suffix[i].seq \in DOMAIN d.status
    BY <1>1, <2>1, <2>3 DEF DeltaRows
  <2> QED
    BY <1>2, <2>1, <2>4 DEF Continues
<1>5. \A i \in StatusRows(d) : \A k : /\ Removes(e, i, k) <=> Removes(d, i, k)
                                      /\ MakesCurrent(e, i, k) <=> MakesCurrent(d, i, k)
  BY <1>4 DEF Removes, MakesCurrent
<1> QED
  BY <1>3, <1>5
\* The suffix and the statuses grew, the log, the jobs and the obligations stayed.
LEMMA StatusesMove ==
  ASSUME NEW d, NEW e, DbHolds(d), RdbFields(e), e.log = d.log, e.jobs = d.jobs, e.hist = d.hist, e.pubs = d.pubs,
         e.closed = d.closed, e.done = d.done, e.points = d.points, e.newest = d.newest, e.current \in SUBSET d.pubs,
         StatusesHold(e), Continues(d.status, e.status), e.suffix \in Seq(DeltaRows), Continues(d.suffix, e.suffix),
         \A i \in DOMAIN e.suffix : i \notin DOMAIN d.suffix =>
           e.suffix[i].kind = "rolling_status" /\ e.suffix[i].seq <= Len(e.status),
         (e.suffix = d.suffix /\ e.status = d.status) \/ TipIs(e, "rolling_status", Len(e.status)),
         CurrentAfterSuffix(e) = VerifiedCurrent(e)
  PROVE  DbHolds(e)
<1>1. d.suffix \in Seq(DeltaRows) /\ e.status \in Seq(StatusEntries)
  BY DEF DbHolds, DeltasHold, StatusesHold
<1>2. LogHolds(e) /\ RowsHold(e)
  BY DEF DbHolds, LogHolds, RowsHold
<1>3. DeltasHold(e)
  <2>1. \A i \in DOMAIN e.suffix : i \notin DOMAIN d.suffix => DeltaAuthorityHolds(e, e.suffix[i])
    BY DEF DeltaAuthorityHolds
  <2>2. Completed(d) \subseteq Completed(e)
    BY DEF Completed
  <2>3. Len(d.log) <= Len(e.log) /\ Len(d.status) <= Len(e.status) /\ d.hist <= e.hist /\ e.hist \in Nat
    BY <1>2 DEF LogHolds, RowsHold, Continues
  <2> QED
    BY <2>1, <2>2, <2>3, <1>1, <1>2, DeltasKept DEF LogHolds
<1>4. NewestHolds(e)
  <2>1. LogPart(e)
    <3>1. LogPart(d)
      BY DEF DbHolds, NewestHolds, LogPart
    <3> QED
      BY <3>1, <1>1, NamedStays, LogPartKept
  <2>2. /\ NoneNamed(d, "job_history") => NoneNamed(e, "job_history")
        /\ TipIs(d, "job_history", d.hist) => TipIs(e, "job_history", d.hist)
    BY <1>1, TipKept
  <2>3. ActiveCards(e) = ActiveCards(d)
    BY DEF ActiveCards
  <2>4. (NoneNamed(e, "rolling_status") /\ Len(e.status) = e.newest.status) \/ TipIs(e, "rolling_status", Len(e.status))
    <3>1. CASE e.suffix = d.suffix /\ e.status = d.status
      BY <3>1 DEF DbHolds, NewestHolds, NoneNamed, TipIs
    <3> QED
      BY <3>1
  <2> QED
    BY <2>1, <2>2, <2>3, <2>4 DEF DbHolds, NewestHolds, LogPart
<1> QED
  BY <1>2, <1>3, <1>4 DEF DbHolds

\* Cards are superseded: each has a last status that says so.
LEMMA CardsRetire ==
  ASSUME NEW d, DbHolds(d), NEW gone, gone \in SUBSET d.pubs
  PROVE  LET e == SupersedeCards(d, gone) IN
         /\ DbHolds(e) /\ VerifiedCurrent(e) = VerifiedCurrent(d) \ gone /\ e.current = d.current \ gone
         /\ e.log = d.log /\ e.jobs = d.jobs /\ e.hist = d.hist /\ e.pubs = d.pubs /\ e.cursor = d.cursor
         /\ e.closed = d.closed /\ e.done = d.done /\ e.points = d.points /\ e.newest = d.newest
         /\ Len(d.status) <= Len(e.status) /\ (Len(e.status) = Len(d.status) => gone = {})
<1> DEFINE e == SupersedeCards(d, gone)
           q == SetToSeq(gone)
           n == Cardinality(gone)
           t == [i \in 1..n |-> [card |-> q[i], current |-> FALSE]]
           u == [i \in 1..n |-> [kind |-> "rolling_status", seq |-> Len(d.status) + i]]
<1>1. d.suffix \in Seq(DeltaRows) /\ d.status \in Seq(StatusEntries) /\ RdbFields(d) /\ Len(d.status) \in Nat /\ Len(d.suffix) \in Nat
      /\ d.pubs \in SUBSET Cards /\ IsFiniteSet(gone)
  BY FS_Subset DEF DbHolds, DeltasHold, StatusesHold, RowsHold
<1>2. n \in Nat /\ q \in [1..n -> gone] /\ \A x \in gone : \E i \in 1..n : q[i] = x
  BY <1>1, SetToSeqLists
<1>3. e = [d EXCEPT !.current = d.current \ gone, !.status = d.status \o t, !.suffix = d.suffix \o u]
  <2>1. DOMAIN q = 1..n
    BY <1>2
  <2> HIDE DEF n, q
  <2> QED
    BY <2>1, <1>1 DEF SupersedeCards, RdbFields, q
<1> HIDE DEF e, n, q
<1>4. t \in Seq(StatusEntries) /\ u \in Seq(DeltaRows) /\ DOMAIN t = 1..n /\ DOMAIN u = 1..n /\ Len(t) = n /\ Len(u) = n
  <2>1. \A i \in 1..n : t[i] \in StatusEntries
    BY <1>1, <1>2 DEF StatusEntries
  <2>2. \A i \in 1..n : u[i] \in DeltaRows
    BY <1>1, <1>2 DEF DeltaRows, DeltaKinds
  <2>3. t \in [1..n -> StatusEntries] /\ u \in [1..n -> DeltaRows]
    BY <2>1, <2>2
  <2> HIDE DEF t, u
  <2> QED
    BY <2>3, <1>2
<1>5. \A i \in 1..n : t[i].card = q[i] /\ t[i].current = FALSE /\ u[i].kind = "rolling_status" /\ u[i].seq = Len(d.status) + i
  OBVIOUS
<1> HIDE DEF t, u
<1>6. /\ e.log = d.log /\ e.jobs = d.jobs /\ e.hist = d.hist /\ e.pubs = d.pubs /\ e.cursor = d.cursor
      /\ e.closed = d.closed /\ e.done = d.done /\ e.points = d.points /\ e.newest = d.newest
      /\ e.current = d.current \ gone /\ e.status = d.status \o t /\ e.suffix = d.suffix \o u /\ RdbFields(e)
  BY <1>1, <1>3 DEF RdbFields
<1> DEFINE l == Len(d.status)
           p == Len(d.suffix)
<1>7. /\ e.status \in Seq(StatusEntries) /\ Continues(d.status, e.status) /\ Len(e.status) = l + n
      /\ \A m \in 1..n : l + m \in DOMAIN e.status /\ e.status[l + m] = t[m]
      /\ \A j \in DOMAIN e.status : j \in DOMAIN d.status \/ \E m \in 1..n : j = l + m
      /\ \A j \in DOMAIN d.status : j \in Nat /\ j \in DOMAIN e.status /\ e.status[j] = d.status[j] /\ \A m \in 1..n : l + m > j
  <2>1. Joins(StatusEntries, d.status, t, d.status \o t)
    BY <1>1, <1>4, ConcatParts
  <2>2. Joins(StatusEntries, d.status, t, e.status)
    BY <2>1, <1>6
  <2>3. Len(t) = n /\ Len(d.status) = l
    BY <1>4
  <2> HIDE DEF l
  <2> QED
    BY <2>2, <2>3 DEF Joins
<1>8. /\ e.suffix \in Seq(DeltaRows) /\ Continues(d.suffix, e.suffix) /\ Len(e.suffix) = p + n
      /\ \A m \in 1..n : p + m \in DOMAIN e.suffix /\ e.suffix[p + m] = u[m]
      /\ \A j \in DOMAIN e.suffix : j \in DOMAIN d.suffix \/ \E m \in 1..n : j = p + m
      /\ \A j \in DOMAIN d.suffix : j \in Nat /\ j \in DOMAIN e.suffix /\ e.suffix[j] = d.suffix[j] /\ \A m \in 1..n : p + m > j
  <2>1. Joins(DeltaRows, d.suffix, u, d.suffix \o u)
    BY <1>1, <1>4, ConcatParts
  <2>2. Joins(DeltaRows, d.suffix, u, e.suffix)
    BY <2>1, <1>6
  <2>3. Len(u) = n /\ Len(d.suffix) = p
    BY <1>4
  <2> HIDE DEF p
  <2> QED
    BY <2>2, <2>3 DEF Joins
<1>14. l \in Nat /\ p \in Nat /\ \A m \in 1..n : u[m].seq = l + m
  BY <1>1, <1>5
<1> HIDE DEF l, p
<1>9. VerifiedCurrent(e) = VerifiedCurrent(d) \ gone
  <2>2. ASSUME NEW k \in VerifiedCurrent(e) PROVE k \in VerifiedCurrent(d) /\ k \notin gone
    <3>1. k \in e.pubs
      BY <2>2 DEF VerifiedCurrent
    <3>2. PICK i \in DOMAIN e.status : e.status[i].card = k /\ e.status[i].current /\ \A j \in DOMAIN e.status : j > i => e.status[j].card # k
      BY <2>2 DEF VerifiedCurrent
    <3>3. i \in DOMAIN d.status
      BY <3>2, <1>5, <1>7
    <3>4. k \in VerifiedCurrent(d)
      BY <3>1, <3>2, <3>3, <1>6, <1>7 DEF VerifiedCurrent
    <3>5. \A m \in 1..n : q[m] # k
      BY <3>2, <3>3, <1>5, <1>7
    <3> QED
      BY <3>4, <3>5, <1>2
  <2>3. ASSUME NEW k \in VerifiedCurrent(d), k \notin gone PROVE k \in VerifiedCurrent(e)
    <3>1. PICK i \in DOMAIN d.status : d.status[i].card = k /\ d.status[i].current /\ \A j \in DOMAIN d.status : j > i => d.status[j].card # k
      BY <2>3 DEF VerifiedCurrent
    <3>2. \A m \in 1..n : q[m] \in gone
      BY <1>2
    <3>3. ASSUME NEW j \in DOMAIN e.status, j > i PROVE e.status[j].card # k
      <4>1. CASE j \in DOMAIN d.status
        BY <3>1, <3>3, <4>1, <1>7
      <4>2. ASSUME NEW m \in 1..n, j = l + m PROVE e.status[j].card # k
        <5>1. e.status[j] = t[m] /\ t[m].card = q[m] /\ q[m] # k
          BY <3>2, <4>2, <2>3, <1>5, <1>7
        <5> QED
          BY <5>1
      <4> QED
        BY <4>1, <4>2, <1>7
    <3> QED
      BY <3>1, <3>3, <2>3, <1>6, <1>7 DEF VerifiedCurrent
  <2> QED
    BY <2>2, <2>3
<1>10. CurrentAfterSuffix(e) = CurrentAfterSuffix(d) \ gone
  <2>1. /\ \A i \in DOMAIN d.suffix : i \in StatusRows(d) <=> i \in StatusRows(e)
        /\ \A i \in StatusRows(d) : \A k : (Removes(e, i, k) <=> Removes(d, i, k)) /\ (MakesCurrent(e, i, k) <=> MakesCurrent(d, i, k))
    BY <1>7, <1>8, OldDeltasReplay
  <2>2. ASSUME NEW m \in 1..n
        PROVE  /\ p + m \in StatusRows(e)
               /\ \A k : (Removes(e, p + m, k) <=> q[m] = k) /\ ~MakesCurrent(e, p + m, k)
    <3>1. p + m \in DOMAIN e.suffix /\ e.suffix[p + m] = u[m]
      BY <1>8
    <3>2. u[m].kind = "rolling_status" /\ e.status[u[m].seq] = t[m] /\ t[m].card = q[m] /\ t[m].current = FALSE
      BY <1>5, <1>7, <1>14
    <3> QED
      BY <3>1, <3>2 DEF StatusRows, Removes, MakesCurrent
  <2>3. \A i \in StatusRows(e) : i \in StatusRows(d) \/ \E m \in 1..n : i = p + m
    BY <2>1, <1>8 DEF StatusRows
  <2>4. \A i \in StatusRows(d) : i \in StatusRows(e) /\ i \in DOMAIN d.suffix /\ i \in Nat /\ \A m \in 1..n : p + m > i
    BY <2>1, <1>8 DEF StatusRows
  <2>5. \A k : (\A i \in StatusRows(e) : ~Removes(e, i, k)) <=> k \notin gone /\ \A i \in StatusRows(d) : ~Removes(d, i, k)
    BY <2>1, <2>2, <2>3, <2>4, <1>2
  <2>6. ASSUME NEW k
        PROVE  (\E i \in StatusRows(e) : MakesCurrent(e, i, k) /\ \A j \in StatusRows(e) : j > i => ~Removes(e, j, k))
               <=> k \notin gone /\ \E i \in StatusRows(d) : MakesCurrent(d, i, k) /\ \A j \in StatusRows(d) : j > i => ~Removes(d, j, k)
    <3>1. ASSUME NEW i \in StatusRows(d)
          PROVE  (\A j \in StatusRows(e) : j > i => ~Removes(e, j, k)) <=> k \notin gone /\ \A j \in StatusRows(d) : j > i => ~Removes(d, j, k)
      <4>1. ASSUME \A j \in StatusRows(e) : j > i => ~Removes(e, j, k)
            PROVE  k \notin gone /\ \A j \in StatusRows(d) : j > i => ~Removes(d, j, k)
        <5>1. \A m \in 1..n : q[m] # k
          BY <4>1, <2>2, <2>4
        <5>2. \A j \in StatusRows(d) : j > i => ~Removes(d, j, k)
          BY <4>1, <2>1, <2>4
        <5> QED
          BY <5>1, <5>2, <1>2
      <4>2. ASSUME k \notin gone, \A j \in StatusRows(d) : j > i => ~Removes(d, j, k)
            PROVE  \A j \in StatusRows(e) : j > i => ~Removes(e, j, k)
        <5>1. \A m \in 1..n : ~Removes(e, p + m, k)
          BY <4>2, <2>2, <1>2
        <5> QED
          BY <4>2, <5>1, <2>1, <2>3
      <4> QED
        BY <4>1, <4>2
    <3>2. \A i \in StatusRows(e) : MakesCurrent(e, i, k) => i \in StatusRows(d) /\ MakesCurrent(d, i, k)
      BY <2>1, <2>2, <2>3
    <3>3. \A i \in StatusRows(d) : MakesCurrent(d, i, k) => i \in StatusRows(e) /\ MakesCurrent(e, i, k)
      BY <2>1, <2>4
    <3> QED
      BY <3>1, <3>2, <3>3
  <2>7. \A k : \A i \in StatusRows(d) : MakesCurrent(d, i, k) => k \in {d.status[j].card : j \in DOMAIN d.status} /\ k \in {e.status[j].card : j \in DOMAIN e.status}
    <3> TAKE k
    <3> TAKE i \in StatusRows(d)
    <3>1. d.suffix[i] \in DeltaRows /\ DeltaAuthorityHolds(d, d.suffix[i]) /\ d.suffix[i].kind = "rolling_status"
      BY <1>1 DEF DbHolds, DeltasHold, StatusRows
    <3>2. d.suffix[i].seq \in DOMAIN d.status
      BY <3>1, <1>1 DEF DeltaAuthorityHolds, DeltaRows
    <3> QED
      BY <3>2, <1>1, <1>7 DEF MakesCurrent, Continues
  <2>8. \A k : k \in CurrentAfterSuffix(e) <=> k \in CurrentAfterSuffix(d) /\ k \notin gone
    BY <2>5, <2>6, <2>7, <1>6 DEF CurrentAfterSuffix
  <2> QED
    BY <2>8
<1>11. StatusesHold(e)
  <2>1. \A i \in DOMAIN e.status : e.status[i].card \in e.pubs
    <3>1. \A i \in DOMAIN d.status : d.status[i].card \in d.pubs /\ e.status[i] = d.status[i]
      BY <1>7 DEF DbHolds, StatusesHold, Continues
    <3>2. \A m \in 1..n : t[m].card \in d.pubs /\ e.status[l + m] = t[m]
      BY <1>2, <1>5, <1>7
    <3>3. \A j \in DOMAIN e.status : j \in DOMAIN d.status \/ \E m \in 1..n : j = l + m
      BY <1>7
    <3> HIDE DEF l
    <3> QED
      BY <3>1, <3>2, <3>3, <1>6
  <2> QED
    BY <2>1, <1>7, <1>9 DEF DbHolds, StatusesHold
<1>12. (e.suffix = d.suffix /\ e.status = d.status) \/ TipIs(e, "rolling_status", Len(e.status))
  <2>1. CASE n = 0
    <3>1. t = <<>> /\ u = <<>>
      BY <2>1, <1>4
    <3> QED
      BY <3>1, <1>1, <1>6
  <2>2. CASE n # 0
    <3>1. n \in 1..n
      BY <2>2, <1>2
    <3>2. e.suffix # <<>> /\ e.suffix[Len(e.suffix)] = u[n]
      <4>1. Len(e.suffix) = p + n /\ p + n \in DOMAIN e.suffix /\ e.suffix[p + n] = u[n]
        BY <3>1, <1>8
      <4> QED
        BY <4>1, <1>8
    <3>3. u[n].kind = "rolling_status" /\ u[n].seq = Len(e.status)
      BY <3>1, <1>5, <1>7, <1>14
    <3> QED
      BY <3>2, <3>3, <1>8, TipMoves
  <2> QED
    BY <2>1, <2>2
<1>13. DbHolds(e)
  <2>1. \A i \in DOMAIN e.suffix : i \notin DOMAIN d.suffix => e.suffix[i].kind = "rolling_status" /\ e.suffix[i].seq <= Len(e.status)
    <3>1. \A m \in 1..n : u[m].kind = "rolling_status" /\ u[m].seq <= l + n
      BY <1>2, <1>5, <1>14
    <3> QED
      BY <3>1, <1>7, <1>8
  <2>2. CurrentAfterSuffix(e) = VerifiedCurrent(e)
    BY <1>9, <1>10 DEF DbHolds, NewestHolds
  <2>3. e.current \in SUBSET d.pubs
    BY <1>6 DEF DbHolds, RowsHold
  <2> QED
    BY <2>1, <2>2, <2>3, <1>6, <1>7, <1>8, <1>11, <1>12, StatusesMove
<1>15. Len(d.status) <= Len(e.status) /\ (Len(e.status) = Len(d.status) => gone = {})
  <2>1. n = 0 => \A x : x \notin gone
    BY <1>2
  <2>2. l \in Nat /\ n \in Nat /\ Len(e.status) = l + n /\ Len(d.status) = l
    BY <1>1, <1>2, <1>7 DEF l
  <2>3. Len(d.status) <= Len(e.status) /\ (Len(e.status) = Len(d.status) => n = 0)
    BY <2>2
  <2> QED
    BY <2>1, <2>3
<1> QED
  BY <1>6, <1>9, <1>13, <1>15 DEF e
\* One more delta is replayed, of a status that the database has.
LEMMA OneMoreReplays ==
  ASSUME NEW d, NEW e, DbHolds(d), e.status \in Seq(StatusEntries), Continues(d.status, e.status),
         NEW x \in DeltaRows, e.suffix = Append(d.suffix, x), x.kind = "rolling_status", x.seq <= Len(e.status),
         e.newest.current = d.newest.current
  PROVE  \A k : k \in CurrentAfterSuffix(e) <=>
           (k \in CurrentAfterSuffix(d) /\ ~Removes(e, Len(d.suffix) + 1, k)) \/ MakesCurrent(e, Len(d.suffix) + 1, k)
<1> DEFINE p == Len(d.suffix) + 1
<1>1. d.suffix \in Seq(DeltaRows) /\ d.status \in Seq(StatusEntries) /\ Len(d.suffix) \in Nat /\ p \in Nat
  BY DEF DbHolds, DeltasHold, StatusesHold
<1>2. /\ e.suffix \in Seq(DeltaRows) /\ Continues(d.suffix, e.suffix) /\ p \in DOMAIN e.suffix /\ e.suffix[p] = x
      /\ \A i \in DOMAIN e.suffix : i \in DOMAIN d.suffix \/ i = p
      /\ \A i \in DOMAIN d.suffix : i \in Nat /\ p > i
  BY <1>1
     DEF Continues
<1> HIDE DEF p
<1>3. /\ \A i \in DOMAIN d.suffix : i \in StatusRows(d) <=> i \in StatusRows(e)
      /\ \A i \in StatusRows(d) : \A k : (Removes(e, i, k) <=> Removes(d, i, k)) /\ (MakesCurrent(e, i, k) <=> MakesCurrent(d, i, k))
  BY <1>2, OldDeltasReplay
<1>4. /\ \A i \in StatusRows(e) : i \in StatusRows(d) \/ i = p
      /\ \A i \in StatusRows(d) : i \in StatusRows(e) /\ i \in Nat /\ p > i
      /\ p \in StatusRows(e)
  BY <1>2, <1>3 DEF StatusRows
<1>5. \A k : (\A i \in StatusRows(e) : ~Removes(e, i, k)) <=> ~Removes(e, p, k) /\ \A i \in StatusRows(d) : ~Removes(d, i, k)
  BY <1>3, <1>4
<1>6. ASSUME NEW k
      PROVE  (\E i \in StatusRows(e) : MakesCurrent(e, i, k) /\ \A j \in StatusRows(e) : j > i => ~Removes(e, j, k))
             <=> \/ MakesCurrent(e, p, k)
                 \/ /\ ~Removes(e, p, k)
                    /\ \E i \in StatusRows(d) : MakesCurrent(d, i, k) /\ \A j \in StatusRows(d) : j > i => ~Removes(d, j, k)
  <2>1. ASSUME NEW i \in StatusRows(d)
        PROVE  (\A j \in StatusRows(e) : j > i => ~Removes(e, j, k)) <=> ~Removes(e, p, k) /\ \A j \in StatusRows(d) : j > i => ~Removes(d, j, k)
    BY <1>3, <1>4
  <2>2. \A j \in StatusRows(e) : ~(j > p)
    BY <1>1, <1>4
  <2>3. ASSUME NEW i \in StatusRows(e), MakesCurrent(e, i, k), \A j \in StatusRows(e) : j > i => ~Removes(e, j, k)
        PROVE  \/ MakesCurrent(e, p, k)
               \/ ~Removes(e, p, k) /\ \E h \in StatusRows(d) : MakesCurrent(d, h, k) /\ \A j \in StatusRows(d) : j > h => ~Removes(d, j, k)
    <3>1. CASE i = p
      BY <3>1, <2>3
    <3>2. CASE i \in StatusRows(d)
      BY <3>2, <2>1, <2>3, <1>3
    <3> QED
      BY <3>1, <3>2, <1>4
  <2>4. ASSUME MakesCurrent(e, p, k)
        PROVE  \E i \in StatusRows(e) : MakesCurrent(e, i, k) /\ \A j \in StatusRows(e) : j > i => ~Removes(e, j, k)
    BY <2>2, <2>4, <1>4
  <2>5. ASSUME ~Removes(e, p, k), NEW i \in StatusRows(d), MakesCurrent(d, i, k), \A j \in StatusRows(d) : j > i => ~Removes(d, j, k)
        PROVE  \E h \in StatusRows(e) : MakesCurrent(e, h, k) /\ \A j \in StatusRows(e) : j > h => ~Removes(e, j, k)
    <3>1. MakesCurrent(e, i, k) /\ i \in StatusRows(e) /\ \A j \in StatusRows(e) : j > i => ~Removes(e, j, k)
      BY <2>1, <2>5, <1>3, <1>4
    <3> QED
      BY <3>1
  <2> QED
    BY <2>3, <2>4, <2>5
<1>7. \A k : /\ \A i \in StatusRows(d) : MakesCurrent(d, i, k) => k \in {d.status[j].card : j \in DOMAIN d.status} /\ k \in {e.status[j].card : j \in DOMAIN e.status}
             /\ MakesCurrent(e, p, k) => k \in {e.status[j].card : j \in DOMAIN e.status}
  <2> TAKE k
  <2>1. ASSUME NEW i \in StatusRows(d), MakesCurrent(d, i, k)
        PROVE  k \in {d.status[j].card : j \in DOMAIN d.status} /\ k \in {e.status[j].card : j \in DOMAIN e.status}
    <3>1. d.suffix[i] \in DeltaRows /\ DeltaAuthorityHolds(d, d.suffix[i]) /\ d.suffix[i].kind = "rolling_status"
      BY <1>1 DEF DbHolds, DeltasHold, StatusRows
    <3>2. d.suffix[i].seq \in DOMAIN d.status
      BY <3>1, <1>1 DEF DeltaAuthorityHolds, DeltaRows
    <3> QED
      BY <3>2, <2>1, <1>1 DEF MakesCurrent, Continues
  <2>2. x.seq \in DOMAIN e.status
    BY DEF DeltaRows
  <2> QED
    BY <2>1, <2>2, <1>2 DEF MakesCurrent
<1> QED
  BY <1>5, <1>6, <1>7 DEF CurrentAfterSuffix, p
\* A card enters the publications before it has a status.
LEMMA CardIsAdded ==
  ASSUME NEW d, DbHolds(d), NEW k \in DOMAIN d.jobs
  PROVE  LET e == [d EXCEPT !.pubs = d.pubs \cup {k}] IN
         /\ DbHolds(e) /\ VerifiedCurrent(e) = VerifiedCurrent(d) /\ e.pubs = d.pubs \cup {k}
         /\ e.log = d.log /\ e.jobs = d.jobs /\ e.hist = d.hist /\ e.status = d.status /\ e.cursor = d.cursor
         /\ e.closed = d.closed /\ e.done = d.done /\ e.points = d.points /\ e.newest = d.newest
         /\ e.suffix = d.suffix /\ e.current = d.current
<1> DEFINE e == [d EXCEPT !.pubs = d.pubs \cup {k}]
<1>1. RdbFields(d)
  BY DEF DbHolds
<1>2. /\ e.log = d.log /\ e.jobs = d.jobs /\ e.hist = d.hist /\ e.status = d.status /\ e.cursor = d.cursor
      /\ e.closed = d.closed /\ e.done = d.done /\ e.points = d.points /\ e.newest = d.newest
      /\ e.suffix = d.suffix /\ e.current = d.current /\ e.pubs = d.pubs \cup {k} /\ RdbFields(e)
  BY <1>1 DEF RdbFields
<1> HIDE DEF e
<1>3. VerifiedCurrent(e) = VerifiedCurrent(d)
  <2>1. \A i \in DOMAIN d.status : d.status[i].card \in d.pubs
    BY DEF DbHolds, StatusesHold
  <2> QED
    BY <2>1, <1>2 DEF VerifiedCurrent
<1>4. CurrentAfterSuffix(e) = CurrentAfterSuffix(d)
  BY <1>2 DEF CurrentAfterSuffix, StatusRows, Removes, MakesCurrent
<1>5. ActiveCards(e) = ActiveCards(d) /\ PendingPlans(e) = PendingPlans(d) /\ Completed(e) = Completed(d)
  BY <1>2 DEF ActiveCards, PendingPlans, Obligations, Completed
<1>6. IsFiniteSet(e.pubs)
  <2>1. IsFiniteSet(d.pubs)
    BY DEF DbHolds, RowsHold
  <2>2. IsFiniteSet(d.pubs \cup {k})
    BY <2>1, FS_AddElement
  <2> QED
    BY <2>2, <1>2
<1>7. LogHolds(e) /\ RowsHold(e)
  BY <1>2, <1>6 DEF DbHolds, LogHolds, RowsHold
<1>8. StatusesHold(e)
  BY <1>2, <1>3 DEF DbHolds, StatusesHold
<1>9. DeltasHold(e)
  BY <1>2 DEF DbHolds, DeltasHold, DeltaAuthorityHolds
<1>10. NewestHolds(e)
  BY <1>2, <1>3, <1>4, <1>5 DEF DbHolds, NewestHolds, NoneNamed, TipIs
<1> QED
  BY <1>2, <1>3, <1>7, <1>8, <1>9, <1>10 DEF DbHolds, e

\* A card becomes the current one of a subject that has no other.
LEMMA CardBecomesCurrent ==
  ASSUME NEW d, DbHolds(d), NEW k \in d.pubs, \A o \in VerifiedCurrent(d) : SubjectOf(o) = SubjectOf(k) => o = k
  PROVE  LET e == AppendStatus([d EXCEPT !.current = d.current \cup {k}], k, TRUE) IN
         /\ DbHolds(e) /\ VerifiedCurrent(e) = VerifiedCurrent(d) \cup {k} /\ e.current = d.current \cup {k}
         /\ e.log = d.log /\ e.jobs = d.jobs /\ e.hist = d.hist /\ e.pubs = d.pubs /\ e.cursor = d.cursor
         /\ e.closed = d.closed /\ e.done = d.done /\ e.points = d.points /\ e.newest = d.newest /\ Len(e.status) = Len(d.status) + 1
<1> DEFINE l == Len(d.status) + 1
           r == [card |-> k, current |-> TRUE]
           x == [kind |-> "rolling_status", seq |-> l]
           p == Len(d.suffix) + 1
           e == AppendStatus([d EXCEPT !.current = d.current \cup {k}], k, TRUE)
<1>1. d.suffix \in Seq(DeltaRows) /\ d.status \in Seq(StatusEntries) /\ RdbFields(d) /\ Len(d.status) \in Nat
      /\ Len(d.suffix) \in Nat /\ d.pubs \in SUBSET Cards
  BY DEF DbHolds, DeltasHold, StatusesHold, RowsHold
<1>2. e = [d EXCEPT !.current = d.current \cup {k}, !.status = Append(d.status, r), !.suffix = Append(d.suffix, x)]
  BY <1>1 DEF AppendStatus, AppendDelta, RdbFields
<1>3. x \in DeltaRows /\ r \in StatusEntries /\ x.kind = "rolling_status" /\ x.seq = l /\ r.card = k /\ r.current = TRUE
  BY <1>1 DEF DeltaRows, DeltaKinds, StatusEntries
<1> HIDE DEF e, r, x
<1>4. /\ e.log = d.log /\ e.jobs = d.jobs /\ e.hist = d.hist /\ e.pubs = d.pubs /\ e.cursor = d.cursor
      /\ e.closed = d.closed /\ e.done = d.done /\ e.points = d.points /\ e.newest = d.newest
      /\ e.current = d.current \cup {k} /\ e.status = Append(d.status, r) /\ e.suffix = Append(d.suffix, x) /\ RdbFields(e)
  BY <1>1, <1>2 DEF RdbFields
<1>5. /\ e.status \in Seq(StatusEntries) /\ Continues(d.status, e.status) /\ Len(e.status) = l /\ l \in DOMAIN e.status
      /\ e.status[l] = r
      /\ \A i \in DOMAIN e.status : i \in DOMAIN d.status \/ i = l
      /\ \A i \in DOMAIN d.status : i \in Nat /\ l > i /\ i \in DOMAIN e.status /\ e.status[i] = d.status[i]
  BY <1>1, <1>3, <1>4 DEF Continues
<1>6. /\ e.suffix \in Seq(DeltaRows) /\ Continues(d.suffix, e.suffix) /\ Len(e.suffix) = p /\ p \in DOMAIN e.suffix
      /\ e.suffix[p] = x /\ \A i \in DOMAIN e.suffix : i \in DOMAIN d.suffix \/ i = p
  BY <1>1, <1>3, <1>4 DEF Continues
<1>7. l \in Nat
  BY <1>1
<1> HIDE DEF l, p
<1>8. \A o : o \in VerifiedCurrent(e) <=> o \in VerifiedCurrent(d) \/ o = k
  <2>1. k \in VerifiedCurrent(e)
    <3>1. \A j \in DOMAIN e.status : ~(j > l)
      BY <1>5, <1>7
    <3> QED
      BY <3>1, <1>3, <1>4, <1>5 DEF VerifiedCurrent
  <2>2. ASSUME NEW o \in VerifiedCurrent(e), o # k PROVE o \in VerifiedCurrent(d)
    <3>1. PICK i \in DOMAIN e.status : e.status[i].card = o /\ e.status[i].current /\ \A j \in DOMAIN e.status : j > i => e.status[j].card # o
      BY <2>2 DEF VerifiedCurrent
    <3>2. i \in DOMAIN d.status
      BY <3>1, <2>2, <1>3, <1>5
    <3>3. o \in d.pubs
      BY <2>2, <1>4 DEF VerifiedCurrent
    <3> QED
      BY <3>1, <3>2, <3>3, <1>5 DEF VerifiedCurrent
  <2>3. ASSUME NEW o \in VerifiedCurrent(d), o # k PROVE o \in VerifiedCurrent(e)
    <3>1. PICK i \in DOMAIN d.status : d.status[i].card = o /\ d.status[i].current /\ \A j \in DOMAIN d.status : j > i => d.status[j].card # o
      BY <2>3 DEF VerifiedCurrent
    <3>2. \A j \in DOMAIN e.status : j > i => e.status[j].card # o
      BY <3>1, <2>3, <1>3, <1>5
    <3>3. o \in e.pubs
      BY <2>3, <1>4 DEF VerifiedCurrent
    <3> QED
      BY <3>1, <3>2, <3>3, <1>5 DEF VerifiedCurrent
  <2> QED
    BY <2>1, <2>2, <2>3
<1>9. \A o : o \in CurrentAfterSuffix(e) <=> o \in CurrentAfterSuffix(d) \/ o = k
  <2>1. \A o : o \in CurrentAfterSuffix(e) <=> (o \in CurrentAfterSuffix(d) /\ ~Removes(e, p, o)) \/ MakesCurrent(e, p, o)
    <3>1. e.newest.current = d.newest.current /\ x.seq <= Len(e.status)
      BY <1>3, <1>4, <1>5, <1>7
    <3> QED
      BY <3>1, <1>3, <1>4, <1>5, OneMoreReplays DEF p
  <2>2. e.status[e.suffix[p].seq] = r
    BY <1>3, <1>5, <1>6
  <2>3. \A o : (MakesCurrent(e, p, o) <=> o = k) /\ (Removes(e, p, o) <=> o # k /\ SubjectOf(k) = SubjectOf(o))
    BY <2>2, <1>3 DEF MakesCurrent, Removes
  <2>4. CurrentAfterSuffix(d) = VerifiedCurrent(d)
    BY DEF DbHolds, NewestHolds
  <2> QED
    BY <2>1, <2>3, <2>4
<1>10. StatusesHold(e)
  <2>1. \A i \in DOMAIN e.status : e.status[i].card \in e.pubs
    <3>1. \A i \in DOMAIN d.status : d.status[i].card \in d.pubs
      BY DEF DbHolds, StatusesHold
    <3> QED
      BY <3>1, <1>3, <1>4, <1>5
  <2>2. \A a, b \in VerifiedCurrent(e) : SubjectOf(a) = SubjectOf(b) => a = b
    BY <1>8 DEF DbHolds, StatusesHold
  <2> QED
    BY <2>1, <2>2, <1>5 DEF StatusesHold
<1>11. DbHolds(e)
  <2>1. \A i \in DOMAIN e.suffix : i \notin DOMAIN d.suffix => e.suffix[i].kind = "rolling_status" /\ e.suffix[i].seq <= Len(e.status)
    BY <1>3, <1>5, <1>6, <1>7
  <2>2. TipIs(e, "rolling_status", Len(e.status))
    <3>1. e.suffix # <<>> /\ e.suffix[Len(e.suffix)] = x
      BY <1>6
    <3> QED
      BY <3>1, <1>3, <1>5, <1>6, TipMoves
  <2>3. CurrentAfterSuffix(e) = VerifiedCurrent(e)
    <3>1. CurrentAfterSuffix(d) = VerifiedCurrent(d)
      BY DEF DbHolds, NewestHolds
    <3> QED
      BY <3>1, <1>8, <1>9
  <2>4. e.current \in SUBSET d.pubs
    BY <1>4 DEF DbHolds, RowsHold
  <2> QED
    BY <2>1, <2>2, <2>3, <2>4, <1>4, <1>5, <1>6, <1>10, StatusesMove
<1>12. VerifiedCurrent(e) = VerifiedCurrent(d) \cup {k}
  BY <1>8
<1>13. Len(e.status) = Len(d.status) + 1
  BY <1>5 DEF l
<1> QED
  BY <1>4, <1>11, <1>12, <1>13 DEF e
\* The current rows are rebuilt from the statuses, and the last status is named again.
LEMMA CurrentIsRebuilt ==
  ASSUME NEW d, DbHolds(d)
  PROVE  LET c == [d EXCEPT !.current = VerifiedCurrent(d)]
             e == IF d.status = <<>> THEN c ELSE AppendDelta(c, "rolling_status", Len(d.status)) IN
         /\ DbHolds(e) /\ VerifiedCurrent(e) = VerifiedCurrent(d) /\ e.current = VerifiedCurrent(d)
         /\ e.log = d.log /\ e.jobs = d.jobs /\ e.hist = d.hist /\ e.pubs = d.pubs /\ e.status = d.status
         /\ e.closed = d.closed /\ e.done = d.done /\ e.points = d.points /\ e.newest = d.newest
<1> DEFINE V == VerifiedCurrent(d)
           c == [d EXCEPT !.current = V]
           l == Len(d.status)
           x == [kind |-> "rolling_status", seq |-> l]
           p == Len(d.suffix) + 1
           e == IF d.status = <<>> THEN c ELSE AppendDelta(c, "rolling_status", Len(d.status))
<1>1. d.suffix \in Seq(DeltaRows) /\ d.status \in Seq(StatusEntries) /\ RdbFields(d) /\ l \in Nat /\ Len(d.suffix) \in Nat
      /\ V \in SUBSET d.pubs
  BY VerifiedIsPublished DEF DbHolds, DeltasHold, StatusesHold
<1>2. CASE d.status = <<>>
  <2>1. e = c
    BY <1>2
  <2> HIDE DEF V, e
  <2>2. /\ c.log = d.log /\ c.jobs = d.jobs /\ c.hist = d.hist /\ c.pubs = d.pubs /\ c.status = d.status
        /\ c.closed = d.closed /\ c.done = d.done /\ c.points = d.points /\ c.newest = d.newest
        /\ c.suffix = d.suffix /\ c.current = V /\ RdbFields(c)
    BY <1>1 DEF RdbFields
  <2>3. DbHolds(c) /\ VerifiedCurrent(c) = VerifiedCurrent(d)
    <3> HIDE DEF c
    <3> QED
      BY <2>2, <1>1, SameRowsHold
  <2> QED
    BY <2>1, <2>2, <2>3 DEF V, e
<1>3. CASE d.status # <<>>
  <2>1. e = [d EXCEPT !.current = V, !.suffix = Append(d.suffix, x)]
    BY <1>1, <1>3 DEF AppendDelta, RdbFields
  <2>2. l \in DOMAIN d.status /\ \A j \in DOMAIN d.status : ~(j > l)
    BY <1>1, <1>3
  <2>3. x \in DeltaRows /\ x.kind = "rolling_status" /\ x.seq = l
    BY <2>2, <1>1 DEF DeltaRows, DeltaKinds
  <2> HIDE DEF V, e, x
  <2>4. /\ e.log = d.log /\ e.jobs = d.jobs /\ e.hist = d.hist /\ e.pubs = d.pubs /\ e.status = d.status
        /\ e.closed = d.closed /\ e.done = d.done /\ e.points = d.points /\ e.newest = d.newest
        /\ e.suffix = Append(d.suffix, x) /\ e.current = V /\ RdbFields(e)
    BY <2>1, <1>1 DEF RdbFields
  <2>5. VerifiedCurrent(e) = V
    BY <2>4 DEF VerifiedCurrent, V
  <2>6. /\ e.suffix \in Seq(DeltaRows) /\ Continues(d.suffix, e.suffix) /\ Len(e.suffix) = p /\ p \in DOMAIN e.suffix
        /\ e.suffix[p] = x /\ \A i \in DOMAIN e.suffix : i \in DOMAIN d.suffix \/ i = p
    BY <1>1, <2>3, <2>4 DEF Continues
  <2>7. Continues(d.status, e.status) /\ StatusesHold(e)
    BY <1>1, <2>4, <2>5 DEF Continues, DbHolds, StatusesHold, V
  <2> HIDE DEF l, p
  <2> DEFINE r == d.status[l]
  <2>8. /\ r.card \in d.pubs
        /\ r.current => r.card \in V
        /\ ~r.current => r.card \notin V
    <3>1. r.card \in d.pubs
      BY <2>2 DEF DbHolds, StatusesHold
    <3>2. r.current => r.card \in V
      BY <3>1, <2>2 DEF V, VerifiedCurrent
    <3>3. ASSUME ~r.current, r.card \in V PROVE FALSE
      <4>1. PICK i \in DOMAIN d.status : d.status[i].card = r.card /\ d.status[i].current /\ \A j \in DOMAIN d.status : j > i => d.status[j].card # r.card
        BY <3>3 DEF V, VerifiedCurrent
      <4>2. i = l \/ l > i
        BY <2>2, <1>1
      <4> QED
        BY <4>1, <4>2, <3>3, <2>2
    <3> QED
      BY <3>1, <3>2, <3>3
  <2>9. CurrentAfterSuffix(e) = V
    <3>1. \A o : o \in CurrentAfterSuffix(e) <=> (o \in CurrentAfterSuffix(d) /\ ~Removes(e, p, o)) \/ MakesCurrent(e, p, o)
      <4>1. e.newest.current = d.newest.current /\ x.seq <= Len(e.status) /\ e.status \in Seq(StatusEntries)
        BY <1>1, <2>3, <2>4 DEF l
      <4> QED
        BY <4>1, <2>3, <2>4, <2>7, OneMoreReplays DEF p
    <3>2. e.status[e.suffix[p].seq] = r
      BY <2>3, <2>4, <2>6
    <3>3. \A o : (MakesCurrent(e, p, o) <=> r.card = o /\ r.current)
                 /\ (Removes(e, p, o) <=> IF r.current THEN r.card # o /\ SubjectOf(r.card) = SubjectOf(o) ELSE r.card = o)
      BY <3>2 DEF MakesCurrent, Removes
    <3>4. CurrentAfterSuffix(d) = V /\ \A a, b \in V : SubjectOf(a) = SubjectOf(b) => a = b
      BY DEF DbHolds, NewestHolds, StatusesHold, V
    <3> HIDE DEF r
    <3>5. \A o : o \in CurrentAfterSuffix(e) <=> o \in V
      BY <3>1, <3>3, <3>4, <2>8
    <3> QED
      BY <3>5
  <2>10. DbHolds(e)
    <3>1. \A i \in DOMAIN e.suffix : i \notin DOMAIN d.suffix => e.suffix[i].kind = "rolling_status" /\ e.suffix[i].seq <= Len(e.status)
      BY <1>1, <2>3, <2>4, <2>6 DEF l
    <3>2. TipIs(e, "rolling_status", Len(e.status))
      <4>1. e.suffix # <<>> /\ e.suffix[Len(e.suffix)] = x
        BY <2>6
      <4> QED
        BY <4>1, <2>3, <2>4, <2>6, TipMoves DEF l
    <3>3. CurrentAfterSuffix(e) = VerifiedCurrent(e)
      BY <2>5, <2>9
    <3>4. e.current \in SUBSET d.pubs
      BY <1>1, <2>4
    <3> QED
      BY <3>1, <3>2, <3>3, <3>4, <2>4, <2>6, <2>7, StatusesMove
  <2> QED
    BY <2>4, <2>5, <2>10 DEF e, V
<1> QED
  BY <1>2, <1>3
LEMMA HeadsStay ==
  ASSUME NEW log, NEW longer, log \in Seq(Commands), longer \in Seq(Commands), Continues(log, longer),
         NEW n \in Nat, n <= Len(log), NEW heads, HeadsAt(log, n, heads)
  PROVE  HeadsAt(longer, n, heads)
<1>1. \A i \in 1..n : longer[i] = log[i]
  <2>1. \A i \in 1..n : i \in DOMAIN log
    OBVIOUS
  <2> QED
    BY <2>1 DEF Continues
<1>2. {longer[i].who : i \in 1..n} = {log[i].who : i \in 1..n}
  BY <1>1
<1>3. \A w : {i \in 1..n : longer[i].who = w} = {i \in 1..n : log[i].who = w}
  BY <1>1
<1> QED
  BY <1>2, <1>3 DEF HeadsAt

\* A command commits, with its obligation and the cursor.
LEMMA CommandCommits ==
  ASSUME NEW d, DbHolds(d), Len(d.log) < MaxSources, MaxSources \in Nat, NEW x \in Commands,
         x.kind = "close" => \A n \in DOMAIN d.log : ~(d.log[n].kind = "close" /\ d.log[n].who = x.who)
  PROVE  LET g == [d EXCEPT !.log = Append(d.log, x)]
             e == [g EXCEPT !.cursor = CursorOf(g)] IN
         /\ DbHolds(e) /\ VerifiedCurrent(e) = VerifiedCurrent(d) /\ e.log = Append(d.log, x) /\ Continues(d.log, e.log)
         /\ e.jobs = d.jobs /\ e.hist = d.hist /\ e.pubs = d.pubs /\ e.status = d.status /\ e.current = d.current
         /\ e.closed = d.closed /\ e.done = d.done /\ e.points = d.points /\ e.newest = d.newest /\ e.suffix = d.suffix
<1> DEFINE g == [d EXCEPT !.log = Append(d.log, x)]
           e == [g EXCEPT !.cursor = CursorOf(g)]
           l == Len(d.log) + 1
<1>1. d.log \in Seq(Commands) /\ RdbFields(d) /\ Len(d.log) \in Nat /\ d.suffix \in Seq(DeltaRows) /\ d.hist \in Nat
      /\ d.status \in Seq(StatusEntries)
  BY DEF DbHolds, LogHolds, DeltasHold, RowsHold, StatusesHold
<1>2. e = [d EXCEPT !.log = Append(d.log, x), !.cursor = CursorOf(g)]
  BY <1>1 DEF RdbFields
<1> HIDE DEF e, g
<1>3. /\ e.log = Append(d.log, x) /\ e.jobs = d.jobs /\ e.hist = d.hist /\ e.pubs = d.pubs /\ e.status = d.status
      /\ e.closed = d.closed /\ e.done = d.done /\ e.points = d.points /\ e.newest = d.newest /\ e.current = d.current
      /\ e.suffix = d.suffix /\ RdbFields(e)
  BY <1>1, <1>2 DEF RdbFields
<1>4. /\ e.log \in Seq(Commands) /\ Continues(d.log, e.log) /\ Len(e.log) = l /\ l \in DOMAIN e.log /\ e.log[l] = x
      /\ \A i \in DOMAIN e.log : i \in DOMAIN d.log \/ i = l
      /\ \A i \in DOMAIN d.log : i \in Nat /\ l > i /\ i \in DOMAIN e.log /\ e.log[i] = d.log[i]
  BY <1>1, <1>3 DEF Continues
<1>5. l \in Nat /\ l <= MaxSources
  BY <1>1
<1> HIDE DEF l
<1>6. LogHolds(e)
  <2>1. \A m, n \in DOMAIN e.log : e.log[m].kind = "close" /\ e.log[n].kind = "close" /\ e.log[m].who = e.log[n].who => m = n
    BY <1>4 DEF DbHolds, LogHolds
  <2> QED
    BY <2>1, <1>4, <1>5 DEF LogHolds
<1>7. VerifiedCurrent(e) = VerifiedCurrent(d)
  BY <1>3 DEF VerifiedCurrent
<1>8. RowsHold(e) /\ StatusesHold(e)
  BY <1>3, <1>7 DEF DbHolds, RowsHold, StatusesHold
<1>9. DeltasHold(e)
  <2>1. Len(d.log) <= Len(e.log) /\ Len(d.status) <= Len(e.status) /\ e.hist \in Nat /\ d.hist <= e.hist
    BY <1>1, <1>3, <1>4 DEF Continues
  <2>2. Completed(d) \subseteq Completed(e)
    BY <1>3 DEF Completed
  <2>3. Continues(d.suffix, e.suffix)
    BY <1>1, <1>3 DEF Continues
  <2> QED
    BY <2>1, <2>2, <2>3, <1>1, <1>3, <1>4, DeltasKept
<1>10. NewestHolds(e)
  <2> DEFINE n == d.newest.source
  <2>1. LogPart(d) /\ n \in Nat /\ n <= Len(d.log)
    BY DEF DbHolds, NewestHolds, LogPart
  <2>2. HeadsAt(e.log, n, d.newest.heads)
    BY <2>1, <1>1, <1>4, HeadsStay DEF LogPart
  <2>3. Completed(e) = Completed(d) /\ ActiveCards(e) = ActiveCards(d)
    BY <1>3 DEF Completed, ActiveCards
  <2>4. \A m : m \in DOMAIN e.log /\ m <= n <=> m \in DOMAIN d.log /\ m <= n
    BY <2>1, <1>1, <1>4
  <2>5. \A m : m \in PendingPlans(e) /\ m <= n <=> m \in PendingPlans(d) /\ m <= n
    BY <2>3, <2>4, <1>4 DEF PendingPlans, Obligations, RelevantCommand, Completed
  <2>6. n <= Len(e.log)
    BY <2>1, <1>1, <1>4 DEF Continues
  <2>7. {m \in PendingPlans(e) : m <= n} = {m \in PendingPlans(d) : m <= n}
    BY <2>5
  <2>8. LogPart(e)
    BY <2>1, <2>2, <2>3, <2>6, <2>7, <1>3 DEF LogPart, NoneNamed
  <2>9. CurrentAfterSuffix(e) = CurrentAfterSuffix(d)
    BY <1>3 DEF CurrentAfterSuffix, StatusRows, Removes, MakesCurrent
  <2> QED
    BY <2>3, <2>8, <2>9, <1>3, <1>7 DEF DbHolds, NewestHolds, LogPart, NoneNamed, TipIs
<1> QED
  BY <1>3, <1>4, <1>6, <1>7, <1>8, <1>9, <1>10 DEF DbHolds, e, g

\* Epochs are closed, each with the delta that names its command.
LEMMA ClosuresMove ==
  ASSUME NEW d, NEW e, DbHolds(d), RdbFields(e), e.log = d.log, e.jobs = d.jobs, e.hist = d.hist, e.pubs = d.pubs,
         e.status = d.status, e.done = d.done, e.points = d.points, e.newest = d.newest, e.current = d.current,
         e.closed \in [CardEpochs -> Nat], \A ep \in CardEpochs : d.closed[ep] # 0 => e.closed[ep] = d.closed[ep],
         e.suffix \in Seq(DeltaRows), Continues(d.suffix, e.suffix),
         \A i \in DOMAIN e.suffix : i \notin DOMAIN d.suffix =>
           e.suffix[i].kind = "epoch_closure" /\ \E ep \in CardEpochs : e.closed[ep] = e.suffix[i].seq
  PROVE  DbHolds(e) /\ VerifiedCurrent(e) = VerifiedCurrent(d)
<1>1. d.suffix \in Seq(DeltaRows)
  BY DEF DbHolds, DeltasHold
<1>2. LogHolds(e) /\ RowsHold(e)
  BY DEF DbHolds, LogHolds, RowsHold
<1>3. LogPart(e)
  <2>1. LogPart(d)
    BY DEF DbHolds, NewestHolds, LogPart
  <2> QED
    BY <2>1, <1>1, NamedStays, LogPartKept
<1>4. NewestHolds(e) /\ VerifiedCurrent(e) = VerifiedCurrent(d)
  <2>1. /\ NoneNamed(d, "job_history") => NoneNamed(e, "job_history")
        /\ TipIs(d, "job_history", d.hist) => TipIs(e, "job_history", d.hist)
    BY <1>1, TipKept
  <2>2. ActiveCards(e) = ActiveCards(d)
    BY DEF ActiveCards
  <2>3. \/ NoneNamed(e, "job_history") /\ e.hist = e.newest.hist /\ ActiveCards(e) = e.newest.active
        \/ TipIs(e, "job_history", e.hist)
    BY <2>1, <2>2 DEF DbHolds, NewestHolds
  <2>4. \A i \in DOMAIN e.suffix : i \notin DOMAIN d.suffix => e.suffix[i].kind # "rolling_status"
    OBVIOUS
  <2> QED
    BY <2>3, <2>4, <1>3, NewestKept
<1>5. StatusesHold(e)
  BY <1>4 DEF DbHolds, StatusesHold
<1>6. DeltasHold(e)
  <2>1. \A i \in DOMAIN e.suffix : i \notin DOMAIN d.suffix => DeltaAuthorityHolds(e, e.suffix[i])
    BY DEF DeltaAuthorityHolds
  <2>2. Completed(d) \subseteq Completed(e)
    BY DEF Completed
  <2>3. Len(d.log) <= Len(e.log) /\ Len(d.status) <= Len(e.status) /\ d.hist <= e.hist /\ e.hist \in Nat
    BY <1>2, <1>5 DEF LogHolds, RowsHold, StatusesHold
  <2> QED
    BY <2>1, <2>2, <2>3, <1>2, <1>5, DeltasKept DEF LogHolds, StatusesHold
<1> QED
  BY <1>2, <1>4, <1>5, <1>6 DEF DbHolds
\* In a finite set of numbers every rank is taken.
LEMMA EveryRankIsTaken ==
  ASSUME NEW S, S \in SUBSET Nat, IsFiniteSet(S), NEW i \in 1..Cardinality(S)
  PROVE  \E n \in S : Cardinality({o \in S : o < n}) = i - 1
<1> DEFINE m == Cardinality(S)
           B(n) == {o \in S : o < n}
           f == [n \in S |-> Cardinality(B(n)) + 1]
<1>1. m \in Nat
  BY FS_CardinalityType
<1>2. \A n \in S : IsFiniteSet(B(n)) /\ Cardinality(B(n)) \in Nat /\ Cardinality(B(n)) < m
  <2> TAKE n \in S
  <2>1. B(n) \in SUBSET S /\ n \notin B(n)
    OBVIOUS
  <2> HIDE DEF B
  <2>2. IsFiniteSet(B(n)) /\ Cardinality(B(n)) <= Cardinality(S) /\ (Cardinality(S) = Cardinality(B(n)) => S = B(n))
    BY <2>1, FS_Subset
  <2>3. Cardinality(B(n)) \in Nat
    BY <2>2, FS_CardinalityType
  <2> QED
    BY <2>1, <2>2, <2>3, <1>1
<1>3. \A n, o \in S : n < o => Cardinality(B(n)) < Cardinality(B(o))
  <2> TAKE n, o \in S
  <2> HAVE n < o
  <2>1. B(n) \in SUBSET B(o) /\ n \in B(o) /\ n \notin B(n)
    <3>1. n \in Nat /\ o \in Nat /\ \A x \in S : x \in Nat
      OBVIOUS
    <3>2. \A x \in S : x < n => x < o
      BY <3>1
    <3>3. ~(n < n)
      BY <3>1
    <3> QED
      BY <3>2, <3>3
  <2> HIDE DEF B
  <2>2. Cardinality(B(n)) <= Cardinality(B(o)) /\ (Cardinality(B(o)) = Cardinality(B(n)) => B(o) = B(n))
    BY <2>1, <1>2, FS_Subset
  <2> QED
    BY <2>1, <2>2, <1>2
<1> HIDE DEF B, m
<1>4. f \in [S -> 1..m]
  <2>1. \A n \in S : Cardinality(B(n)) + 1 \in 1..m
    BY <1>1, <1>2
  <2> QED
    BY <2>1
<1>5. \A n, o \in S : f[n] = f[o] => n = o
  <2>1. \A n, o \in S : n = o \/ n < o \/ o < n
    OBVIOUS
  <2> QED
    BY <2>1, <1>2, <1>3
<1>6. f \in Injection(S, 1..m)
  <2> HIDE DEF f
  <2>1. DOMAIN f = S
    BY <1>4
  <2> QED
    BY <2>1, <1>4, <1>5 DEF Injection, IsInjective
<1>7. IsFiniteSet(1..m) /\ Cardinality(1..m) = m
  <2>1. \A n \in Nat : IsFiniteSet(1..n) /\ Cardinality(1..n) = n
    <3> TAKE n \in Nat
    <3>1. IsFiniteSet(1..n) /\ Cardinality(1..n) = IF 1 > n THEN 0 ELSE n - 1 + 1
      BY FS_Interval
    <3> QED
      BY <3>1
  <2> QED
    BY <1>1, <2>1
<1>8. f \in Surjection(S, 1..m)
  <2> HIDE DEF f
  <2>1. Cardinality(S) = Cardinality(1..m)
    BY <1>7 DEF m
  <2> QED
    BY <1>6, <1>7, <2>1, FS_Injection
<1>9. PICK n \in S : f[n] = i
  <2> HIDE DEF f
  <2>1. i \in 1..m
    BY DEF m
  <2> QED
    BY <1>8, <2>1 DEF Surjection
<1>10. Cardinality(B(n)) + 1 = i /\ Cardinality(B(n)) \in Nat
  BY <1>2, <1>9
<1>11. Cardinality(B(n)) = i - 1
  BY <1>10
<1> QED
  BY <1>11 DEF B

\* The coordinator closes one epoch.
LEMMA EpochCloses ==
  ASSUME NEW d, DbHolds(d), NEW ep \in CardEpochs, d.closed[ep] = 0, NEW n \in Nat \ {0}
  PROVE  LET e == AppendDelta([d EXCEPT !.closed[ep] = n], "epoch_closure", n) IN
         /\ DbHolds(e) /\ VerifiedCurrent(e) = VerifiedCurrent(d) /\ e.closed = [d.closed EXCEPT ![ep] = n]
         /\ e.log = d.log /\ e.jobs = d.jobs /\ e.hist = d.hist /\ e.pubs = d.pubs /\ e.status = d.status
         /\ e.done = d.done /\ e.points = d.points /\ e.newest = d.newest /\ e.current = d.current
<1> DEFINE x == [kind |-> "epoch_closure", seq |-> n]
           e == AppendDelta([d EXCEPT !.closed[ep] = n], "epoch_closure", n)
<1>1. d.suffix \in Seq(DeltaRows) /\ RdbFields(d) /\ d.closed \in [CardEpochs -> Nat]
  BY DEF DbHolds, DeltasHold, RowsHold
<1>2. e = [d EXCEPT !.closed = [d.closed EXCEPT ![ep] = n], !.suffix = Append(d.suffix, x)]
  BY <1>1 DEF AppendDelta, RdbFields
<1>3. x \in DeltaRows /\ x.kind = "epoch_closure" /\ x.seq = n
  BY DEF DeltaRows, DeltaKinds
<1> HIDE DEF e, x
<1>4. /\ e.log = d.log /\ e.jobs = d.jobs /\ e.hist = d.hist /\ e.pubs = d.pubs /\ e.status = d.status
      /\ e.done = d.done /\ e.points = d.points /\ e.newest = d.newest /\ e.current = d.current
      /\ e.closed = [d.closed EXCEPT ![ep] = n] /\ e.suffix = Append(d.suffix, x) /\ RdbFields(e)
  BY <1>1, <1>2 DEF RdbFields
<1>5. e.suffix \in Seq(DeltaRows) /\ Continues(d.suffix, e.suffix)
      /\ \A i \in DOMAIN e.suffix : i \notin DOMAIN d.suffix => e.suffix[i] = x
  BY <1>1, <1>3, <1>4, AppendContinues
<1>6. /\ e.closed \in [CardEpochs -> Nat] /\ e.closed[ep] = n
      /\ \A other \in CardEpochs : d.closed[other] # 0 => e.closed[other] = d.closed[other]
  BY <1>1, <1>4
<1>7. DbHolds(e) /\ VerifiedCurrent(e) = VerifiedCurrent(d)
  <2>1. \A i \in DOMAIN e.suffix : i \notin DOMAIN d.suffix =>
          e.suffix[i].kind = "epoch_closure" /\ \E other \in CardEpochs : e.closed[other] = e.suffix[i].seq
    BY <1>3, <1>5, <1>6
  <2> QED
    BY <2>1, <1>4, <1>5, <1>6, ClosuresMove
<1> QED
  BY <1>4, <1>7 DEF e
\* Opening the repository closes the epochs that the log closed.
LEMMA EpochsClose ==
  ASSUME NEW d, DbHolds(d)
  PROVE  LET e == CloseEpochs(d) IN
         /\ DbHolds(e) /\ VerifiedCurrent(e) = VerifiedCurrent(d)
         /\ e.log = d.log /\ e.jobs = d.jobs /\ e.hist = d.hist /\ e.pubs = d.pubs /\ e.status = d.status
         /\ e.done = d.done /\ e.points = d.points /\ e.newest = d.newest /\ e.current = d.current
<1> DEFINE missing == {n \in DOMAIN d.log : d.log[n].kind = "close" /\ d.closed[d.log[n].who] = 0}
           ClosedAt(ep) == {n \in missing : d.log[n].who = ep}
           Nth(i) == CHOOSE n \in missing : Cardinality({o \in missing : o < n}) = i - 1
           m == Cardinality(missing)
           closed == [ep \in CardEpochs |-> IF ClosedAt(ep) = {} THEN d.closed[ep] ELSE CHOOSE n \in ClosedAt(ep) : TRUE]
           u == [i \in 1..m |-> [kind |-> "epoch_closure", seq |-> Nth(i)]]
           e == CloseEpochs(d)
<1>1. d.suffix \in Seq(DeltaRows) /\ RdbFields(d) /\ d.closed \in [CardEpochs -> Nat] /\ d.log \in Seq(Commands)
  BY DEF DbHolds, DeltasHold, RowsHold, LogHolds
<1>2. e = [d EXCEPT !.closed = closed, !.suffix = d.suffix \o u]
  BY <1>1 DEF CloseEpochs, RdbFields
<1> HIDE DEF e
<1>3. \A n \in missing : n \in Nat \ {0} /\ d.log[n].who \in CardEpochs
  <2> TAKE n \in missing
  <2>1. n \in DOMAIN d.log /\ d.log[n] \in Commands /\ d.log[n].kind = "close"
    BY <1>1
  <2> QED
    BY <2>1, <1>1 DEF Commands
<1>4. IsFiniteSet(missing) /\ m \in Nat
  <2>1. \A k \in Int : IsFiniteSet(1..k)
    BY FS_Interval
  <2>2. missing \in SUBSET (1..Len(d.log)) /\ Len(d.log) \in Int
    BY <1>1
  <2> HIDE DEF missing
  <2> QED
    BY <2>1, <2>2, FS_Subset, FS_CardinalityType
<1>5. \A i \in 1..m : Nth(i) \in missing
  <2> TAKE i \in 1..m
  <2>1. missing \in SUBSET Nat
    BY <1>3
  <2> HIDE DEF missing
  <2>2. \E n \in missing : Cardinality({o \in missing : o < n}) = i - 1
    BY <2>1, <1>4, EveryRankIsTaken
  <2> QED
    BY <2>2
<1>6. \A n \in missing : closed[d.log[n].who] = n
  <2> TAKE n \in missing
  <2>1. n \in ClosedAt(d.log[n].who) /\ d.log[n].who \in CardEpochs
    BY <1>3
  <2>2. \A o \in ClosedAt(d.log[n].who) : o = n
    BY DEF DbHolds, LogHolds
  <2> HIDE DEF missing, ClosedAt
  <2>3. (CHOOSE o \in ClosedAt(d.log[n].who) : TRUE) = n
    BY <2>1, <2>2
  <2> QED
    BY <2>1, <2>3
<1>7. \A ep \in CardEpochs : closed[ep] \in Nat /\ (d.closed[ep] # 0 => closed[ep] = d.closed[ep])
  <2> TAKE ep \in CardEpochs
  <2>1. CASE ClosedAt(ep) = {}
    BY <2>1, <1>1
  <2>2. CASE ClosedAt(ep) # {}
    <3>1. PICK n \in missing : d.log[n].who = ep
      BY <2>2
    <3>2. d.closed[ep] = 0 /\ closed[ep] = n
      BY <3>1, <1>6
    <3> QED
      BY <3>1, <3>2, <1>3
  <2> QED
    BY <2>1, <2>2
<1> HIDE DEF ClosedAt
<1>8. closed \in [CardEpochs -> Nat]
  BY <1>7
<1> HIDE DEF closed
<1>9. u \in Seq(DeltaRows) /\ Len(u) = m /\ \A i \in 1..m : u[i].kind = "epoch_closure" /\ \E ep \in CardEpochs : closed[ep] = u[i].seq
  <2>1. \A i \in 1..m : u[i] = [kind |-> "epoch_closure", seq |-> Nth(i)]
    OBVIOUS
  <2> HIDE DEF missing, Nth
  <2>2. \A i \in 1..m : u[i] \in DeltaRows
    BY <2>1, <1>3, <1>5 DEF DeltaRows, DeltaKinds
  <2>3. \A i \in 1..m : u[i].kind = "epoch_closure" /\ u[i].seq \in missing
    BY <2>1, <1>5
  <2>4. u \in [1..m -> DeltaRows]
    BY <2>2
  <2> HIDE DEF u, m
  <2> QED
    BY <2>3, <2>4, <1>3, <1>4, <1>6
<1> HIDE DEF u, m, missing
<1>10. /\ e.log = d.log /\ e.jobs = d.jobs /\ e.hist = d.hist /\ e.pubs = d.pubs /\ e.status = d.status
       /\ e.done = d.done /\ e.points = d.points /\ e.newest = d.newest /\ e.current = d.current
       /\ e.closed = closed /\ e.suffix = d.suffix \o u /\ RdbFields(e)
  BY <1>1, <1>2 DEF RdbFields
<1>11. Joins(DeltaRows, d.suffix, u, e.suffix)
  <2>1. Joins(DeltaRows, d.suffix, u, d.suffix \o u)
    BY <1>1, <1>9, ConcatParts
  <2> QED
    BY <2>1, <1>10
<1>12. DbHolds(e) /\ VerifiedCurrent(e) = VerifiedCurrent(d)
  <2>1. \A i \in DOMAIN e.suffix : i \notin DOMAIN d.suffix =>
          e.suffix[i].kind = "epoch_closure" /\ \E ep \in CardEpochs : closed[ep] = e.suffix[i].seq
    <3>1. \A i \in DOMAIN e.suffix : i \notin DOMAIN d.suffix => \E j \in 1..m : e.suffix[i] = u[j]
      BY <1>9, <1>11 DEF Joins
    <3> QED
      BY <3>1, <1>9
  <2>2. e.suffix \in Seq(DeltaRows) /\ Continues(d.suffix, e.suffix)
    BY <1>11 DEF Joins
  <2> QED
    BY <2>1, <2>2, <1>7, <1>8, <1>10, ClosuresMove
<1> QED
  BY <1>10, <1>12 DEF e

\* A reaction is completed.
LEMMA ReactionCompletes ==
  ASSUME NEW d, DbHolds(d), NEW n \in Nat \ {0}, NEW row, row.source = n
  PROVE  LET e == AppendDelta([d EXCEPT !.done = d.done \cup {row}], "reaction_completion", n) IN
         /\ DbHolds(e) /\ VerifiedCurrent(e) = VerifiedCurrent(d)
         /\ e.log = d.log /\ e.jobs = d.jobs /\ e.hist = d.hist /\ e.pubs = d.pubs /\ e.status = d.status
         /\ e.closed = d.closed /\ e.points = d.points /\ e.newest = d.newest /\ e.current = d.current
<1> DEFINE x == [kind |-> "reaction_completion", seq |-> n]
           done == d.done \cup {row}
           e == AppendDelta([d EXCEPT !.done = done], "reaction_completion", n)
<1>1. d.suffix \in Seq(DeltaRows) /\ RdbFields(d)
  BY DEF DbHolds, DeltasHold
<1>2. e = [d EXCEPT !.done = done, !.suffix = Append(d.suffix, x)]
  BY <1>1 DEF AppendDelta, RdbFields
<1>3. x \in DeltaRows /\ x.kind = "reaction_completion" /\ x.seq = n
  BY DEF DeltaRows, DeltaKinds
<1> HIDE DEF e, x
<1>4. /\ e.log = d.log /\ e.jobs = d.jobs /\ e.hist = d.hist /\ e.pubs = d.pubs /\ e.status = d.status
      /\ e.closed = d.closed /\ e.points = d.points /\ e.newest = d.newest /\ e.current = d.current
      /\ e.done = done /\ e.suffix = Append(d.suffix, x) /\ RdbFields(e)
  BY <1>1, <1>2 DEF RdbFields
<1>5. e.suffix \in Seq(DeltaRows) /\ Continues(d.suffix, e.suffix)
      /\ \A i \in DOMAIN e.suffix : i \notin DOMAIN d.suffix => e.suffix[i] = x
  BY <1>1, <1>3, <1>4, AppendContinues
<1>6. \A m : m \in Completed(e) <=> m \in Completed(d) \/ m = n
  <2>1. e.done = d.done \cup {row}
    BY <1>4
  <2> QED
    BY <2>1 DEF Completed
<1>7. ~NoneNamed(e, "reaction_completion")
  <2>1. Len(d.suffix) + 1 \in DOMAIN e.suffix /\ e.suffix[Len(d.suffix) + 1] = x
    BY <1>1, <1>3, <1>4
  <2> QED
    BY <2>1, <1>3 DEF NoneNamed
<1>8. LogPart(e)
  <2>1. LogPart(d)
    BY DEF DbHolds, NewestHolds, LogPart
  <2>2. \A m : m \in PendingPlans(e) <=> m \in PendingPlans(d) /\ m # n
    BY <1>4, <1>6 DEF PendingPlans, Obligations, Completed
  <2>3. d.newest.pending \ Completed(e) = {m \in PendingPlans(e) : m <= d.newest.source}
    BY <2>1, <2>2, <1>6 DEF LogPart
  <2> QED
    BY <2>1, <2>3, <1>4, <1>7 DEF LogPart
<1>9. NewestHolds(e) /\ VerifiedCurrent(e) = VerifiedCurrent(d)
  <2>1. /\ NoneNamed(d, "job_history") => NoneNamed(e, "job_history")
        /\ TipIs(d, "job_history", d.hist) => TipIs(e, "job_history", d.hist)
    BY <1>1, <1>3, <1>5, TipKept
  <2>2. ActiveCards(e) = ActiveCards(d)
    BY <1>4 DEF ActiveCards
  <2>3. \/ NoneNamed(e, "job_history") /\ e.hist = e.newest.hist /\ ActiveCards(e) = e.newest.active
        \/ TipIs(e, "job_history", e.hist)
    BY <2>1, <2>2, <1>4 DEF DbHolds, NewestHolds
  <2> QED
    BY <2>3, <1>3, <1>4, <1>5, <1>8, NewestKept
<1>10. LogHolds(e) /\ RowsHold(e) /\ StatusesHold(e)
  BY <1>4, <1>9 DEF DbHolds, LogHolds, RowsHold, StatusesHold
<1>11. DeltasHold(e)
  <2>1. DeltaAuthorityHolds(e, x)
    BY <1>3, <1>6 DEF DeltaAuthorityHolds, Completed
  <2>2. Completed(d) \subseteq Completed(e)
    BY <1>6
  <2>3. Len(d.log) <= Len(e.log) /\ Len(d.status) <= Len(e.status) /\ e.hist \in Nat /\ d.hist <= e.hist
    BY <1>4, <1>10 DEF LogHolds, StatusesHold, RowsHold
  <2> QED
    BY <2>1, <2>2, <2>3, <1>4, <1>5, <1>10, DeltasKept DEF LogHolds, StatusesHold
<1> QED
  BY <1>4, <1>9, <1>10, <1>11 DEF DbHolds, e
\* What a checkpoint of this database is the material of.
MaterialOf(d, m) ==
  /\ m.source = Len(d.log) /\ HeadsAt(d.log, m.source, m.heads) /\ m.pending = PendingPlans(d)
  /\ m.status = Len(d.status) /\ m.hist = d.hist /\ m.active = ActiveCards(d) /\ m.current = VerifiedCurrent(d)

LEMMA CheckpointHolds ==
  ASSUME NEW d, DbHolds(d), damages \in Nat, NEW m, MaterialOf(d, m)
  PROVE  LET e == AppendCheckpoint(d, m) IN
         /\ DbHolds(e) /\ VerifiedCurrent(e) = VerifiedCurrent(d) /\ e.points = Append(d.points, damages) /\ e.suffix = <<>>
         /\ e.log = d.log /\ e.jobs = d.jobs /\ e.hist = d.hist /\ e.pubs = d.pubs /\ e.status = d.status
         /\ e.closed = d.closed /\ e.done = d.done /\ e.current = d.current
<1> DEFINE e == AppendCheckpoint(d, m)
<1>1. RdbFields(d) /\ d.points \in Seq(Nat) /\ d.log \in Seq(Commands)
  BY DEF DbHolds, RowsHold, LogHolds
<1>2. e = [d EXCEPT !.points = Append(d.points, damages), !.newest = m, !.suffix = <<>>]
  BY <1>1 DEF AppendCheckpoint, RdbFields
<1> HIDE DEF e
<1>3. /\ e.log = d.log /\ e.jobs = d.jobs /\ e.hist = d.hist /\ e.pubs = d.pubs /\ e.status = d.status
      /\ e.closed = d.closed /\ e.done = d.done /\ e.current = d.current
      /\ e.points = Append(d.points, damages) /\ e.newest = m /\ e.suffix = <<>> /\ RdbFields(e)
  BY <1>1, <1>2 DEF RdbFields
<1>4. VerifiedCurrent(e) = VerifiedCurrent(d)
  BY <1>3 DEF VerifiedCurrent
<1>5. CurrentAfterSuffix(e) = VerifiedCurrent(e)
  <2>1. StatusRows(e) = {}
    BY <1>3 DEF StatusRows
  <2>2. CurrentAfterSuffix(e) = m.current
    BY <2>1, <1>3 DEF CurrentAfterSuffix
  <2> QED
    BY <2>2, <1>4 DEF MaterialOf
<1>6. e.points \in Seq(Nat)
  BY <1>1, <1>3
<1>7. LogHolds(e) /\ RowsHold(e) /\ StatusesHold(e)
  BY <1>3, <1>4, <1>6 DEF DbHolds, LogHolds, RowsHold, StatusesHold
<1>8. DeltasHold(e)
  BY <1>3 DEF DeltasHold
<1>9. NewestHolds(e)
  <2>1. \A kind : NoneNamed(e, kind)
    BY <1>3 DEF NoneNamed
  <2>2. Completed(e) = Completed(d) /\ PendingPlans(e) = PendingPlans(d) /\ ActiveCards(e) = ActiveCards(d)
    BY <1>3 DEF Completed, PendingPlans, Obligations, ActiveCards
  <2>3. Len(d.log) \in Nat /\ \A n \in PendingPlans(d) : n <= Len(d.log) /\ n \notin Completed(d)
    BY <1>1 DEF PendingPlans, Obligations, Completed
  <2>4. e.newest.pending \ Completed(e) = {n \in PendingPlans(e) : n <= e.newest.source}
        /\ e.newest.pending \cap Completed(e) = {}
    BY <2>2, <2>3, <1>3 DEF MaterialOf
  <2> QED
    BY <2>1, <2>2, <2>3, <2>4, <1>3, <1>5 DEF NewestHolds, MaterialOf
<1> QED
  BY <1>3, <1>4, <1>7, <1>8, <1>9 DEF DbHolds, e

LEMMA MaterialIsIts ==
  ASSUME NEW d, DbHolds(d), d.current = VerifiedCurrent(d) PROVE MaterialOf(d, Material(d))
<1>1. HeadsAt(d.log, Len(d.log), AggregateHeads(d))
  <2>1. DOMAIN d.log = 1..Len(d.log) /\ TailOf(d, 0) = 1..Len(d.log)
    BY DEF DbHolds, LogHolds, TailOf
  <2> QED
    BY <2>1 DEF HeadsAt, AggregateHeads, EventsAfter
<1> QED
  BY <1>1 DEF Material, MaterialOf

LEMMA EmptyHolds ==
  ASSUME RollingAssumption
  PROVE  DbHolds(EmptyRolling) /\ WithinSuffix(EmptyRolling) /\ VerifiedCurrent(EmptyRolling) = EmptyRolling.current
<1> DEFINE d == EmptyRolling
<1>1. /\ d.log = <<>> /\ d.jobs = <<>> /\ d.hist = 0 /\ d.pubs = {} /\ d.status = <<>> /\ d.current = {}
      /\ d.closed = [e \in CardEpochs |-> 0] /\ d.done = {} /\ d.points = <<0>> /\ d.suffix = <<>>
      /\ d.newest.source = 0 /\ d.newest.heads = <<>> /\ d.newest.status = 0 /\ d.newest.hist = 0 /\ d.newest.active = {}
      /\ d.newest.current = {} /\ d.newest.pending = {} /\ RdbFields(d)
  BY DEF EmptyRolling, RdbFields
<1> HIDE DEF d
<1>2. VerifiedCurrent(d) = {} /\ StatusRows(d) = {} /\ ActiveCards(d) = {} /\ PendingPlans(d) = {} /\ Completed(d) = {}
  BY <1>1 DEF VerifiedCurrent, StatusRows, ActiveCards, PendingPlans, Obligations, Completed
<1>3. LogHolds(d) /\ RowsHold(d) /\ StatusesHold(d) /\ DeltasHold(d)
  <2>1. IsFiniteSet({}) /\ MaxSources >= 0 /\ <<0>> \in Seq(Nat)
    BY FS_EmptySet DEF RollingAssumption
  <2>2. LogHolds(d)
    BY <2>1, <1>1 DEF LogHolds
  <2>3. RowsHold(d)
    BY <2>1, <1>1 DEF RowsHold
  <2> QED
    BY <2>2, <2>3, <1>1, <1>2 DEF StatusesHold, DeltasHold
<1>4. NewestHolds(d)
  <2>1. CurrentAfterSuffix(d) = {}
    BY <1>1, <1>2 DEF CurrentAfterSuffix
  <2>2. HeadsAt(d.log, 0, d.newest.heads)
    BY <1>1 DEF HeadsAt
  <2> QED
    BY <2>1, <2>2, <1>1, <1>2 DEF NewestHolds, NoneNamed
<1> QED
  BY <1>1, <1>2, <1>3, <1>4 DEF DbHolds, WithinSuffix, RollingAssumption, d
-----------------------------------------------------------------------------
(* Every step keeps the invariant.                                         *)

\* The database has moved on.
Grows(d, e) ==
  /\ Continues(d.log, e.log) /\ Continues(d.points, e.points) /\ Len(d.status) <= Len(e.status)
  /\ Len(e.status) = Len(d.status) => VerifiedCurrent(e) = VerifiedCurrent(d)

LEMMA SameGrows ==
  ASSUME NEW d, NEW e, DbHolds(d), e.log = d.log, e.points = d.points, e.status = d.status, VerifiedCurrent(e) = VerifiedCurrent(d)
  PROVE  Grows(d, e)
<1>1. d.log \in Seq(Commands) /\ d.points \in Seq(Nat) /\ d.status \in Seq(StatusEntries)
  BY DEF DbHolds, LogHolds, RowsHold, StatusesHold
<1> QED
  BY <1>1 DEF Grows, Continues

LEMMA GrowsOn ==
  ASSUME NEW d, NEW e, NEW f, DbHolds(d), DbHolds(e), DbHolds(f), Grows(d, e), Grows(e, f)
  PROVE  Grows(d, f)
<1>1. /\ d.log \in Seq(Commands) /\ d.points \in Seq(Nat) /\ Len(d.status) \in Nat
      /\ e.log \in Seq(Commands) /\ e.points \in Seq(Nat) /\ Len(e.status) \in Nat
      /\ f.log \in Seq(Commands) /\ f.points \in Seq(Nat) /\ Len(f.status) \in Nat
  BY DEF DbHolds, LogHolds, RowsHold, StatusesHold
<1>2. Continues(d.log, f.log)
  <2>1. \A i \in DOMAIN d.log : i \in DOMAIN e.log
    BY <1>1 DEF Grows, Continues
  <2> QED
    BY <2>1, <1>1 DEF Grows, Continues
<1>3. Continues(d.points, f.points)
  <2>1. \A i \in DOMAIN d.points : i \in DOMAIN e.points
    BY <1>1 DEF Grows, Continues
  <2> QED
    BY <2>1, <1>1 DEF Grows, Continues
<1>4. Len(d.status) <= Len(f.status) /\ (Len(f.status) = Len(d.status) => VerifiedCurrent(f) = VerifiedCurrent(d))
  BY <1>1 DEF Grows
<1> QED
  BY <1>2, <1>3, <1>4 DEF Grows

LEMMA AnchorStays ==
  ASSUME NEW d, NEW e, DbHolds(d), DbHolds(e), Continues(d.points, e.points), NEW h, h \in Seq(Nat), AnchorHolds(d, h)
  PROVE  AnchorHolds(e, h)
<1>1. d.points \in Seq(Nat) /\ e.points \in Seq(Nat)
  BY DEF DbHolds, RowsHold
<1>2. \A i \in DOMAIN h : i \in DOMAIN d.points
  BY <1>1 DEF AnchorHolds
<1> QED
  BY <1>1, <1>2 DEF AnchorHolds, Continues

LEMMA RefreshStays ==
  ASSUME NEW d, NEW e, DbHolds(d), DbHolds(e), Grows(d, e), NEW r, RefreshHolds(d, r)
  PROVE  RefreshHolds(e, r)
<1>1. d.log \in Seq(Commands) /\ e.log \in Seq(Commands) /\ Len(d.status) \in Nat /\ Len(e.status) \in Nat
  BY DEF DbHolds, LogHolds, StatusesHold
<1>2. CASE r = NoRefresh
  BY <1>2 DEF RefreshHolds
<1>3. CASE r # NoRefresh
  <2>1. HeadsAt(e.log, r.guard.log, r.material.heads)
    BY <1>1, <1>3, HeadsStay DEF RefreshHolds, Grows
  <2>2. r.guard.log <= Len(e.log)
    BY <1>1, <1>3 DEF RefreshHolds, Grows, Continues
  <2>3. r.guard.status <= Len(e.status) /\ (Len(e.status) = r.guard.status => r.material.current = VerifiedCurrent(e))
    BY <1>1, <1>3 DEF RefreshHolds, Grows
  <2> QED
    BY <2>1, <2>2, <2>3, <1>3 DEF RefreshHolds
<1> QED
  BY <1>2, <1>3

\* What the registry and the refresher rest on stays when the database moves on.
LEMMA OthersStay ==
  ASSUME RollInv, DbHolds(rdb'), WithinSuffix(rdb'), Grows(rdb, rdb'), UNCHANGED <<retained, anchored, damages, refresh>>
  PROVE  /\ RegistryHolds(rdb)' /\ RefreshHolds(rdb', refresh') /\ (refresh' # NoRefresh => anchored')
         /\ CoordHolds(rdb', coord') /\ (coord'.up => anchored') => RollInv'
<1>1. AnchorHolds(rdb, retained) => AnchorHolds(rdb', retained)
  BY AnchorStays DEF RollInv, Grows, RegistryHolds
<1>2. RegistryHolds(rdb)'
  BY <1>1 DEF RollInv, RegistryHolds
<1>3. RefreshHolds(rdb', refresh')
  BY RefreshStays DEF RollInv
<1> QED
  BY <1>2, <1>3 DEF RollInv

\* A coordinator that neither starts, stops nor closes an epoch.
LEMMA CoordStays ==
  ASSUME NEW d, NEW e, NEW c, NEW g, CoordHolds(d, c), CoordFields(g), g.up = c.up, StageHolds(e, g), ~g.up => g.stage = "idle",
         g.up => /\ e.current = VerifiedCurrent(e) /\ e.closed = d.closed
                 /\ \A k \in ActiveCards(e) : k \in ActiveCards(d) \/ d.closed[CardEpochOf(k)] = 0
                 /\ CurrentNewest(e) \subseteq g.cache
                 /\ \A k \in CurrentNewest(e) : k \in CurrentNewest(d) \/ d.closed[CardEpochOf(k)] = 0
                 /\ c.stage = "sweep" => g.stage = "sweep"
                 /\ c.stage \in {"sweep", "retire"} => /\ g.stage \in {"sweep", "retire"}
                                                       /\ e.log[g.source] = d.log[c.source]
  PROVE  CoordHolds(e, g)
<1>1. g.up => ClosureHolds(e, g)
  BY DEF CoordHolds, ClosureHolds
<1> QED
  BY <1>1 DEF CoordHolds
LEMMA SameCards ==
  ASSUME NEW d, NEW e, e.jobs = d.jobs
  PROVE  /\ ActiveCards(e) = ActiveCards(d) /\ \A k : IsNewestScheduled(e, k) <=> IsNewestScheduled(d, k)
         /\ e.current = d.current => CurrentNewest(e) = CurrentNewest(d)
<1>1. ActiveCards(e) = ActiveCards(d)
  BY DEF ActiveCards
<1>2. \A k : IsNewestScheduled(e, k) <=> IsNewestScheduled(d, k)
  BY DEF IsNewestScheduled, Scheduled
<1> QED
  BY <1>1, <1>2 DEF CurrentNewest

\* Nobody touched the coordinator, and the database has not gone against it.
LEMMA CoordUnmoved ==
  ASSUME NEW d, NEW e, NEW c, CoordHolds(d, c), DbHolds(d), DbHolds(e), Continues(d.log, e.log),
         c.up => /\ e.current = VerifiedCurrent(e) /\ e.closed = d.closed
                 /\ ActiveCards(e) \subseteq ActiveCards(d) /\ CurrentNewest(e) \subseteq CurrentNewest(d)
  PROVE  CoordHolds(e, c)
<1>1. d.log \in Seq(Commands) /\ e.log \in Seq(Commands)
  BY DEF DbHolds, LogHolds
<1>2. \A n \in DOMAIN d.log : n \in DOMAIN e.log /\ e.log[n] = d.log[n]
  BY <1>1 DEF Continues
<1>3. StageHolds(e, c)
  BY <1>2 DEF CoordHolds, StageHolds
<1>4. c.stage \in {"sweep", "retire"} => e.log[c.source] = d.log[c.source]
  BY <1>2 DEF CoordHolds, StageHolds
<1>5. c.up => CurrentNewest(e) \subseteq c.cache
  BY DEF CoordHolds, ClosureHolds
<1> QED
  BY <1>3, <1>4, <1>5, CoordStays DEF CoordHolds

LEMMA CommandStep ==
  ASSUME RollingAssumption, RollInv,
         \/ \E s \in CardSubjects : RecordResult(s)
         \/ \E ep \in CardEpochs : CloseRound(ep)
         \/ OtherCommand
  PROVE  RollInv'
<1>1. PICK x \in Commands : /\ CommitCommand(x)
                            /\ x.kind = "close" => \A n \in DOMAIN rdb.log : ~(rdb.log[n].kind = "close" /\ rdb.log[n].who = x.who)
  <2>1. CASE \E s \in CardSubjects : RecordResult(s)
    <3>1. PICK s \in CardSubjects : RecordResult(s)
      BY <2>1
    <3>2. [kind |-> "result", who |-> s] \in Commands
      BY DEF Commands
    <3> QED
      BY <3>1, <3>2 DEF RecordResult
  <2>2. CASE \E ep \in CardEpochs : CloseRound(ep)
    <3>1. PICK ep \in CardEpochs : CloseRound(ep)
      BY <2>2
    <3>2. [kind |-> "close", who |-> ep] \in Commands
      BY DEF Commands
    <3> QED
      BY <3>1, <3>2 DEF CloseRound, ClosedInLog
  <2>3. CASE OtherCommand
    <3>1. [kind |-> "other", who |-> NoCard] \in Commands
      BY DEF Commands
    <3> QED
      BY <2>3, <3>1 DEF OtherCommand
  <2> QED
    BY <2>1, <2>2, <2>3
<1> DEFINE g == [rdb EXCEPT !.log = Append(rdb.log, x)]
           e == [g EXCEPT !.cursor = CursorOf(g)]
<1>2. rdb' = e /\ UNCHANGED <<retained, anchored, coord, refresh, damages>>
  <2>1. [rdb EXCEPT !.log = Append(@, x)] = g
    BY DEF RollInv, DbHolds, RdbFields
  <2> QED
    BY <1>1, <2>1 DEF CommitCommand
<1>3. DbHolds(rdb) /\ Len(rdb.log) < MaxSources /\ MaxSources \in Nat
  BY <1>1 DEF RollInv, RollingAssumption, CommitCommand
<1>4. /\ DbHolds(e) /\ VerifiedCurrent(e) = VerifiedCurrent(rdb) /\ Continues(rdb.log, e.log)
      /\ e.jobs = rdb.jobs /\ e.status = rdb.status /\ e.current = rdb.current
      /\ e.closed = rdb.closed /\ e.points = rdb.points /\ e.suffix = rdb.suffix
  BY <1>1, <1>3, CommandCommits
<1> HIDE DEF e
<1>5. WithinSuffix(rdb') /\ Grows(rdb, rdb')
  BY <1>2, <1>3, <1>4 DEF RollInv, WithinSuffix, Grows, Continues, DbHolds, RowsHold, StatusesHold
<1>6. CoordHolds(e, coord)
  <2>1. ActiveCards(e) = ActiveCards(rdb) /\ CurrentNewest(e) = CurrentNewest(rdb)
    BY <1>4, SameCards
  <2> QED
    BY <2>1, <1>3, <1>4, CoordUnmoved DEF RollInv, CoordHolds
<1> QED
  BY <1>2, <1>4, <1>5, <1>6, OthersStay DEF RollInv

LEMMA DeadlineStep ==
  ASSUME RollInv, NEW n, DeadlinePasses(n) PROVE RollInv'
BY DEF DeadlinePasses, RollInv, RegistryHolds

LEMMA CrashStep ==
  ASSUME RollInv, CrashRolling PROVE RollInv'
<1>1. CoordHolds(rdb', coord')
  BY DEF CrashRolling, Down, CoordHolds, CoordFields, StageHolds
<1>2. RefreshHolds(rdb', refresh')
  BY DEF CrashRolling, RefreshHolds
<1> QED
  BY <1>1, <1>2 DEF CrashRolling, RollInv, RegistryHolds, Down
\* A transaction that only moves the jobs of cards that are scheduled already.
JobsOnly(d, e) ==
  /\ DbHolds(e) /\ VerifiedCurrent(e) = VerifiedCurrent(d)
  /\ e.log = d.log /\ e.pubs = d.pubs /\ e.status = d.status /\ e.current = d.current
  /\ e.closed = d.closed /\ e.done = d.done /\ e.points = d.points /\ e.newest = d.newest
  /\ CurrentNewest(e) = CurrentNewest(d) /\ \A k : IsNewestScheduled(e, k) <=> IsNewestScheduled(d, k)

LEMMA JobsOnlyMove ==
  ASSUME NEW d, DbHolds(d), NEW jobs, jobs = [k \in DOMAIN d.jobs |-> jobs[k]]
  PROVE  LET e == AppendJobHistory([d EXCEPT !.jobs = jobs]) IN JobsOnly(d, e) /\ e.jobs = jobs
<1> DEFINE e == AppendJobHistory([d EXCEPT !.jobs = jobs])
<1>1. DOMAIN jobs = DOMAIN d.jobs /\ DOMAIN d.jobs \in SUBSET Cards
  BY DEF DbHolds, RowsHold
<1>2. /\ DbHolds(e) /\ VerifiedCurrent(e) = VerifiedCurrent(d) /\ e.jobs = jobs
      /\ e.log = d.log /\ e.pubs = d.pubs /\ e.status = d.status /\ e.current = d.current
      /\ e.closed = d.closed /\ e.done = d.done /\ e.points = d.points /\ e.newest = d.newest
  BY <1>1, JobsMove
<1> HIDE DEF e
<1>3. \A k : IsNewestScheduled(e, k) <=> IsNewestScheduled(d, k)
  BY <1>1, <1>2 DEF IsNewestScheduled, Scheduled
<1>4. CurrentNewest(e) = CurrentNewest(d)
  BY <1>2, <1>3 DEF CurrentNewest
<1> QED
  BY <1>2, <1>3, <1>4 DEF JobsOnly, e

\* The active jobs of these cards end, each as far as it was enqueued.
Ended(d, hit) == [k \in DOMAIN d.jobs |->
  IF k \notin hit THEN d.jobs[k] ELSE IF d.jobs[k] = "partial" THEN "cut" ELSE "ended"]

LEMMA JobsEnd ==
  ASSUME NEW d, DbHolds(d), NEW hit
  PROVE  LET e == AppendJobHistory([d EXCEPT !.jobs = Ended(d, hit)]) IN
         JobsOnly(d, e) /\ ActiveCards(e) = ActiveCards(d) \ hit
<1> DEFINE e == AppendJobHistory([d EXCEPT !.jobs = Ended(d, hit)])
<1>1. JobsOnly(d, e) /\ e.jobs = Ended(d, hit)
  <2>1. Ended(d, hit) = [k \in DOMAIN d.jobs |-> Ended(d, hit)[k]]
    BY DEF Ended
  <2> QED
    BY <2>1, JobsOnlyMove
<1> HIDE DEF e
<1>2. \A k : k \in ActiveCards(e) <=> k \in ActiveCards(d) /\ k \notin hit
  BY <1>1 DEF ActiveCards, Ended
<1>3. ActiveCards(e) = ActiveCards(d) \ hit
  BY <1>2
<1> QED
  BY <1>1, <1>3 DEF e

LEMMA ClosedJobsEnd ==
  ASSUME NEW d, DbHolds(d)
  PROVE  LET e == CancelClosedJobs(d) IN
         JobsOnly(d, e) /\ \A k : k \in ActiveCards(e) <=> k \in ActiveCards(d) /\ d.closed[CardEpochOf(k)] = 0
<1> DEFINE open == {k \in ActiveCards(d) : d.closed[CardEpochOf(k)] # 0}
<1>1. CASE open = {}
  BY <1>1 DEF CancelClosedJobs, JobsOnly
<1>2. CASE open # {}
  <2> DEFINE e == AppendJobHistory([d EXCEPT !.jobs = Ended(d, open)])
  <2>1. CancelClosedJobs(d) = e
    BY <1>2 DEF CancelClosedJobs, Ended
  <2>2. \A k : k \in open <=> k \in ActiveCards(d) /\ d.closed[CardEpochOf(k)] # 0
    OBVIOUS
  <2> HIDE DEF open
  <2>3. JobsOnly(d, e) /\ ActiveCards(e) = ActiveCards(d) \ open
    BY JobsEnd
  <2> HIDE DEF e
  <2> QED
    BY <2>1, <2>2, <2>3
<1> QED
  BY <1>1, <1>2

LEMMA OpenStep ==
  ASSUME RollInv, OpenRepository PROVE RollInv'
<1> DEFINE d == Recovered(rdb)
           e == CloseEpochs(d)
<1>1. rdb' = e /\ WithinSuffix(e) /\ retained' = PublishedHead(retained, e) /\ anchored' /\ UNCHANGED <<coord, refresh, damages>>
      /\ ~anchored /\ AnchorHolds(rdb, retained)
  BY DEF OpenRepository, CanRecover, RestartVerified
<1>2. DbHolds(rdb) /\ retained \in Seq(Nat) /\ damages \in Nat /\ ~coord.up /\ refresh = NoRefresh
  BY <1>1 DEF RollInv, RegistryHolds
<1>3. DbHolds(d) /\ d.points = rdb.points /\ d.log = rdb.log
  BY <1>2, RecoveredHolds DEF SameTables
<1> HIDE DEF d
<1>4. DbHolds(e) /\ e.points = d.points /\ e.log = d.log
  BY <1>3, EpochsClose
<1> HIDE DEF e
<1>5. e.points \in Seq(Nat) /\ rdb.points \in Seq(Nat)
  BY <1>2, <1>4 DEF DbHolds, RowsHold
<1>6. retained' \in Seq(Nat) /\ AnchorHolds(e, retained')
  BY <1>1, <1>2, <1>3, <1>4, <1>5 DEF PublishedHead, AnchorHolds
<1>7. CoordHolds(e, coord)
  BY <1>2, <1>3, <1>4 DEF RollInv, CoordHolds, StageHolds
<1>8. RefreshHolds(e, refresh)
  BY <1>2 DEF RefreshHolds
<1> QED
  BY <1>1, <1>2, <1>4, <1>6, <1>7, <1>8 DEF RollInv, RegistryHolds

LEMMA StartStep ==
  ASSUME RollInv, StartCoordinator PROVE RollInv'
<1> DEFINE a == Recovered(rdb)
           b == CancelClosedJobs(a)
           gone == {k \in b.current : b.closed[CardEpochOf(k)] # 0}
           swept == SupersedeCards(b, gone)
           cards == {k \in swept.current : IsNewestScheduled(swept, k)}
           e == Recovered(swept)
<1>1. /\ rdb' = e /\ WithinSuffix(e) /\ anchored /\ UNCHANGED <<retained, anchored, damages, refresh>>
      /\ coord' = [Down EXCEPT !.up = TRUE, !.cache = cards, !.active = cards]
  BY DEF StartCoordinator, CanRecover, SupersedeClosed
<1>2. DbHolds(rdb) /\ rdb.points \in Seq(Nat)
  BY DEF RollInv, DbHolds, RowsHold
<1>3. DbHolds(a) /\ SameTables(rdb, a) /\ a.current = VerifiedCurrent(rdb) /\ VerifiedCurrent(a) = VerifiedCurrent(rdb)
  BY <1>2, RecoveredHolds
<1> HIDE DEF a
<1>4. JobsOnly(a, b) /\ \A k : k \in ActiveCards(b) <=> k \in ActiveCards(a) /\ a.closed[CardEpochOf(k)] = 0
  BY <1>3, ClosedJobsEnd
<1> HIDE DEF b
<1>5. gone \in SUBSET b.pubs
  BY <1>4 DEF JobsOnly, DbHolds, RowsHold
<1>6. /\ DbHolds(swept) /\ VerifiedCurrent(swept) = VerifiedCurrent(b) \ gone /\ swept.current = b.current \ gone
      /\ swept.log = b.log /\ swept.jobs = b.jobs /\ swept.closed = b.closed /\ swept.points = b.points
      /\ Len(b.status) <= Len(swept.status) /\ (Len(swept.status) = Len(b.status) => gone = {})
  <2> HIDE DEF gone
  <2> QED
    BY <1>4, <1>5, CardsRetire DEF JobsOnly
<1> HIDE DEF swept
<1>7. DbHolds(e) /\ SameTables(swept, e) /\ e.current = VerifiedCurrent(swept) /\ VerifiedCurrent(e) = VerifiedCurrent(swept)
  BY <1>6, RecoveredHolds
<1> HIDE DEF e
<1>8. swept.current = VerifiedCurrent(swept)
  BY <1>3, <1>4, <1>6 DEF JobsOnly
<1>9. e.jobs = swept.jobs /\ e.current = swept.current /\ e.closed = b.closed /\ b.closed = a.closed
  BY <1>4, <1>6, <1>7, <1>8 DEF SameTables, JobsOnly
<1>10. CurrentNewest(e) = cards /\ ActiveCards(e) = ActiveCards(b)
  <2>1. CurrentNewest(e) = CurrentNewest(swept) /\ ActiveCards(e) = ActiveCards(swept) /\ ActiveCards(swept) = ActiveCards(b)
    BY <1>6, <1>9, SameCards
  <2> QED
    BY <2>1 DEF CurrentNewest
<1>11. \A k \in e.current : e.closed[CardEpochOf(k)] = 0
  BY <1>6, <1>9
<1>12. CoordHolds(rdb', coord')
  <2> HIDE DEF cards
  <2>1. coord'.up /\ coord'.cache = cards /\ coord'.stage = "idle" /\ CoordFields(coord')
    BY <1>1 DEF Down, CoordFields
  <2>2. e.current = VerifiedCurrent(e)
    BY <1>7
  <2>3. \A k \in ActiveCards(e) : e.closed[CardEpochOf(k)] = 0
    BY <1>4, <1>9, <1>10
  <2>4. \A k \in CurrentNewest(e) : e.closed[CardEpochOf(k)] = 0
    BY <1>11 DEF CurrentNewest
  <2> QED
    BY <1>1, <1>10, <2>1, <2>2, <2>3, <2>4 DEF CoordHolds, StageHolds, ClosureHolds
<1>13. Grows(rdb, rdb')
  <2>1. e.log = rdb.log /\ e.points = rdb.points /\ e.status = swept.status /\ b.status = rdb.status
        /\ VerifiedCurrent(b) = VerifiedCurrent(rdb) /\ VerifiedCurrent(e) = VerifiedCurrent(b) \ gone
    BY <1>3, <1>4, <1>6, <1>7 DEF SameTables, JobsOnly
  <2>2. Len(e.status) = Len(rdb.status) => VerifiedCurrent(e) = VerifiedCurrent(rdb)
    BY <2>1, <1>6
  <2>3. rdb.log \in Seq(Commands) /\ rdb.points \in Seq(Nat)
    BY <1>2 DEF DbHolds, LogHolds
  <2>4. Continues(rdb.log, e.log) /\ Continues(rdb.points, e.points)
    BY <2>1, <2>3 DEF Continues
  <2>5. Len(rdb.status) <= Len(e.status)
    BY <2>1, <1>6
  <2>6. Grows(rdb, e)
    BY <2>2, <2>4, <2>5 DEF Grows
  <2>7. rdb' = e
    BY <1>1
  <2> QED
    BY <2>6, <2>7
<1>14. coord'.up => anchored'
  BY <1>1
<1>15. DbHolds(rdb') /\ WithinSuffix(rdb')
  BY <1>1, <1>7
<1> QED
  BY <1>1, <1>12, <1>13, <1>14, <1>15, OthersStay
LEMMA TakeStep ==
  ASSUME RollInv, TakeReaction PROVE RollInv'
<1> DEFINE least(x) == \A y \in PendingPlans(rdb) : x <= y
           n == CHOOSE x \in PendingPlans(rdb) : least(x)
           timely == rdb.log[n].kind = "result" /\ n \notin late
           plan == IF timely THEN {Candidate(rdb, n)} ELSE {}
           stage == IF rdb.log[n].kind = "close" THEN "close" ELSE IF timely THEN "plan" ELSE "complete"
<1>1. /\ coord.up /\ coord.stage = "idle" /\ UNCHANGED <<rdb, retained, anchored, damages, refresh>>
      /\ coord' = [coord EXCEPT !.source = n, !.plan = plan, !.stage = stage]
  BY DEF TakeReaction
<1>2. DbHolds(rdb) /\ rdb.log \in Seq(Commands) /\ WithinSuffix(rdb) /\ CoordHolds(rdb, coord) /\ CoordFields(coord)
  BY DEF RollInv, DbHolds, LogHolds, CoordHolds
<1>3. n \in PendingPlans(rdb)
  <2>1. PendingPlans(rdb) \in SUBSET Nat /\ PendingPlans(rdb) # {}
    BY <1>2 DEF TakeReaction, PendingPlans, Obligations
  <2>2. \E x \in PendingPlans(rdb) : least(x)
    BY <2>1, LeastNatural
  <2> HIDE DEF least
  <2> QED
    BY <2>2
<1>4. n \in DOMAIN rdb.log /\ rdb.log[n].kind \in {"result", "close"}
  <2> HIDE DEF n
  <2> QED
    BY <1>3 DEF PendingPlans, Obligations, RelevantCommand
<1> HIDE DEF n, plan
<1>5. coord'.up /\ coord'.cache = coord.cache /\ coord'.source = n /\ coord'.stage = stage /\ CoordFields(coord')
  BY <1>1, <1>2 DEF CoordFields
<1>6. StageHolds(rdb, coord')
  BY <1>4, <1>5 DEF StageHolds
<1>7. CoordHolds(rdb, coord')
  BY <1>1, <1>2, <1>5, <1>6, CoordStays DEF CoordHolds, ClosureHolds
<1>8. Grows(rdb, rdb) /\ rdb' = rdb
  BY <1>1, <1>2, SameGrows
<1> QED
  BY <1>1, <1>2, <1>7, <1>8, OthersStay DEF RollInv

LEMMA CloseStep ==
  ASSUME RollInv, CloseEpoch PROVE RollInv'
<1> DEFINE ep == rdb.log[coord.source].who
           n == coord.source
<1>1. /\ coord.stage = "close" /\ coord' = [coord EXCEPT !.stage = "sweep"] /\ WithinSuffix(rdb')
      /\ rdb' = IF rdb.closed[ep] # 0 THEN rdb ELSE AppendDelta([rdb EXCEPT !.closed[ep] = n], "epoch_closure", n)
      /\ UNCHANGED <<retained, anchored, refresh, damages>>
  BY DEF CloseEpoch
<1>2. DbHolds(rdb) /\ rdb.log \in Seq(Commands) /\ CoordHolds(rdb, coord) /\ coord.up /\ CoordFields(coord) /\ rdb.pubs \in SUBSET Cards
      /\ rdb.current \in SUBSET rdb.pubs
  BY <1>1 DEF RollInv, DbHolds, LogHolds, RowsHold, CoordHolds
<1>3. n \in Nat \ {0} /\ ep \in CardEpochs /\ n \in DOMAIN rdb.log /\ rdb.log[n].kind = "close"
  <2>1. n \in DOMAIN rdb.log /\ rdb.log[n].kind = "close"
    BY <1>1, <1>2 DEF CoordHolds, StageHolds
  <2>2. rdb.log[n] \in Commands
    BY <2>1, <1>2
  <2> QED
    BY <2>1, <2>2, <1>2 DEF Commands
<1>4. /\ DbHolds(rdb') /\ VerifiedCurrent(rdb') = VerifiedCurrent(rdb) /\ rdb'.log = rdb.log /\ rdb'.jobs = rdb.jobs
      /\ rdb'.current = rdb.current /\ rdb'.points = rdb.points /\ rdb'.status = rdb.status
      /\ \A other \in CardEpochs : other # ep => rdb'.closed[other] = rdb.closed[other]
  <2>1. CASE rdb.closed[ep] # 0
    BY <1>1, <1>2, <2>1
  <2>2. CASE rdb.closed[ep] = 0
    <3> DEFINE e == AppendDelta([rdb EXCEPT !.closed[ep] = n], "epoch_closure", n)
    <3>1. /\ DbHolds(e) /\ VerifiedCurrent(e) = VerifiedCurrent(rdb) /\ e.closed = [rdb.closed EXCEPT ![ep] = n]
          /\ e.log = rdb.log /\ e.jobs = rdb.jobs /\ e.status = rdb.status /\ e.points = rdb.points /\ e.current = rdb.current
      <4> HIDE DEF ep, n
      <4> QED
        BY <1>2, <1>3, <2>2, EpochCloses
    <3>2. rdb' = e
      BY <1>1, <2>2
    <3> HIDE DEF e, ep, n
    <3>3. rdb.closed \in [CardEpochs -> Nat]
      BY <1>2 DEF DbHolds, RowsHold
    <3> QED
      BY <3>1, <3>2, <3>3
  <2> QED
    BY <2>1, <2>2
<1>5. coord'.up /\ coord'.cache = coord.cache /\ coord'.source = n /\ coord'.stage = "sweep" /\ CoordFields(coord')
  BY <1>1, <1>2 DEF CoordFields
<1>6. StageHolds(rdb', coord')
  BY <1>3, <1>4, <1>5 DEF StageHolds
<1>7. CurrentNewest(rdb') = CurrentNewest(rdb)
  BY <1>4, SameCards
<1>8. ClosureHolds(rdb', coord')
  <2>1. ASSUME NEW k \in CurrentNewest(rdb), rdb'.closed[CardEpochOf(k)] # 0 PROVE CardEpochOf(k) = ep
    <3>1. rdb.closed[CardEpochOf(k)] = 0
      BY <1>1, <1>2, <2>1 DEF CoordHolds, ClosureHolds
    <3>2. CardEpochOf(k) \in CardEpochs
      BY <1>2, <2>1 DEF CurrentNewest, Cards, CardSubjects, CardEpochOf
    <3> QED
      BY <2>1, <3>1, <3>2, <1>4
  <2> QED
    BY <2>1, <1>2, <1>4, <1>5, <1>7 DEF CoordHolds, ClosureHolds
<1>9. CoordHolds(rdb', coord')
  BY <1>2, <1>4, <1>5, <1>6, <1>8 DEF CoordHolds
<1>10. Grows(rdb, rdb')
  BY <1>2, <1>4, SameGrows
<1> QED
  BY <1>1, <1>2, <1>4, <1>5, <1>9, <1>10, OthersStay DEF RollInv

LEMMA SweepStep ==
  ASSUME RollInv, SweepJobs PROVE RollInv'
<1>1. /\ coord.stage = "sweep" /\ coord' = [coord EXCEPT !.stage = "retire"] /\ WithinSuffix(rdb')
      /\ rdb' = CancelClosedJobs(rdb) /\ UNCHANGED <<retained, anchored, refresh, damages>>
  BY DEF SweepJobs
<1>2. DbHolds(rdb) /\ CoordHolds(rdb, coord) /\ coord.up /\ CoordFields(coord)
  BY <1>1 DEF RollInv, CoordHolds
<1>3. JobsOnly(rdb, rdb') /\ \A k : k \in ActiveCards(rdb') <=> k \in ActiveCards(rdb) /\ rdb.closed[CardEpochOf(k)] = 0
  BY <1>1, <1>2, ClosedJobsEnd
<1>4. coord'.up /\ coord'.cache = coord.cache /\ coord'.source = coord.source /\ coord'.stage = "retire" /\ CoordFields(coord')
  BY <1>1, <1>2 DEF CoordFields
<1>5. StageHolds(rdb', coord')
  BY <1>1, <1>2, <1>3, <1>4 DEF CoordHolds, StageHolds, JobsOnly
<1>6. ClosureHolds(rdb', coord')
  BY <1>1, <1>2, <1>3, <1>4 DEF CoordHolds, ClosureHolds, JobsOnly
<1>7. CoordHolds(rdb', coord')
  BY <1>2, <1>3, <1>4, <1>5, <1>6 DEF CoordHolds, JobsOnly
<1>8. Grows(rdb, rdb')
  BY <1>2, <1>3, SameGrows DEF JobsOnly
<1> QED
  BY <1>1, <1>2, <1>3, <1>4, <1>7, <1>8, OthersStay DEF RollInv, JobsOnly
\* A card of the cache is superseded: it leaves the cache and the current cards together.
LEMMA CachedRetires ==
  ASSUME RollInv, NEW k, NEW next, SupersedeCached(k, next), coord.up
  PROVE  /\ DbHolds(rdb') /\ WithinSuffix(rdb') /\ Grows(rdb, rdb') /\ rdb'.log = rdb.log /\ rdb'.closed = rdb.closed
         /\ ActiveCards(rdb') = ActiveCards(rdb) /\ rdb'.current = VerifiedCurrent(rdb')
         /\ CurrentNewest(rdb') = CurrentNewest(rdb) \ {k}
         /\ coord' = [coord EXCEPT !.cache = coord.cache \ {k}, !.stage = next]
<1> DEFINE a == Recovered(rdb)
           s == SupersedeCards(a, {k})
           e == IF k \in a.current THEN s ELSE a
<1>1. rdb' = e /\ WithinSuffix(e) /\ coord' = [coord EXCEPT !.cache = coord.cache \ {k}, !.stage = next]
  BY DEF SupersedeCached
<1>2. DbHolds(rdb) /\ rdb.log \in Seq(Commands) /\ rdb.points \in Seq(Nat) /\ rdb.current = VerifiedCurrent(rdb) /\ Len(rdb.status) \in Nat
  BY DEF RollInv, CoordHolds, DbHolds, LogHolds, RowsHold, StatusesHold
<1>3. DbHolds(a) /\ SameTables(rdb, a) /\ a.current = VerifiedCurrent(rdb) /\ VerifiedCurrent(a) = VerifiedCurrent(rdb)
  BY <1>2, RecoveredHolds
<1> HIDE DEF a
<1>4. /\ DbHolds(e) /\ VerifiedCurrent(e) = VerifiedCurrent(rdb) \ {k} /\ e.current = rdb.current \ {k}
      /\ e.log = rdb.log /\ e.jobs = rdb.jobs /\ e.closed = rdb.closed /\ e.points = rdb.points
      /\ Len(rdb.status) <= Len(e.status) /\ (Len(e.status) = Len(rdb.status) => VerifiedCurrent(e) = VerifiedCurrent(rdb))
  <2>1. CASE k \in a.current
    <3>1. {k} \in SUBSET a.pubs
      BY <1>3, <2>1 DEF DbHolds, RowsHold
    <3>2. /\ DbHolds(s) /\ VerifiedCurrent(s) = VerifiedCurrent(a) \ {k} /\ s.current = a.current \ {k}
          /\ s.log = a.log /\ s.jobs = a.jobs /\ s.closed = a.closed /\ s.points = a.points
          /\ Len(a.status) <= Len(s.status) /\ (Len(s.status) = Len(a.status) => {k} = {})
      BY <1>3, <3>1, CardsRetire
    <3> HIDE DEF s
    <3> QED
      BY <1>2, <1>3, <2>1, <3>2 DEF SameTables
  <2>2. CASE k \notin a.current
    <3>1. e = a
      BY <2>2
    <3> HIDE DEF e
    <3> QED
      BY <1>2, <1>3, <2>2, <3>1 DEF SameTables
  <2> QED
    BY <2>1, <2>2
<1> HIDE DEF e
<1>5. Grows(rdb, e)
  <2>1. Continues(rdb.log, e.log) /\ Continues(rdb.points, e.points)
    BY <1>2, <1>4 DEF Continues
  <2> QED
    BY <2>1, <1>4 DEF Grows
<1>6. ActiveCards(e) = ActiveCards(rdb) /\ \A o : IsNewestScheduled(e, o) <=> IsNewestScheduled(rdb, o)
  BY <1>4, SameCards
<1>7. CurrentNewest(e) = CurrentNewest(rdb) \ {k}
  BY <1>4, <1>6 DEF CurrentNewest
<1> QED
  BY <1>1, <1>2, <1>4, <1>5, <1>6, <1>7

LEMMA RetireStep ==
  ASSUME RollInv, RetireCard PROVE RollInv'
<1> DEFINE ep == rdb.log[coord.source].who
           held == {k \in coord.cache : CardEpochOf(k) = ep}
<1>1. coord.stage = "retire" /\ UNCHANGED <<retained, anchored, refresh, damages>>
  BY DEF RetireCard
<1>2. DbHolds(rdb) /\ CoordHolds(rdb, coord) /\ coord.up /\ CoordFields(coord) /\ WithinSuffix(rdb)
  BY <1>1 DEF RollInv, CoordHolds
<1>3. CASE held = {}
  <2>1. rdb' = rdb /\ coord' = [coord EXCEPT !.stage = "complete", !.active = coord.cache]
    BY <1>3 DEF RetireCard
  <2>2. coord'.up /\ coord'.cache = coord.cache /\ coord'.source = coord.source /\ coord'.stage = "complete" /\ CoordFields(coord')
    BY <2>1, <1>2 DEF CoordFields
  <2>3. StageHolds(rdb, coord')
    BY <2>2, <1>1, <1>2 DEF CoordHolds, StageHolds
  <2>4. ClosureHolds(rdb, coord')
    BY <2>2, <1>1, <1>2, <1>3 DEF CoordHolds, ClosureHolds
  <2>5. CoordHolds(rdb, coord')
    BY <2>2, <2>3, <2>4, <1>2 DEF CoordHolds
  <2>6. Grows(rdb, rdb)
    BY <1>2, SameGrows
  <2> QED
    BY <2>1, <2>2, <2>5, <2>6, <1>1, <1>2, OthersStay DEF RollInv
<1>4. CASE held # {}
  <2>1. PICK k \in held : SupersedeCached(k, "retire")
    BY <1>4 DEF RetireCard
  <2>2. /\ DbHolds(rdb') /\ WithinSuffix(rdb') /\ Grows(rdb, rdb') /\ rdb'.log = rdb.log /\ rdb'.closed = rdb.closed
        /\ ActiveCards(rdb') = ActiveCards(rdb) /\ rdb'.current = VerifiedCurrent(rdb')
        /\ CurrentNewest(rdb') = CurrentNewest(rdb) \ {k}
        /\ coord' = [coord EXCEPT !.cache = coord.cache \ {k}, !.stage = "retire"]
    BY <2>1, <1>2, CachedRetires
  <2>3. coord'.up /\ coord'.cache = coord.cache \ {k} /\ coord'.source = coord.source /\ coord'.stage = "retire" /\ CoordFields(coord')
    BY <2>2, <1>2 DEF CoordFields
  <2>4. StageHolds(rdb', coord')
    BY <2>2, <2>3, <1>1, <1>2 DEF CoordHolds, StageHolds
  <2>5. CoordHolds(rdb', coord')
    BY <2>2, <2>3, <2>4, <1>1, <1>2, CoordStays DEF CoordHolds, ClosureHolds
  <2> QED
    BY <2>2, <2>3, <2>5, <1>1, OthersStay DEF RollInv
<1> QED
  BY <1>3, <1>4

\* A reaction that is not closing an epoch goes on over a database that has not gone against it.
LEMMA PlanStep ==
  ASSUME RollInv, coord.up, coord.stage \in {"plan", "supersede", "enqueue", "complete"},
         UNCHANGED <<retained, anchored, refresh, damages>>, WithinSuffix(rdb'), JobsOnly(rdb, rdb'),
         ActiveCards(rdb') \subseteq ActiveCards(rdb),
         CoordFields(coord'), coord'.up, coord'.cache = coord.cache, coord'.source = coord.source,
         coord'.stage \in {"idle", "supersede", "enqueue", "complete"},
         coord'.stage \in {"supersede", "enqueue"} => coord.stage \in {"plan", "supersede", "enqueue"}
  PROVE  RollInv'
<1>1. DbHolds(rdb) /\ CoordHolds(rdb, coord)
  BY DEF RollInv
<1>2. StageHolds(rdb', coord')
  BY <1>1 DEF CoordHolds, StageHolds, JobsOnly
<1>3. CoordHolds(rdb', coord')
  BY <1>1, <1>2, CoordStays DEF CoordHolds, ClosureHolds, JobsOnly
<1>4. Grows(rdb, rdb')
  BY <1>1, SameGrows DEF JobsOnly
<1> QED
  BY <1>3, <1>4, OthersStay DEF RollInv, JobsOnly

LEMMA GiveUpStep ==
  ASSUME RollInv, GiveUpPlan PROVE RollInv'
<1>1. /\ coord.stage = "enqueue" /\ coord' = [coord EXCEPT !.stage = "idle"] /\ rdb' = rdb
      /\ UNCHANGED <<retained, anchored, refresh, damages>>
  BY DEF GiveUpPlan
<1>2. coord.up /\ CoordFields(coord) /\ DbHolds(rdb) /\ WithinSuffix(rdb)
  BY <1>1 DEF RollInv, CoordHolds
<1>3. coord'.up /\ coord'.cache = coord.cache /\ coord'.source = coord.source /\ coord'.stage = "idle" /\ CoordFields(coord')
  BY <1>1, <1>2 DEF CoordFields
<1>4. JobsOnly(rdb, rdb)
  BY <1>2 DEF JobsOnly
<1>5. JobsOnly(rdb, rdb') /\ ActiveCards(rdb') \subseteq ActiveCards(rdb) /\ WithinSuffix(rdb')
  BY <1>1, <1>2, <1>4
<1> QED
  BY <1>1, <1>2, <1>3, <1>5, PlanStep

LEMMA CancelStep ==
  ASSUME RollInv, CancelCardJobs PROVE RollInv'
<1> DEFINE k == Candidate(rdb, coord.source)
           p == Planned(k)
           hit == p.invalidated \cap ActiveCards(rdb)
           e == AppendJobHistory([rdb EXCEPT !.jobs = Ended(rdb, hit)])
<1>1. coord.stage = "plan" /\ UNCHANGED <<retained, anchored, refresh, damages>>
  BY DEF CancelCardJobs
<1>2. coord.up /\ CoordFields(coord) /\ DbHolds(rdb) /\ WithinSuffix(rdb)
  BY <1>1 DEF RollInv, CoordHolds
<1>3. JobsOnly(rdb, rdb)
  BY <1>2 DEF JobsOnly
<1>4. CASE p.skip \/ k \in coord.cache
  <2>1. coord' = [coord EXCEPT !.stage = "complete"] /\ rdb' = rdb
    BY <1>4 DEF CancelCardJobs
  <2>2. coord'.up /\ coord'.cache = coord.cache /\ coord'.source = coord.source /\ coord'.stage = "complete" /\ CoordFields(coord')
    BY <2>1, <1>2 DEF CoordFields
  <2>3. JobsOnly(rdb, rdb') /\ ActiveCards(rdb') \subseteq ActiveCards(rdb) /\ WithinSuffix(rdb')
    BY <2>1, <1>2, <1>3
  <2> QED
    BY <1>1, <1>2, <2>2, <2>3, PlanStep
<1>5. CASE ~(p.skip \/ k \in coord.cache)
  <2>1. coord' = [coord EXCEPT !.stage = "supersede"] /\ WithinSuffix(rdb') /\ (rdb' = rdb \/ rdb' = e)
    BY <1>5 DEF CancelCardJobs, Ended
  <2> HIDE DEF hit, p
  <2>2. JobsOnly(rdb, e) /\ ActiveCards(e) = ActiveCards(rdb) \ hit
    BY <1>2, JobsEnd
  <2> HIDE DEF e
  <2>3. JobsOnly(rdb, rdb') /\ ActiveCards(rdb') \subseteq ActiveCards(rdb)
    BY <2>1, <2>2, <1>3
  <2>4. coord'.up /\ coord'.cache = coord.cache /\ coord'.source = coord.source /\ coord'.stage = "supersede" /\ CoordFields(coord')
    BY <2>1, <1>2 DEF CoordFields
  <2> QED
    BY <1>1, <1>2, <2>1, <2>3, <2>4, PlanStep
<1> QED
  BY <1>4, <1>5
LEMMA InvalidatedStep ==
  ASSUME RollInv, SupersedeInvalidated PROVE RollInv'
<1> DEFINE held == Planned(Candidate(rdb, coord.source)).invalidated \cap coord.cache
<1>1. coord.stage = "supersede" /\ UNCHANGED <<retained, anchored, refresh, damages>>
  BY DEF SupersedeInvalidated
<1>2. DbHolds(rdb) /\ CoordHolds(rdb, coord) /\ coord.up /\ CoordFields(coord) /\ WithinSuffix(rdb)
  BY <1>1 DEF RollInv, CoordHolds
<1>3. CASE held = {}
  <2>1. rdb' = rdb /\ coord' = [coord EXCEPT !.stage = "enqueue"]
    BY <1>3 DEF SupersedeInvalidated
  <2>2. coord'.up /\ coord'.cache = coord.cache /\ coord'.source = coord.source /\ coord'.stage = "enqueue" /\ CoordFields(coord')
    BY <2>1, <1>2 DEF CoordFields
  <2>3. JobsOnly(rdb, rdb)
    BY <1>2 DEF JobsOnly
  <2>4. JobsOnly(rdb, rdb') /\ ActiveCards(rdb') \subseteq ActiveCards(rdb) /\ WithinSuffix(rdb')
    BY <2>1, <2>3, <1>2
  <2> QED
    BY <2>2, <2>4, <1>1, <1>2, PlanStep
<1>4. CASE held # {}
  <2>1. PICK k \in held : SupersedeCached(k, "enqueue")
    BY <1>4 DEF SupersedeInvalidated
  <2> HIDE DEF held
  <2>2. /\ DbHolds(rdb') /\ WithinSuffix(rdb') /\ Grows(rdb, rdb') /\ rdb'.log = rdb.log /\ rdb'.closed = rdb.closed
        /\ ActiveCards(rdb') = ActiveCards(rdb) /\ rdb'.current = VerifiedCurrent(rdb')
        /\ CurrentNewest(rdb') = CurrentNewest(rdb) \ {k}
        /\ coord' = [coord EXCEPT !.cache = coord.cache \ {k}, !.stage = "enqueue"]
    BY <2>1, <1>2, CachedRetires
  <2>3. coord'.up /\ coord'.cache = coord.cache \ {k} /\ coord'.source = coord.source /\ coord'.stage = "enqueue" /\ CoordFields(coord')
    BY <2>2, <1>2 DEF CoordFields
  <2>4. StageHolds(rdb', coord')
    BY <2>2, <2>3, <1>1, <1>2 DEF CoordHolds, StageHolds
  <2>5. CoordHolds(rdb', coord')
    BY <2>2, <2>3, <2>4, <1>1, <1>2, CoordStays DEF CoordHolds, ClosureHolds
  <2> QED
    BY <2>2, <2>3, <2>5, <1>1, OthersStay DEF RollInv
<1> QED
  BY <1>3, <1>4

LEMMA EnqueueStep ==
  ASSUME RollInv, EnqueueComponents PROVE RollInv'
<1> DEFINE k == Candidate(rdb, coord.source)
           have == IF k \in DOMAIN rdb.jobs THEN rdb.jobs[k] ELSE "none"
           jobs == [o \in DOMAIN rdb.jobs \cup {k} |-> IF o # k THEN rdb.jobs[o] ELSE IF have = "none" THEN "partial" ELSE "active"]
           e == AppendJobHistory([rdb EXCEPT !.jobs = jobs])
           active == (coord.active \ ActiveCardOf(SubjectOf(k))) \cup {k}
           stage == IF have = "none" THEN "enqueue" ELSE "complete"
<1>1. /\ coord.stage = "enqueue" /\ UNCHANGED <<retained, anchored, refresh, damages>> /\ WithinSuffix(rdb')
      /\ rdb.closed[CardEpochOf(k)] = 0 /\ (rdb' = rdb \/ rdb' = e)
      /\ coord' = [coord EXCEPT !.active = active, !.stage = stage]
  BY DEF EnqueueComponents
<1>2. /\ coord.up /\ CoordFields(coord) /\ DbHolds(rdb) /\ CoordHolds(rdb, coord) /\ rdb.log \in Seq(Commands) /\ Len(rdb.log) <= MaxSources
      /\ DOMAIN rdb.jobs \in SUBSET Cards /\ rdb.current \in SUBSET DOMAIN rdb.jobs
  BY <1>1 DEF RollInv, CoordHolds, DbHolds, LogHolds, RowsHold
<1>3. k \in Cards
  <2>1. coord.source \in DOMAIN rdb.log /\ rdb.log[coord.source].kind = "result"
    BY <1>1, <1>2 DEF CoordHolds, StageHolds
  <2>2. rdb.log[coord.source] \in Commands
    BY <2>1, <1>2
  <2>3. rdb.log[coord.source].who \in CardSubjects
    BY <2>1, <2>2 DEF Commands
  <2>4. coord.source \in 1..MaxSources
    BY <2>1, <1>2, RollingAssumption DEF RollingAssumption
  <2> QED
    BY <2>3, <2>4 DEF Candidate, Cards
<1>4. coord'.up /\ coord'.cache = coord.cache /\ coord'.source = coord.source /\ coord'.stage = stage /\ CoordFields(coord')
  BY <1>1, <1>2 DEF CoordFields
<1>5. CASE rdb' = rdb
  <2>1. JobsOnly(rdb, rdb)
    BY <1>2 DEF JobsOnly
  <2>2. JobsOnly(rdb, rdb') /\ ActiveCards(rdb') \subseteq ActiveCards(rdb)
    BY <2>1, <1>5
  <2> QED
    BY <2>2, <1>1, <1>2, <1>4, PlanStep
<1>6. CASE rdb' = e
  <2>1. jobs = [o \in DOMAIN jobs |-> jobs[o]] /\ DOMAIN jobs = DOMAIN rdb.jobs \cup {k}
        /\ \A o \in DOMAIN rdb.jobs : o # k => jobs[o] = rdb.jobs[o]
    OBVIOUS
  <2> HIDE DEF jobs, k
  <2>2. /\ DbHolds(e) /\ VerifiedCurrent(e) = VerifiedCurrent(rdb) /\ e.jobs = jobs
        /\ e.log = rdb.log /\ e.status = rdb.status /\ e.current = rdb.current /\ e.closed = rdb.closed /\ e.points = rdb.points
    BY <2>1, <1>2, <1>3, JobsMove
  <2> HIDE DEF e
  <2>3. \A o \in ActiveCards(e) : o \in ActiveCards(rdb) \/ rdb.closed[CardEpochOf(o)] = 0
    BY <2>1, <2>2, <1>1 DEF ActiveCards
  <2>4. CurrentNewest(e) \subseteq CurrentNewest(rdb)
    <3>1. \A s : Scheduled(rdb, s) \subseteq Scheduled(e, s)
      BY <2>1, <2>2 DEF Scheduled
    <3> QED
      BY <3>1, <2>2, <1>2 DEF CurrentNewest, IsNewestScheduled
  <2>5. StageHolds(e, coord')
    BY <2>2, <1>1, <1>2, <1>4 DEF CoordHolds, StageHolds
  <2>6. CoordHolds(e, coord')
    BY <2>2, <2>3, <2>4, <2>5, <1>1, <1>2, <1>4, CoordStays DEF CoordHolds, ClosureHolds
  <2>7. Grows(rdb, e)
    BY <2>2, <1>2, SameGrows
  <2> QED
    BY <2>2, <2>6, <2>7, <1>1, <1>4, <1>6, OthersStay DEF RollInv
<1> QED
  BY <1>1, <1>5, <1>6

LEMMA CompleteStep ==
  ASSUME RollInv, CompleteReaction PROVE RollInv'
<1> DEFINE n == coord.source
           row == [source |-> n, cards |-> coord.plan]
           e == AppendDelta([rdb EXCEPT !.done = rdb.done \cup {row}], "reaction_completion", n)
<1>1. /\ coord.stage = "complete" /\ coord' = [coord EXCEPT !.stage = "idle"] /\ rdb' = e /\ WithinSuffix(e)
      /\ UNCHANGED <<retained, anchored, refresh, damages>>
  BY DEF CompleteReaction
<1>2. coord.up /\ CoordFields(coord) /\ DbHolds(rdb) /\ CoordHolds(rdb, coord) /\ rdb.log \in Seq(Commands)
  BY <1>1 DEF RollInv, CoordHolds, DbHolds, LogHolds
<1>3. n \in Nat \ {0} /\ row.source = n
  BY <1>1, <1>2 DEF CoordHolds, StageHolds
<1> HIDE DEF n, row
<1>4. /\ DbHolds(e) /\ VerifiedCurrent(e) = VerifiedCurrent(rdb) /\ e.log = rdb.log /\ e.jobs = rdb.jobs /\ e.pubs = rdb.pubs
      /\ e.status = rdb.status /\ e.closed = rdb.closed /\ e.points = rdb.points /\ e.current = rdb.current
  BY <1>2, <1>3, ReactionCompletes
<1> HIDE DEF e
<1>5. coord'.up /\ coord'.cache = coord.cache /\ coord'.source = coord.source /\ coord'.stage = "idle" /\ CoordFields(coord')
  BY <1>1, <1>2 DEF CoordFields
<1>6. ActiveCards(e) = ActiveCards(rdb) /\ CurrentNewest(e) = CurrentNewest(rdb)
  BY <1>4, SameCards
<1>7. StageHolds(e, coord')
  BY <1>5 DEF StageHolds
<1>8. CoordHolds(e, coord')
  BY <1>1, <1>2, <1>4, <1>5, <1>6, <1>7, CoordStays DEF CoordHolds, ClosureHolds
<1>9. Grows(rdb, e)
  BY <1>2, <1>4, SameGrows
<1> QED
  BY <1>1, <1>4, <1>5, <1>8, <1>9, OthersStay DEF RollInv

LEMMA WorkStep ==
  ASSUME RollInv, NEW k, WorkCard(k) PROVE RollInv'
<1> DEFINE jobs == [rdb.jobs EXCEPT ![k] = IF @ = "partial" THEN "cut" ELSE "ended"]
           e == AppendJobHistory([rdb EXCEPT !.jobs = jobs])
<1>1. rdb' = e /\ WithinSuffix(e) /\ UNCHANGED <<retained, anchored, coord, refresh, damages>> /\ k \in DOMAIN rdb.jobs
  BY DEF WorkCard, ActiveCards
<1>2. DbHolds(rdb) /\ CoordHolds(rdb, coord) /\ rdb.jobs = [o \in DOMAIN rdb.jobs |-> rdb.jobs[o]]
  BY DEF RollInv, DbHolds, RowsHold
<1>3. jobs = [o \in DOMAIN rdb.jobs |-> jobs[o]] /\ jobs[k] \in {"cut", "ended"} /\ \A o \in DOMAIN rdb.jobs : o # k => jobs[o] = rdb.jobs[o]
  BY <1>1, <1>2
<1> HIDE DEF jobs
<1>4. JobsOnly(rdb, e) /\ e.jobs = jobs
  BY <1>2, <1>3, JobsOnlyMove
<1> HIDE DEF e
<1>5. ActiveCards(e) \subseteq ActiveCards(rdb)
  BY <1>3, <1>4 DEF ActiveCards
<1>6. Grows(rdb, e)
  BY <1>2, <1>4, SameGrows DEF JobsOnly
<1>7. CoordHolds(e, coord)
  BY <1>2, <1>4, <1>5, <1>6, CoordUnmoved DEF JobsOnly, CoordHolds, Grows
<1> QED
  BY <1>1, <1>4, <1>6, <1>7, OthersStay DEF RollInv, JobsOnly

LEMMA ReadStep ==
  ASSUME RollInv, NEW k, SealRead(k) PROVE RollInv'
<1> DEFINE jobs == [rdb.jobs EXCEPT ![k] = "ended"]
           e == AppendJobHistory([rdb EXCEPT !.jobs = jobs])
<1>1. /\ coord.up /\ coord' = [coord EXCEPT !.sealing = k] /\ UNCHANGED <<retained, anchored, refresh, damages>>
      /\ k \in DOMAIN rdb.jobs /\ (rdb' = rdb \/ (rdb' = e /\ WithinSuffix(e)))
  BY DEF SealRead
<1>2. DbHolds(rdb) /\ CoordHolds(rdb, coord) /\ CoordFields(coord) /\ WithinSuffix(rdb) /\ rdb.jobs = [o \in DOMAIN rdb.jobs |-> rdb.jobs[o]]
  BY DEF RollInv, DbHolds, RowsHold, CoordHolds
<1>3. coord'.up /\ coord'.cache = coord.cache /\ coord'.source = coord.source /\ coord'.stage = coord.stage /\ CoordFields(coord')
  BY <1>1, <1>2 DEF CoordFields
<1>4. JobsOnly(rdb, rdb') /\ ActiveCards(rdb') \subseteq ActiveCards(rdb) /\ WithinSuffix(rdb')
  <2>1. CASE rdb' = rdb
    <3>1. JobsOnly(rdb, rdb)
      BY <1>2 DEF JobsOnly
    <3> QED
      BY <2>1, <3>1, <1>2
  <2>2. CASE rdb' = e /\ WithinSuffix(e)
    <3>1. jobs = [o \in DOMAIN rdb.jobs |-> jobs[o]] /\ jobs[k] = "ended" /\ \A o \in DOMAIN rdb.jobs : o # k => jobs[o] = rdb.jobs[o]
      BY <1>1, <1>2
    <3> HIDE DEF jobs
    <3>2. JobsOnly(rdb, e) /\ e.jobs = jobs
      BY <1>2, <3>1, JobsOnlyMove
    <3> HIDE DEF e
    <3>3. ActiveCards(e) \subseteq ActiveCards(rdb)
      BY <3>1, <3>2 DEF ActiveCards
    <3> QED
      BY <2>2, <3>2, <3>3
  <2> QED
    BY <1>1, <2>1, <2>2
<1>5. StageHolds(rdb', coord')
  BY <1>2, <1>3, <1>4 DEF CoordHolds, StageHolds, JobsOnly
<1>6. CoordHolds(rdb', coord')
  BY <1>1, <1>2, <1>3, <1>4, <1>5, CoordStays DEF CoordHolds, ClosureHolds, JobsOnly
<1>7. Grows(rdb, rdb')
  BY <1>2, <1>4, SameGrows DEF JobsOnly
<1> QED
  BY <1>1, <1>3, <1>4, <1>6, <1>7, OthersStay DEF RollInv, JobsOnly
LEMMA CommitStep ==
  ASSUME RollInv, SealCommit PROVE RollInv'
<1> DEFINE k == coord.sealing
           r == Recovered(rdb)
           prior == {o \in r.current : SubjectOf(o) = SubjectOf(k)}
           p == [r EXCEPT !.pubs = r.pubs \cup {k}]
           s == SupersedeCards(p, prior)
           d == AppendStatus([s EXCEPT !.current = s.current \cup {k}], k, TRUE)
           cache == {o \in coord.cache : SubjectOf(o) # SubjectOf(k)} \cup {k}
<1>1. UNCHANGED <<retained, anchored, refresh, damages>>
  BY DEF SealCommit
<1>2. DbHolds(rdb) /\ CoordHolds(rdb, coord) /\ CoordFields(coord) /\ WithinSuffix(rdb) /\ (coord.up => anchored)
  BY DEF RollInv, CoordHolds
<1>3. \/ rdb' = rdb /\ coord' = [coord EXCEPT !.sealing = NoCard]
      \/ /\ rdb' = d /\ WithinSuffix(d) /\ coord' = [coord EXCEPT !.cache = cache, !.active = cache, !.sealing = NoCard]
         /\ Publishable(rdb, k)
  BY DEF SealCommit
<1>4. CASE rdb' = rdb /\ coord' = [coord EXCEPT !.sealing = NoCard]
  <2>1. /\ coord'.up = coord.up /\ coord'.cache = coord.cache /\ coord'.source = coord.source /\ coord'.stage = coord.stage
        /\ CoordFields(coord')
    BY <1>2, <1>4 DEF CoordFields
  <2>2. StageHolds(rdb, coord')
    BY <2>1, <1>2 DEF CoordHolds, StageHolds
  <2>3. CoordHolds(rdb, coord')
    BY <2>1, <2>2, <1>2, CoordStays DEF CoordHolds, ClosureHolds
  <2>4. Grows(rdb, rdb)
    BY <1>2, SameGrows
  <2> QED
    BY <2>1, <2>3, <2>4, <1>1, <1>2, <1>4, OthersStay
<1>5. CASE /\ rdb' = d /\ WithinSuffix(d) /\ coord' = [coord EXCEPT !.cache = cache, !.active = cache, !.sealing = NoCard]
           /\ Publishable(rdb, k)
  <2>1. k \in DOMAIN rdb.jobs /\ rdb.closed[CardEpochOf(k)] = 0
    BY <1>5 DEF Publishable, IsNewestScheduled
  <2>2. DbHolds(r) /\ SameTables(rdb, r) /\ r.current = VerifiedCurrent(rdb) /\ VerifiedCurrent(r) = VerifiedCurrent(rdb)
    BY <1>2, RecoveredHolds
  <2> HIDE DEF r, k
  <2>3. /\ DbHolds(p) /\ VerifiedCurrent(p) = VerifiedCurrent(r) /\ p.pubs = r.pubs \cup {k}
        /\ p.log = r.log /\ p.jobs = r.jobs /\ p.status = r.status /\ p.closed = r.closed /\ p.points = r.points /\ p.current = r.current
    BY <2>1, <2>2, CardIsAdded DEF SameTables
  <2> HIDE DEF p
  <2>4. prior \in SUBSET p.pubs
    BY <2>3 DEF DbHolds, RowsHold
  <2>5. /\ DbHolds(s) /\ VerifiedCurrent(s) = VerifiedCurrent(p) \ prior /\ s.current = p.current \ prior /\ s.pubs = p.pubs
        /\ s.log = p.log /\ s.jobs = p.jobs /\ s.closed = p.closed /\ s.points = p.points /\ Len(p.status) <= Len(s.status)
    <3> HIDE DEF prior
    <3> QED
      BY <2>3, <2>4, CardsRetire
  <2> HIDE DEF s
  <2>6. k \in s.pubs /\ \A o \in VerifiedCurrent(s) : SubjectOf(o) = SubjectOf(k) => o = k
    BY <2>2, <2>3, <2>5
  <2>7. /\ DbHolds(d) /\ VerifiedCurrent(d) = VerifiedCurrent(s) \cup {k} /\ d.current = s.current \cup {k}
        /\ d.log = s.log /\ d.jobs = s.jobs /\ d.closed = s.closed /\ d.points = s.points /\ Len(d.status) = Len(s.status) + 1
    <3>1. DbHolds(s)
      BY <2>5
    <3> HIDE DEF prior, cache
    <3> QED
      BY <3>1, <2>6, CardBecomesCurrent
  <2> HIDE DEF d
  <2>8. /\ d.log = rdb.log /\ d.jobs = rdb.jobs /\ d.closed = rdb.closed /\ d.points = rdb.points /\ d.current = VerifiedCurrent(d)
        /\ d.current = (VerifiedCurrent(rdb) \ prior) \cup {k}
    BY <2>2, <2>3, <2>5, <2>7 DEF SameTables
  <2>9. Grows(rdb, d)
    <3>1. rdb.log \in Seq(Commands) /\ rdb.points \in Seq(Nat) /\ Len(rdb.status) \in Nat /\ Len(s.status) \in Nat /\ Len(d.status) \in Nat
      BY <1>2, <2>5, <2>7 DEF DbHolds, LogHolds, RowsHold, StatusesHold
    <3>2. Continues(rdb.log, d.log) /\ Continues(rdb.points, d.points)
      BY <2>8, <3>1 DEF Continues
    <3>3. Len(rdb.status) < Len(d.status)
      BY <2>2, <2>3, <2>5, <2>7, <3>1 DEF SameTables
    <3> QED
      BY <3>1, <3>2, <3>3 DEF Grows
  <2>10. coord'.up = coord.up /\ coord'.cache = cache /\ coord'.source = coord.source /\ coord'.stage = coord.stage /\ CoordFields(coord')
    <3> HIDE DEF cache
    <3> QED
      BY <1>2, <1>5 DEF CoordFields
  <2>11. StageHolds(d, coord')
    BY <2>8, <2>10, <1>2 DEF CoordHolds, StageHolds
  <2>12. ActiveCards(d) = ActiveCards(rdb) /\ \A o : IsNewestScheduled(d, o) <=> IsNewestScheduled(rdb, o)
    BY <2>8, SameCards
  <2>13. coord.up => \A o \in CurrentNewest(d) : o = k \/ (o \in CurrentNewest(rdb) /\ o \notin prior)
    BY <2>8, <2>12, <1>2 DEF CurrentNewest, CoordHolds
  <2>14. coord.up => CurrentNewest(d) \subseteq cache
    <3>1. coord.up => \A o \in CurrentNewest(rdb) : o \in coord.cache /\ (SubjectOf(o) = SubjectOf(k) => o \in prior)
      BY <1>2, <2>2 DEF CoordHolds, ClosureHolds, CurrentNewest
    <3> QED
      BY <2>13, <3>1
  <2>15. CoordHolds(d, coord')
    <3> HIDE DEF cache
    <3> QED
      BY <2>1, <2>8, <2>10, <2>11, <2>12, <2>13, <2>14, <1>2, CoordStays DEF CoordHolds
  <2> QED
    BY <2>7, <2>9, <2>10, <2>15, <1>1, <1>2, <1>5, OthersStay
<1> QED
  BY <1>3, <1>4, <1>5

LEMMA PrepareStep ==
  ASSUME RollInv, PrepareRefresh PROVE RollInv'
<1> DEFINE d == Recovered(rdb)
           m == Material(d)
           g == RefreshGuard(d)
<1>1. /\ rdb' = d /\ anchored /\ WithinSuffix(d) /\ UNCHANGED <<retained, anchored, coord, damages>>
      /\ refresh' = [at |-> "prepared", material |-> m, guard |-> g]
  BY DEF PrepareRefresh, CanRecover
<1>2. DbHolds(rdb) /\ CoordHolds(rdb, coord) /\ rdb.log \in Seq(Commands)
  BY DEF RollInv, DbHolds, LogHolds
<1>3. DbHolds(d) /\ SameTables(rdb, d) /\ d.current = VerifiedCurrent(rdb) /\ VerifiedCurrent(d) = VerifiedCurrent(rdb)
  BY <1>2, RecoveredHolds
<1> HIDE DEF d
<1>4. MaterialOf(d, m) /\ m.current = d.current
  BY <1>3, MaterialIsIts DEF Material
<1>5. g.log = Len(d.log) /\ g.status = Len(d.status) /\ g.hist = d.hist /\ g.active = ActiveCards(d) /\ g.pending = PendingPlans(d)
  BY DEF RefreshGuard
<1>6. Len(d.log) \in Nat /\ Len(d.status) \in Nat
  BY <1>3 DEF DbHolds, LogHolds, StatusesHold
<1> HIDE DEF m, g
<1>7. refresh'.at = "prepared" /\ refresh'.material = m /\ refresh'.guard = g
  BY <1>1
<1>8. RefreshHolds(d, refresh')
  BY <1>4, <1>5, <1>6, <1>7 DEF RefreshHolds, MaterialOf
<1>9. CoordHolds(d, coord)
  <2>1. Continues(rdb.log, d.log)
    BY <1>2, <1>3 DEF SameTables, Continues
  <2>2. coord.up => d.current = rdb.current /\ d.closed = rdb.closed /\ d.jobs = rdb.jobs
    BY <1>2, <1>3 DEF CoordHolds, SameTables
  <2>3. coord.up => ActiveCards(d) = ActiveCards(rdb) /\ CurrentNewest(d) = CurrentNewest(rdb)
    BY <2>2, SameCards
  <2> QED
    BY <1>2, <1>3, <2>1, <2>2, <2>3, CoordUnmoved
<1>10. RegistryHolds(d)
  BY <1>3 DEF RollInv, RegistryHolds, AnchorHolds, SameTables
<1> QED
  BY <1>1, <1>3, <1>8, <1>9, <1>10 DEF RollInv, RegistryHolds

\* A checkpoint of the material of this very database.
LEMMA PointStep ==
  ASSUME RollingAssumption, RollInv, NEW d, DbHolds(d), SameTables(rdb, d), d.current = rdb.current, NEW m, MaterialOf(d, m),
         rdb' = AppendCheckpoint(d, m), refresh' = NoRefresh, UNCHANGED <<retained, anchored, coord, damages>>
  PROVE  RollInv'
<1> DEFINE e == AppendCheckpoint(d, m)
<1>1. DbHolds(rdb) /\ CoordHolds(rdb, coord) /\ damages \in Nat /\ RegistryHolds(rdb) /\ (coord.up => anchored)
  BY DEF RollInv, RegistryHolds
<1>2. /\ DbHolds(e) /\ VerifiedCurrent(e) = VerifiedCurrent(d) /\ e.points = Append(d.points, damages) /\ e.suffix = <<>>
      /\ e.log = d.log /\ e.jobs = d.jobs /\ e.closed = d.closed /\ e.current = d.current /\ rdb' = e
  BY <1>1, CheckpointHolds
<1> HIDE DEF e
<1>3. WithinSuffix(e)
  BY <1>2 DEF WithinSuffix, RollingAssumption
<1>4. rdb.log \in Seq(Commands) /\ rdb.points \in Seq(Nat)
  BY <1>1 DEF DbHolds, LogHolds, RowsHold
<1>5. Continues(rdb.log, e.log) /\ Continues(rdb.points, e.points)
  BY <1>1, <1>2, <1>4 DEF SameTables, Continues
<1>6. RegistryHolds(rdb)'
  <2>1. anchored => AnchorHolds(e, retained)
    BY <1>1, <1>2, <1>5, AnchorStays DEF RegistryHolds
  <2> QED
    BY <1>1, <1>2, <2>1 DEF RegistryHolds
<1>7. VerifiedCurrent(d) = VerifiedCurrent(rdb)
  BY DEF VerifiedCurrent, SameTables
<1>8. CoordHolds(e, coord)
  <2>1. e.jobs = rdb.jobs /\ e.closed = rdb.closed /\ e.current = rdb.current
    BY <1>2 DEF SameTables
  <2>2. ActiveCards(e) = ActiveCards(rdb) /\ CurrentNewest(e) = CurrentNewest(rdb)
    BY <2>1, SameCards
  <2>3. coord.up => e.current = VerifiedCurrent(e)
    BY <1>1, <1>2, <1>7 DEF CoordHolds
  <2> QED
    BY <1>1, <1>2, <1>5, <2>1, <2>2, <2>3, CoordUnmoved
<1> QED
  BY <1>1, <1>2, <1>3, <1>6, <1>8 DEF RollInv, RefreshHolds

LEMMA RefreshStep ==
  ASSUME RollingAssumption, RollInv, CommitRefresh PROVE RollInv'
<1>1. refresh.at = "prepared" /\ refresh' = NoRefresh /\ UNCHANGED <<retained, anchored, coord, damages>>
  BY DEF CommitRefresh
<1>2. DbHolds(rdb) /\ WithinSuffix(rdb) /\ RefreshHolds(rdb, refresh) /\ refresh # NoRefresh
  BY <1>1 DEF RollInv, NoRefresh
<1>3. CASE RefreshGuard(rdb) = refresh.guard
  <2> DEFINE g == RefreshGuard(rdb)
             m == refresh.material
  <2>1. rdb' = AppendCheckpoint(rdb, m)
    BY <1>3 DEF CommitRefresh
  <2>2. g.log = Len(rdb.log) /\ g.status = Len(rdb.status) /\ g.hist = rdb.hist /\ g.active = ActiveCards(rdb) /\ g.pending = PendingPlans(rdb)
    BY DEF RefreshGuard
  <2> HIDE DEF g
  <2>3. MaterialOf(rdb, m)
    BY <1>2, <1>3, <2>2 DEF RefreshHolds, MaterialOf, g
  <2> QED
    BY <1>1, <1>2, <2>1, <2>3, PointStep DEF SameTables
<1>4. CASE RefreshGuard(rdb) # refresh.guard
  <2>1. rdb' = rdb
    BY <1>4 DEF CommitRefresh
  <2> QED
    BY <1>1, <2>1 DEF RollInv, RegistryHolds, RefreshHolds
<1> QED
  BY <1>3, <1>4
LEMMA PublishStep ==
  ASSUME RollInv, PublishHead PROVE RollInv'
<1> DEFINE d == Recovered(rdb)
<1>1. /\ rdb' = d /\ anchored /\ WithinSuffix(d) /\ AnchorHolds(rdb, retained) /\ UNCHANGED <<anchored, coord, refresh, damages>>
      /\ retained' = PublishedHead(retained, rdb) /\ refresh = NoRefresh
  BY DEF PublishHead, CanRecover, RestartVerified
<1>2. DbHolds(rdb) /\ CoordHolds(rdb, coord) /\ rdb.points \in Seq(Nat) /\ RegistryHolds(rdb) /\ rdb.log \in Seq(Commands)
  BY DEF RollInv, DbHolds, RowsHold, LogHolds
<1>3. DbHolds(d) /\ SameTables(rdb, d) /\ d.current = VerifiedCurrent(rdb) /\ VerifiedCurrent(d) = VerifiedCurrent(rdb)
  BY <1>2, RecoveredHolds
<1> HIDE DEF d
<1>4. RegistryHolds(rdb)'
  <2>1. retained' \in Seq(Nat) /\ AnchorHolds(d, retained')
    BY <1>1, <1>2, <1>3 DEF PublishedHead, AnchorHolds, SameTables, RegistryHolds
  <2> QED
    BY <1>1, <1>2, <2>1 DEF RegistryHolds
<1>5. CoordHolds(d, coord)
  <2>1. Continues(rdb.log, d.log)
    BY <1>2, <1>3 DEF SameTables, Continues
  <2>2. coord.up => d.current = rdb.current /\ d.closed = rdb.closed /\ d.jobs = rdb.jobs
    BY <1>2, <1>3 DEF CoordHolds, SameTables
  <2>3. coord.up => ActiveCards(d) = ActiveCards(rdb) /\ CurrentNewest(d) = CurrentNewest(rdb)
    BY <2>2, SameCards
  <2> QED
    BY <1>2, <1>3, <2>1, <2>2, <2>3, CoordUnmoved
<1> QED
  BY <1>1, <1>3, <1>4, <1>5 DEF RollInv, RefreshHolds

LEMMA AuditStep ==
  ASSUME RollingAssumption, RollInv, DeepAudit PROVE RollInv'
<1> DEFINE d == [rdb EXCEPT !.cursor = CursorOf(rdb)]
<1>1. /\ rdb.current = VerifiedCurrent(rdb) /\ rdb' = AppendCheckpoint(d, Material(d)) /\ refresh' = NoRefresh
      /\ UNCHANGED <<retained, anchored, coord, damages>>
  BY DEF DeepAudit
<1>2. DbHolds(rdb) /\ RdbFields(rdb) /\ rdb.current \in SUBSET rdb.pubs
  BY DEF RollInv, DbHolds, RowsHold
<1>3. RdbFields(d) /\ SameTables(rdb, d) /\ d.suffix = rdb.suffix /\ d.current = rdb.current
  BY <1>2 DEF RdbFields, SameTables
<1> HIDE DEF d
<1>4. DbHolds(d) /\ VerifiedCurrent(d) = VerifiedCurrent(rdb)
  BY <1>2, <1>3, SameRowsHold DEF SameTables
<1>5. MaterialOf(d, Material(d))
  BY <1>1, <1>3, <1>4, MaterialIsIts
<1> QED
  BY <1>1, <1>3, <1>4, <1>5, PointStep

LEMMA RebuildStep ==
  ASSUME RollInv, RebuildCurrent PROVE RollInv'
<1> DEFINE c == [rdb EXCEPT !.current = VerifiedCurrent(rdb)]
           e == IF rdb.status = <<>> THEN c ELSE AppendDelta(c, "rolling_status", Len(rdb.status))
<1>1. rdb.current # VerifiedCurrent(rdb) /\ rdb' = e /\ WithinSuffix(e) /\ UNCHANGED <<retained, anchored, coord, refresh, damages>>
  BY DEF RebuildCurrent
<1>2. DbHolds(rdb) /\ CoordHolds(rdb, coord) /\ ~coord.up
  BY <1>1 DEF RollInv, CoordHolds
<1>3. /\ DbHolds(e) /\ VerifiedCurrent(e) = VerifiedCurrent(rdb) /\ e.log = rdb.log /\ e.status = rdb.status /\ e.points = rdb.points
  BY <1>2, CurrentIsRebuilt
<1> HIDE DEF e
<1>4. Grows(rdb, e)
  BY <1>2, <1>3, SameGrows
<1>5. CoordHolds(e, coord)
  BY <1>2, <1>4, <1>3, CoordUnmoved DEF Grows
<1> QED
  BY <1>1, <1>2, <1>3, <1>4, <1>5, OthersStay

LEMMA LoseStep ==
  ASSUME RollInv, LoseProjection PROVE RollInv'
<1>1. PICK lost \in SUBSET rdb.pubs : rdb' = [rdb EXCEPT !.current = lost, !.cursor.through = 0]
  BY DEF LoseProjection
<1>2. ~coord.up /\ damages' = damages + 1 /\ UNCHANGED <<retained, anchored, coord, refresh>>
  BY DEF LoseProjection
<1>3. DbHolds(rdb) /\ RdbFields(rdb) /\ CoordHolds(rdb, coord) /\ rdb.log \in Seq(Commands)
  BY DEF RollInv, DbHolds, LogHolds
<1>4. RdbFields(rdb') /\ SameTables(rdb, rdb') /\ rdb'.suffix = rdb.suffix /\ rdb'.current = lost
  <2> DEFINE cursor == [rdb.cursor EXCEPT !.through = 0]
  <2>1. rdb' = [rdb EXCEPT !.current = lost, !.cursor = cursor]
    BY <1>1, <1>3 DEF RdbFields
  <2> HIDE DEF cursor
  <2> QED
    BY <2>1, <1>3 DEF RdbFields, SameTables
<1>5. DbHolds(rdb') /\ VerifiedCurrent(rdb') = VerifiedCurrent(rdb)
  BY <1>3, <1>4, SameRowsHold DEF SameTables
<1>6. Grows(rdb, rdb')
  BY <1>3, <1>4, <1>5, SameGrows DEF SameTables
<1>7. CoordHolds(rdb', coord)
  BY <1>2, <1>3, <1>5, <1>6, CoordUnmoved DEF Grows
<1>8. RefreshHolds(rdb', refresh)
  BY <1>3, <1>5, <1>6, RefreshStays DEF RollInv
<1>9. RegistryHolds(rdb)'
  BY <1>2, <1>4 DEF RollInv, RegistryHolds, AnchorHolds, SameTables
<1>10. WithinSuffix(rdb')
  BY <1>4 DEF RollInv, WithinSuffix
<1> QED
  BY <1>2, <1>5, <1>7, <1>8, <1>9, <1>10 DEF RollInv

LEMMA PutBackStep ==
  ASSUME RollingAssumption, RollInv, PutBackCopy PROVE RollInv'
<1>1. ~anchored /\ rdb' = EmptyRolling /\ damages' = damages + 1 /\ UNCHANGED <<retained, anchored, coord, refresh>>
  BY DEF PutBackCopy
<1>2. refresh = NoRefresh /\ ~coord.up /\ coord.stage = "idle" /\ CoordFields(coord) /\ damages \in Nat /\ retained \in Seq(Nat)
  BY <1>1 DEF RollInv, CoordHolds, RegistryHolds
<1>3. DbHolds(rdb') /\ WithinSuffix(rdb')
  BY <1>1, EmptyHolds
<1>4. CoordHolds(rdb', coord') /\ RefreshHolds(rdb', refresh')
  BY <1>1, <1>2 DEF CoordHolds, StageHolds, RefreshHolds
<1> QED
  BY <1>1, <1>2, <1>3, <1>4 DEF RollInv, RegistryHolds

LEMMA RollStarts ==
  ASSUME RollingAssumption, RollInit PROVE RollInv
<1>1. DbHolds(rdb) /\ WithinSuffix(rdb)
  BY EmptyHolds DEF RollInit
<1>2. CoordHolds(rdb, coord) /\ ~coord.up
  BY DEF RollInit, Down, CoordHolds, CoordFields, StageHolds
<1>3. RegistryHolds(rdb)
  <2>1. retained \in Seq(Nat) /\ damages \in Nat
    BY DEF RollInit
  <2>2. ~anchored /\ anchored \in BOOLEAN
    BY DEF RollInit
  <2> QED
    BY <2>1, <2>2 DEF RegistryHolds
<1> QED
  BY <1>1, <1>2, <1>3 DEF RollInit, RollInv, RefreshHolds

LEMMA RollSteps ==
  ASSUME RollingAssumption, RollInv, [RollNext]_rollVars PROVE RollInv'
<1>1. CASE \/ \E s \in CardSubjects : RecordResult(s)
           \/ \E ep \in CardEpochs : CloseRound(ep)
           \/ OtherCommand
  BY <1>1, CommandStep
<1>2. CASE \E n \in 1 .. MaxSources : DeadlinePasses(n)
  BY <1>2, DeadlineStep
<1>3. CASE OpenRepository \/ StartCoordinator \/ CrashRolling
  BY <1>3, OpenStep, StartStep, CrashStep
<1>4. CASE TakeReaction \/ CloseEpoch \/ SweepJobs \/ RetireCard
  BY <1>4, TakeStep, CloseStep, SweepStep, RetireStep
<1>5. CASE CancelCardJobs \/ SupersedeInvalidated \/ EnqueueComponents \/ GiveUpPlan \/ CompleteReaction
  BY <1>5, CancelStep, InvalidatedStep, EnqueueStep, GiveUpStep, CompleteStep
<1>6. CASE \E k \in Cards : WorkCard(k) \/ SealRead(k)
  BY <1>6, WorkStep, ReadStep
<1>7. CASE SealCommit
  BY <1>7, CommitStep
<1>8. CASE PrepareRefresh \/ CommitRefresh \/ PublishHead \/ DeepAudit
  BY <1>8, PrepareStep, RefreshStep, PublishStep, AuditStep
<1>9. CASE RebuildCurrent \/ LoseProjection \/ PutBackCopy
  BY <1>9, RebuildStep, LoseStep, PutBackStep
<1>10. CASE UNCHANGED rollVars
  BY <1>10 DEF rollVars, RollInv, RegistryHolds
<1> QED
  BY <1>1, <1>2, <1>3, <1>4, <1>5, <1>6, <1>7, <1>8, <1>9, <1>10 DEF RollNext

\* The invariant is inductive: the checkpoint and the suffix describe the tables, what the refresher
\* prepared is the material of an earlier state, and the cache holds the cards that closing an epoch
\* must retire.
THEOREM RollInductive == RollSpec => []RollInv
<1>1. RollInit => RollInv
  BY RollingAssumption, RollStarts
<1>2. RollInv /\ [RollNext]_rollVars => RollInv'
  BY RollingAssumption, RollSteps
<1> QED
  BY <1>1, <1>2, PTL DEF RollSpec

\* Restarting a rolling database: whatever the crashes, lost projections and interleaved refreshes
\* before it, a restart of intact signed rows verifies against the newest checkpoint and its bounded
\* suffix and restores exactly the cards the whole status history gives; nothing of a closed epoch is
\* left between two reactions; what the registry opened extends every head it retained
\* (_verify_rolling_restart_connection, close_epoch, ExternalRollingHeadRegistry).
THEOREM RestartStaysSound == RollSpec => []RestartIsSound
<1>1. RollInv => RestartIsSound
  <2> SUFFICES ASSUME RollInv PROVE RestartIsSound
    OBVIOUS
  <2>1. RestartSucceeds
    BY DatabaseRestarts DEF RollInv, RestartSucceeds
  <2>2. ClosedEpochsAreRetired
    BY DEF RollInv, CoordHolds, ClosureHolds, CurrentNewest, ClosedEpochsAreRetired
  <2>3. OpenedExtendsHead
    BY DEF RollInv, RegistryHolds, AnchorHolds, OpenedExtendsHead
  <2> QED
    BY <2>1, <2>2, <2>3 DEF RestartIsSound
<1> QED
  BY <1>1, RollInductive, PTL
-----------------------------------------------------------------------------
(* Only a seal publishes a card, and it publishes the newest one.          *)

LEMMA OthersPublishNothing ==
  ASSUME RollingAssumption, RollInv, [RollNext]_rollVars, ~SealCommit PROVE rdb'.pubs \subseteq rdb.pubs
<1> DEFINE r == Recovered(rdb)
<1>1. DbHolds(rdb) /\ RdbFields(rdb)
  BY DEF RollInv, DbHolds
<1>2. DbHolds(r) /\ r.pubs = rdb.pubs
  BY <1>1, RecoveredHolds DEF SameTables
<1> HIDE DEF r
<1>3. CASE \/ \E s \in CardSubjects : RecordResult(s)
           \/ \E ep \in CardEpochs : CloseRound(ep)
           \/ OtherCommand
  <2>1. PICK x : CommitCommand(x)
    BY <1>3 DEF RecordResult, CloseRound, OtherCommand
  <2> DEFINE g == [rdb EXCEPT !.log = Append(rdb.log, x)]
             cursor == CursorOf(g)
  <2>2. rdb' = [g EXCEPT !.cursor = cursor]
    BY <2>1 DEF CommitCommand
  <2> HIDE DEF cursor
  <2> QED
    BY <2>2, <1>1 DEF RdbFields
<1>4. CASE OpenRepository
  <2>1. rdb' = CloseEpochs(r)
    BY <1>4 DEF OpenRepository, r
  <2>2. CloseEpochs(r).pubs = r.pubs
    BY <1>2, EpochsClose
  <2> QED
    BY <2>1, <2>2, <1>2
<1>5. CASE StartCoordinator
  <2> DEFINE b == CancelClosedJobs(r)
             gone == {k \in b.current : b.closed[CardEpochOf(k)] # 0}
             swept == SupersedeCards(b, gone)
  <2>1. rdb' = Recovered(swept)
    BY <1>5 DEF StartCoordinator, SupersedeClosed, r
  <2>2. DbHolds(b) /\ b.pubs = r.pubs /\ b.current \in SUBSET b.pubs
    BY <1>2, ClosedJobsEnd DEF JobsOnly, DbHolds, RowsHold
  <2> HIDE DEF b
  <2>3. gone \in SUBSET b.pubs
    BY <2>2
  <2> HIDE DEF gone
  <2>4. DbHolds(swept) /\ swept.pubs = b.pubs
    BY <2>2, <2>3, CardsRetire
  <2> HIDE DEF swept
  <2> QED
    BY <2>1, <2>2, <2>4, <1>2, RecoveredHolds DEF SameTables
<1>6. CASE CloseEpoch
  <2>1. PICK x, n : rdb' = rdb \/ rdb' = AppendDelta([rdb EXCEPT !.closed = x], "epoch_closure", n)
    <3>1. [rdb EXCEPT !.closed[rdb.log[coord.source].who] = coord.source]
            = [rdb EXCEPT !.closed = [rdb.closed EXCEPT ![rdb.log[coord.source].who] = coord.source]]
      BY <1>1 DEF RdbFields
    <3> QED
      BY <3>1, <1>6 DEF CloseEpoch
  <2> QED
    BY <2>1, <1>1 DEF AppendDelta, RdbFields
<1>7. CASE SweepJobs
  BY <1>1, <1>7, ClosedJobsEnd DEF SweepJobs, JobsOnly
<1>8. ASSUME NEW k, NEW next, SupersedeCached(k, next) PROVE rdb'.pubs \subseteq rdb.pubs
  <2>1. rdb' = r \/ (k \in r.current /\ rdb' = SupersedeCards(r, {k}))
    BY <1>8 DEF SupersedeCached, r
  <2>2. k \in r.current => {k} \in SUBSET r.pubs
    BY <1>2 DEF DbHolds, RowsHold
  <2>3. k \in r.current => SupersedeCards(r, {k}).pubs = r.pubs
    BY <1>2, <2>2, CardsRetire
  <2> QED
    BY <2>1, <2>3, <1>2
<1>9. CASE RetireCard
  BY <1>8, <1>9 DEF RetireCard
<1>10. CASE SupersedeInvalidated
  BY <1>8, <1>10 DEF SupersedeInvalidated
<1>11. ASSUME NEW jobs, rdb' = AppendJobHistory([rdb EXCEPT !.jobs = jobs]) PROVE rdb'.pubs \subseteq rdb.pubs
  BY <1>1, <1>11 DEF AppendJobHistory, AppendDelta, RdbFields
<1>12. CASE CancelCardJobs
  <2>1. PICK jobs : rdb' = rdb \/ rdb' = AppendJobHistory([rdb EXCEPT !.jobs = jobs])
    BY <1>12 DEF CancelCardJobs
  <2> QED
    BY <2>1, <1>11
<1>13. CASE EnqueueComponents
  <2>1. PICK jobs : rdb' = rdb \/ rdb' = AppendJobHistory([rdb EXCEPT !.jobs = jobs])
    BY <1>13 DEF EnqueueComponents
  <2> QED
    BY <2>1, <1>11
<1>14. CASE CompleteReaction
  <2>1. PICK x, n : rdb' = AppendDelta([rdb EXCEPT !.done = x], "reaction_completion", n)
    BY <1>14 DEF CompleteReaction
  <2> QED
    BY <2>1, <1>1 DEF AppendDelta, RdbFields
<1>15. CASE \E k \in Cards : WorkCard(k) \/ SealRead(k)
  <2>1. PICK k, x : rdb' = rdb \/ rdb' = AppendJobHistory([rdb EXCEPT !.jobs = [rdb.jobs EXCEPT ![k] = x]])
    <3>1. \A k, x : [rdb EXCEPT !.jobs[k] = x] = [rdb EXCEPT !.jobs = [rdb.jobs EXCEPT ![k] = x]]
      BY <1>1 DEF RdbFields
    <3>2. PICK k \in Cards : WorkCard(k) \/ SealRead(k)
      BY <1>15
    <3>3. CASE WorkCard(k)
      BY <3>1, <3>3 DEF WorkCard
    <3>4. CASE SealRead(k)
      BY <3>1, <3>4 DEF SealRead
    <3> QED
      BY <3>2, <3>3, <3>4
  <2> QED
    BY <2>1, <1>11
<1>16. CASE PrepareRefresh \/ PublishHead
  BY <1>2, <1>16 DEF PrepareRefresh, PublishHead, r
<1>17. ASSUME NEW d, RdbFields(d), d.pubs = rdb.pubs, NEW m, rdb' = AppendCheckpoint(d, m) PROVE rdb'.pubs \subseteq rdb.pubs
  BY <1>17 DEF AppendCheckpoint, RdbFields
<1>18. CASE CommitRefresh
  <2>1. rdb' = rdb \/ rdb' = AppendCheckpoint(rdb, refresh.material)
    BY <1>18 DEF CommitRefresh
  <2> QED
    BY <2>1, <1>1, <1>17
<1>19. CASE DeepAudit
  <2> DEFINE d == [rdb EXCEPT !.cursor = CursorOf(rdb)]
  <2>1. rdb' = AppendCheckpoint(d, Material(d))
    BY <1>19 DEF DeepAudit
  <2>2. RdbFields(d) /\ d.pubs = rdb.pubs
    BY <1>1 DEF RdbFields
  <2> HIDE DEF d
  <2> QED
    BY <2>1, <2>2, <1>17
<1>20. CASE RebuildCurrent
  <2>1. PICK x : LET c == [rdb EXCEPT !.current = x] IN rdb' = c \/ rdb' = AppendDelta(c, "rolling_status", Len(rdb.status))
    BY <1>20 DEF RebuildCurrent
  <2> QED
    BY <2>1, <1>1 DEF AppendDelta, RdbFields
<1>21. CASE LoseProjection
  <2>1. PICK x : rdb' = [rdb EXCEPT !.current = x, !.cursor.through = 0]
    BY <1>21 DEF LoseProjection
  <2> DEFINE cursor == [rdb.cursor EXCEPT !.through = 0]
  <2>2. rdb' = [rdb EXCEPT !.current = x, !.cursor = cursor]
    BY <2>1, <1>1 DEF RdbFields
  <2> HIDE DEF cursor
  <2> QED
    BY <2>2, <1>1 DEF RdbFields
<1>22. CASE PutBackCopy
  BY <1>22 DEF PutBackCopy, EmptyRolling
<1>23. CASE \/ \E n \in 1 .. MaxSources : DeadlinePasses(n)
            \/ TakeReaction \/ GiveUpPlan \/ CrashRolling \/ UNCHANGED rollVars
  BY <1>23 DEF DeadlinePasses, TakeReaction, GiveUpPlan, CrashRolling, rollVars
<1> QED
  BY <1>3, <1>4, <1>5, <1>6, <1>7, <1>9, <1>10, <1>12, <1>13, <1>14, <1>15, <1>16, <1>18, <1>19, <1>20, <1>21, <1>22, <1>23
  DEF RollNext

LEMMA SealPublishesNewest ==
  ASSUME RollInv, SealCommit, NEW k \in rdb'.pubs \ rdb.pubs, NEW o \in (rdb.pubs \cup DOMAIN rdb.jobs) \ {k}, SubjectOf(o) = SubjectOf(k)
  PROVE  RevisionOf(o) < RevisionOf(k)
<1> DEFINE r == Recovered(rdb)
           prior == {x \in r.current : SubjectOf(x) = SubjectOf(coord.sealing)}
           p == [r EXCEPT !.pubs = r.pubs \cup {coord.sealing}]
           s == SupersedeCards(p, prior)
           q == [s EXCEPT !.current = s.current \cup {coord.sealing}]
           d == AppendStatus(q, coord.sealing, TRUE)
<1>1. rdb' = rdb \/ (rdb' = d /\ Publishable(rdb, coord.sealing))
  BY DEF SealCommit
<1>2. rdb' = d /\ Publishable(rdb, coord.sealing)
  BY <1>1
<1>3. DbHolds(rdb) /\ rdb.pubs \in SUBSET DOMAIN rdb.jobs /\ DOMAIN rdb.jobs \in SUBSET Cards
  BY DEF RollInv, DbHolds, RowsHold
<1>4. DbHolds(r) /\ r.pubs = rdb.pubs /\ r.jobs = rdb.jobs
  BY <1>3, RecoveredHolds DEF SameTables
<1> HIDE DEF r
<1>5. coord.sealing \in DOMAIN r.jobs
  BY <1>2, <1>4 DEF Publishable, IsNewestScheduled
<1>6. DbHolds(p) /\ p.pubs = rdb.pubs \cup {coord.sealing} /\ p.current = r.current
  BY <1>4, <1>5, CardIsAdded
<1> HIDE DEF p
<1>7. prior \in SUBSET p.pubs
  BY <1>6 DEF DbHolds, RowsHold
<1> HIDE DEF prior
<1>8. DbHolds(s) /\ s.pubs = p.pubs
  BY <1>6, <1>7, CardsRetire
<1> HIDE DEF s
<1>9. d.pubs = s.pubs
  BY <1>8 DEF DbHolds, RdbFields, AppendStatus, AppendDelta
<1> HIDE DEF d
<1>10. k = coord.sealing
  BY <1>2, <1>6, <1>8, <1>9
<1>11. o \in DOMAIN rdb.jobs /\ k \in DOMAIN rdb.jobs /\ RevisionOf(o) <= RevisionOf(k)
  BY <1>2, <1>3, <1>10 DEF Publishable, IsNewestScheduled, Scheduled
<1>12. o = <<o[1], o[2]>> /\ k = <<k[1], k[2]>> /\ o[2] \in Nat /\ k[2] \in Nat
  BY <1>3, <1>11 DEF Cards
<1> QED
  BY <1>11, <1>12 DEF SubjectOf, RevisionOf

\* A card is published only over older cards of its subject: a seal that read its jobs before a newer
\* card was scheduled, sealed or published commits nothing (commit_rolling_publication).
THEOREM PublicationNeverGoesBack == RollSpec => CurrentNeverGoesBack
<1> DEFINE Forward == \A k \in rdb'.pubs \ rdb.pubs : \A o \in (rdb.pubs \cup DOMAIN rdb.jobs) \ {k} :
                        SubjectOf(o) = SubjectOf(k) => RevisionOf(o) < RevisionOf(k)
<1>1. RollInv /\ [RollNext]_rollVars => Forward
  <2> SUFFICES ASSUME RollInv, [RollNext]_rollVars PROVE Forward
    OBVIOUS
  <2>1. CASE SealCommit
    BY <2>1, SealPublishesNewest
  <2>2. CASE ~SealCommit
    BY <2>2, RollingAssumption, OthersPublishNothing
  <2> QED
    BY <2>1, <2>2
<1>2. RollSpec => [][RollNext]_rollVars
  BY DEF RollSpec
<1> HIDE DEF Forward
<1>3. [][RollNext]_rollVars /\ []RollInv => [][Forward]_rollVars
  BY <1>1, PTL
<1> QED
  BY <1>2, <1>3, RollInductive, PTL DEF CurrentNeverGoesBack, Forward
=============================================================================
