-------------------------- MODULE EventStoreProofs --------------------------
(***************************************************************************)
(* Proofs about EventStore for any number of clients, database copies,     *)
(* aggregates and requests.                                                *)
(***************************************************************************)
EXTENDS EventStore, FiniteSetTheorems, TLAPS

\* The client and file tables are functions (their contents are described elsewhere).
Tables ==
  /\ db = [c \in Copies |-> db[c]]
  /\ work = [p \in Clients |-> work[p]]
  /\ prev = [p \in Clients |-> prev[p]]

\* The inductive invariant.
IInv == TypeOK /\ Tables /\ PastOfWitness /\ AckedIsAuthenticated

----------------------------------------------------------------------------
\* Concatenation keeps the first sequence as a prefix.
LEMMA ConcatExtends ==
  ASSUME NEW S, NEW s \in Seq(S), NEW t \in Seq(S)
  PROVE  /\ s \o t \in Seq(S)
         /\ Len(s \o t) = Len(s) + Len(t)
         /\ \A i \in 1..Len(s) : (s \o t)[i] = s[i]
OBVIOUS

\* The events that a validated request appends are event records.
LEMMA NewEventsType ==
  ASSUME NEW r \in Requests
  PROVE  NewEvents(r) \in Seq(EventRecords) /\ Len(NewEvents(r)) = Len(r.intents)
                                            /\ Len(r.intents) \in Nat /\ Len(r.intents) >= 1
<1>1. r.intents \in Seq(EventIntents) /\ Len(r.intents) > 0
      /\ r.expected \in [Aggregates -> Nat]
  BY RequestsAssumption DEF RequestOK
<1>2. DOMAIN r.intents = 1..Len(r.intents) /\ Len(r.intents) \in Nat
  BY <1>1
<1>3. \A i \in 1..Len(r.intents) :
        [cmd |-> r, agg |-> r.intents[i].agg, ver |-> r.expected[r.intents[i].agg] + 1,
         kind |-> r.intents[i].kind] \in EventRecords
  <2> TAKE i \in 1..Len(r.intents)
  <2>1. r.intents[i] \in EventIntents
    BY <1>1, <1>2
  <2>2. r.intents[i].agg \in Aggregates /\ r.intents[i].kind \in STRING
    BY <2>1 DEF EventIntents
  <2>3. r.expected[r.intents[i].agg] + 1 \in Nat
    BY <1>1, <2>2
  <2> QED
    BY <2>2, <2>3 DEF EventRecords
<1> QED
  BY <1>1, <1>2, <1>3 DEF NewEvents

\* A history's past is a past of every later history.
LEMMA WithinTransitive ==
  ASSUME NEW f, NEW g, NEW h, Within(f, g), Within(g, h), h.events \in Seq(EventRecords)
  PROVE  Within(f, h)
<1> DEFINE s == f.events  t == g.events  u == h.events
<1>1. s \in Seq(EventRecords) /\ t \in Seq(EventRecords) /\ u \in Seq(EventRecords)
      /\ Prefix(s, t) /\ Prefix(t, u)
  BY DEF Within
<1>2. f.results \subseteq h.results /\ f.bindings \subseteq h.bindings
  BY DEF Within
<1> HIDE DEF s, t, u
<1>3. Prefix(s, u)
  BY <1>1 DEF Prefix
<1> QED
  BY <1>1, <1>2, <1>3 DEF Within, s, u

\* One write extends the history and keeps one result per command id.
LEMMA OneWriteExtends ==
  ASSUME NEW f, NEW g, HistoryOK(f), OneWrite(f, g)
  PROVE  HistoryOK(g) /\ Within(f, g)
<1>1. CASE g.events = f.events /\ g.results = f.results
  <2>1. f.events \in Seq(EventRecords)
    BY DEF HistoryOK
  <2>2. Prefix(f.events, g.events)
    BY <1>1, <2>1 DEF Prefix
  <2> QED
    BY <1>1, <2>1, <2>2 DEF HistoryOK, OneWrite, Within
<1>2. CASE \E r \in Requests :
          /\ \A x \in f.results : x.cmd.key # r.key
          /\ g.events = f.events \o NewEvents(r)
          /\ g.results = f.results \cup
               {[cmd |-> r, first |-> Len(f.events) + 1, last |-> Len(f.events) + Len(r.intents)]}
  <2>1. PICK r \in Requests :
          /\ \A x \in f.results : x.cmd.key # r.key
          /\ g.events = f.events \o NewEvents(r)
          /\ g.results = f.results \cup
               {[cmd |-> r, first |-> Len(f.events) + 1, last |-> Len(f.events) + Len(r.intents)]}
    BY <1>2
  <2>2. NewEvents(r) \in Seq(EventRecords) /\ Len(NewEvents(r)) = Len(r.intents)
        /\ Len(r.intents) \in Nat /\ Len(r.intents) >= 1
    BY NewEventsType
  <2>3. f.events \in Seq(EventRecords) /\ Len(f.events) \in Nat
    BY DEF HistoryOK
  <2>4. g.events \in Seq(EventRecords) /\ Len(g.events) = Len(f.events) + Len(r.intents)
        /\ \A i \in 1..Len(f.events) : g.events[i] = f.events[i]
    <3>1. /\ f.events \o NewEvents(r) \in Seq(EventRecords)
          /\ Len(f.events \o NewEvents(r)) = Len(f.events) + Len(NewEvents(r))
          /\ \A i \in 1..Len(f.events) : (f.events \o NewEvents(r))[i] = f.events[i]
      BY <2>2, <2>3, ConcatExtends
    <3> QED
      BY <3>1, <2>1, <2>2
  <2> DEFINE n == Len(f.events)  m == Len(r.intents)  k == Len(g.events)
  <2>0. n \in Nat /\ m \in Nat /\ m >= 1 /\ k = n + m
    BY <2>2, <2>3, <2>4
  <2> HIDE DEF n, m, k
  <2>00. n <= k /\ k \in Nat /\ n + 1 <= n + m /\ n + 1 \in Nat
    BY <2>0
  <2>5. Within(f, g)
    <3>1. Prefix(f.events, g.events)
      <4>1. Len(f.events) <= Len(g.events)
        BY <2>00 DEF n, k
      <4> QED
        BY <4>1, <2>4, Zenon DEF Prefix
    <3>2. f.results \subseteq g.results /\ f.bindings \subseteq g.bindings
      BY <2>1 DEF OneWrite
    <3> QED
      BY <2>3, <3>1, <3>2 DEF Within
  <2>6. \A x \in g.results :
          x.first \in Nat /\ x.last \in Nat /\ x.first <= x.last /\ x.last <= Len(g.events)
    <3> TAKE x \in g.results
    <3> DEFINE u == x.first  v == x.last
    <3>1. CASE x \in f.results
      <4>1. u \in Nat /\ v \in Nat /\ u <= v /\ v <= n
        BY <3>1 DEF HistoryOK, n
      <4> HIDE DEF u, v
      <4>2. v <= k
        BY <4>1, <2>0
      <4> QED
        BY <4>1, <4>2 DEF u, v, k
    <3>2. CASE x = [cmd |-> r, first |-> n + 1, last |-> k]
      <4>1. u = n + 1 /\ v = k
        BY <3>2
      <4> HIDE DEF u, v
      <4>2. u \in Nat /\ v \in Nat /\ u <= v /\ v <= k
        BY <4>1, <2>0
      <4> QED
        BY <4>2 DEF u, v, k
    <3>3. [cmd |-> r, first |-> Len(f.events) + 1, last |-> Len(f.events) + Len(r.intents)]
          = [cmd |-> r, first |-> n + 1, last |-> k]
      BY <2>0 DEF n, m
    <3> QED
      BY <3>1, <3>2, <3>3, <2>1
  <2>7. \A x, y \in g.results :
          x # y => x.cmd.key # y.cmd.key /\ (x.last < y.first \/ y.last < x.first)
    <3> DEFINE new == [cmd |-> r, first |-> Len(f.events) + 1,
                       last |-> Len(f.events) + Len(r.intents)]
    <3>1. \A x \in f.results : x.cmd.key # new.cmd.key /\ x.last < new.first
      BY <2>1, <2>3 DEF HistoryOK
    <3>2. g.results = f.results \cup {new}
      BY <2>1
    <3> HIDE DEF new
    <3> QED
      BY <3>1, <3>2 DEF HistoryOK
  <2> QED
    BY <2>4, <2>5, <2>6, <2>7 DEF HistoryOK
<1> QED
  BY <1>1, <1>2 DEF OneWrite

----------------------------------------------------------------------------
\* Ending a call frees the client and nothing else.
LEMMA FinishType ==
  ASSUME TypeOK, NEW p \in Clients, NEW outcome \in Outcomes, Finish(p, outcome),
         witness'.gen \in Nat, UNCHANGED bound,
         writer' = [c \in Copies |-> IF writer[c] = p THEN None ELSE writer[c]]
  PROVE  TypeOK'
<1> USE NoneAssumption
<1>1. /\ witness'.gen \in Nat
      /\ bound' \in [Copies -> BOOLEAN]
      /\ writer' \in [Copies -> Clients \cup {None}]
      /\ phase' \in [Clients -> Phases]
      /\ at' \in [Clients -> Copies \cup {None}]
      /\ req' \in [Clients -> Requests \cup Reservations \cup {None}]
      /\ answer' \in [Clients -> Outcomes]
  BY DEF TypeOK, Finish, Phases
<1>2. \A q \in Clients :
        /\ phase'[q] = "idle" <=> at'[q] = None
        /\ phase'[q] # "idle" => req'[q] \in Requests \cup Reservations
        /\ phase'[q] \in {"execute", "lookup", "reading"} => req'[q] \in Requests
        /\ phase'[q] = "reserve" => req'[q] \in Reservations
  BY DEF TypeOK, Finish
<1>3. \A q \in Clients, c \in Copies :
        writer'[c] = q <=> at'[q] = c /\ phase'[q] \in {"prepared", "witnessed"}
  <2> TAKE q \in Clients, c \in Copies
  <2>1. CASE q = p
    BY <2>1 DEF TypeOK, Finish
  <2>2. CASE q # p
    BY <2>2 DEF TypeOK, Finish
  <2> QED BY <2>1, <2>2
<1> QED
  BY <1>1, <1>2, <1>3 DEF TypeOK

\* A client that ends its call while it waits or reads holds no lock.
LEMMA FinishWaiting ==
  ASSUME TypeOK, NEW p \in Clients, NEW outcome \in Outcomes, Finish(p, outcome),
         phase[p] \notin {"prepared", "witnessed"}, witness'.gen \in Nat, UNCHANGED <<bound, writer>>
  PROVE  TypeOK'
<1>1. writer' = [c \in Copies |-> IF writer[c] = p THEN None ELSE writer[c]]
  BY NoneAssumption DEF TypeOK
<1> QED
  BY <1>1, FinishType

\* A client that rolls back or commits releases the lock of its file, and only that.
LEMMA FinishWriting ==
  ASSUME TypeOK, NEW p \in Clients, NEW outcome \in Outcomes, Finish(p, outcome),
         phase[p] \in {"prepared", "witnessed"}, witness'.gen \in Nat, UNCHANGED bound,
         writer' = [writer EXCEPT ![at[p]] = None]
  PROVE  TypeOK'
<1>1. at[p] \in Copies
  BY DEF TypeOK, Phases
<1>2. \A c \in Copies : writer[c] = p <=> c = at[p]
  BY DEF TypeOK
<1>3. writer = [c \in Copies |-> writer[c]]
  BY DEF TypeOK
<1>4. writer' = [c \in Copies |-> IF writer[c] = p THEN None ELSE writer[c]]
  BY <1>1, <1>2, <1>3
<1> QED
  BY <1>4, FinishType

\* A client that starts its transaction takes the lock of its file.
LEMMA PrepareType ==
  ASSUME TypeOK, NEW p \in Clients, NEW d, Ready(p), Prepare(p, d)
  PROVE  TypeOK'
<1> USE NoneAssumption
<1>1. at[p] \in Copies /\ writer[at[p]] = None /\ phase[p] \in {"execute", "reserve"}
      /\ req[p] \in Requests \cup Reservations
  BY DEF TypeOK, Ready, Waiting, Phases
<1>2. /\ witness'.gen \in Nat
      /\ bound' \in [Copies -> BOOLEAN]
      /\ writer' \in [Copies -> Clients \cup {None}]
      /\ phase' \in [Clients -> Phases]
      /\ at' \in [Clients -> Copies \cup {None}]
      /\ req' \in [Clients -> Requests \cup Reservations \cup {None}]
      /\ answer' \in [Clients -> Outcomes]
  BY <1>1 DEF TypeOK, Prepare, Phases
<1>3. \A q \in Clients :
        /\ phase'[q] = "idle" <=> at'[q] = None
        /\ phase'[q] # "idle" => req'[q] \in Requests \cup Reservations
        /\ phase'[q] \in {"execute", "lookup", "reading"} => req'[q] \in Requests
        /\ phase'[q] = "reserve" => req'[q] \in Reservations
  BY <1>1 DEF TypeOK, Prepare
<1>4. \A q \in Clients, c \in Copies :
        writer'[c] = q <=> at'[q] = c /\ phase'[q] \in {"prepared", "witnessed"}
  BY <1>1 DEF TypeOK, Prepare
<1> QED
  BY <1>2, <1>3, <1>4 DEF TypeOK

\* Every action keeps the control state well formed.
LEMMA TypeStep == TypeOK /\ [Next]_vars => TypeOK'
<1> SUFFICES ASSUME TypeOK, [Next]_vars PROVE TypeOK'
  OBVIOUS
<1> USE NoneAssumption
<1>1. ASSUME NEW c \in Copies, Provision(c) PROVE TypeOK'
  BY <1>1 DEF TypeOK, Provision, clientVars
<1>8. ASSUME NEW c \in Copies, Startup(c) PROVE TypeOK'
  <2>1. bound' \in [Copies -> BOOLEAN]
    BY <1>8, Zenon DEF Startup, TypeOK
  <2>2. UNCHANGED <<witness, writer, phase, at, req, answer>>
    BY <1>8 DEF Startup, clientVars
  <2> QED
    BY <2>1, <2>2 DEF TypeOK
<1>2. ASSUME NEW c \in Copies, Crash(c) PROVE TypeOK'
  BY <1>2 DEF TypeOK, Crash, Phases, Outcomes
<1>3. ASSUME NEW a \in Copies, NEW b \in Copies, CopyFile(a, b) PROVE TypeOK'
  BY <1>3 DEF TypeOK, CopyFile, clientVars
<1>4. ASSUME NEW p \in Clients, NEW c \in Copies, NEW r \in Requests,
             NEW call \in {"execute", "lookup"}, Submit(p, c, call, r)
      PROVE  TypeOK'
  BY <1>4 DEF TypeOK, Submit, Phases, Outcomes
<1>5. ASSUME NEW p \in Clients, NEW c \in Copies, NEW r \in Reservations,
             Submit(p, c, "reserve", r)
      PROVE  TypeOK'
  BY <1>5 DEF TypeOK, Submit, Phases, Outcomes
<1>6. ASSUME NEW p \in Clients, Serve(p) PROVE TypeOK'
  <2>1. CASE Busy(p)
    BY <2>1, FinishWaiting DEF Busy, Outcomes, TypeOK
  <2>2. CASE Unbound(p)
    BY <2>2, FinishWaiting DEF Unbound, Waiting, Outcomes, TypeOK
  <2>3. CASE Untrusted(p)
    BY <2>3, FinishWaiting DEF Untrusted, Waiting, Outcomes, TypeOK
  <2>4. CASE ReturnStored(p)
    BY <2>4, FinishWaiting DEF ReturnStored, Ready, Waiting, Outcomes, TypeOK
  <2>5. CASE ReturnReserved(p)
    BY <2>5, FinishWaiting DEF ReturnReserved, Ready, Waiting, Outcomes, TypeOK
  <2>6. CASE Conflict(p)
    BY <2>6, FinishWaiting DEF Conflict, Ready, Waiting, Outcomes, TypeOK
  <2>7. CASE PrepareExecute(p) \/ PrepareReserve(p)
    BY <2>7, PrepareType DEF PrepareExecute, PrepareReserve
  <2>8. CASE AdvanceWitness(p)
    BY <2>8 DEF TypeOK, AdvanceWitness, Swap, Phases
  <2>9. CASE AdvanceRejected(p)
    BY <2>9, FinishWriting DEF AdvanceRejected, Rollback, Outcomes, TypeOK
  <2>10. CASE AdvanceUncertain(p)
    <3>1. witness'.gen \in Nat
      BY <2>10 DEF AdvanceUncertain, Swap, TypeOK
    <3> QED
      BY <3>1, <2>10, FinishWriting DEF AdvanceUncertain, Rollback, Outcomes
  <2>11. CASE Commit(p)
    <3>1. (IF req[p] \in Requests THEN "stored" ELSE "reserved") \in Outcomes
      BY DEF Outcomes
    <3> QED
      BY <3>1, <2>11, FinishWriting DEF Commit, TypeOK
  <2>12. CASE CommitFails(p)
    BY <2>12, FinishWriting DEF CommitFails, Rollback, Outcomes, TypeOK
  <2>13. CASE Snapshot(p)
    BY <2>13 DEF TypeOK, Snapshot, Phases
  <2>14. CASE LookupUntrusted(p)
    BY <2>14, FinishWaiting DEF LookupUntrusted, Outcomes, TypeOK
  <2>15. CASE LookupAnswer(p)
    <3>1. PICK outcome \in Outcomes : Finish(p, outcome)
      BY <2>15 DEF LookupAnswer, Outcomes
    <3> QED
      BY <3>1, <2>15, FinishWaiting DEF LookupAnswer, TypeOK
  <2> QED
    BY <1>6, <2>1, <2>2, <2>3, <2>4, <2>5, <2>6, <2>7, <2>8, <2>9, <2>10, <2>11, <2>12,
       <2>13, <2>14, <2>15 DEF Serve
<1>7. CASE UNCHANGED vars
  BY <1>7 DEF TypeOK, vars
<1> QED
  BY <1>1, <1>2, <1>3, <1>4, <1>5, <1>6, <1>7, <1>8 DEF Next

\* The control state is well formed and a file's write lock is held by exactly the client
\* whose transaction is open on it, for any number of clients and files.
THEOREM TypeCorrect == Spec => []TypeOK
<1>1. Init => TypeOK
  BY NoneAssumption DEF Init, TypeOK, NoWitness, Phases, Outcomes
<1> QED
  BY <1>1, TypeStep, PTL DEF Spec

----------------------------------------------------------------------------
\* What a step must respect for every database and transaction to stay a past of the witness.
LEMMA PastStep ==
  ASSUME PastOfWitness,
         witness' = witness \/ (witness'.gen # 0 /\ OneWrite(witness.facts, witness'.facts)),
         \A c \in Copies : \/ Within(Facts(db'[c]), witness.facts)
                           \/ Within(Facts(db'[c]), witness'.facts),
         \A p \in Clients :
           phase'[p] = "prepared" => OneWrite(prev'[p].facts, Facts(work'[p])),
         \A p \in Clients :
           phase'[p] \in {"witnessed", "reading"} =>
             \/ Within(Facts(work'[p]), witness.facts)
             \/ Within(Facts(work'[p]), witness'.facts)
  PROVE  PastOfWitness' /\ Within(witness.facts, witness'.facts)
<1>1. HistoryOK(witness.facts) /\ Within(witness.facts, witness.facts)
  BY DEF PastOfWitness, HistoryOK, Within, Prefix
<1>2. HistoryOK(witness'.facts) /\ Within(witness.facts, witness'.facts)
  BY <1>1, OneWriteExtends
<1>3. \A f : Within(f, witness.facts) => Within(f, witness'.facts)
  BY <1>2, WithinTransitive DEF HistoryOK
<1>4. witness'.gen = 0 => witness' = NoWitness
  BY DEF PastOfWitness
<1> QED
  BY <1>2, <1>3, <1>4 DEF PastOfWitness, HistoryOK, Facts, NoWitness, EmptyDatabase

\* A client that ends its call, with nothing committed and the witness as it was or one
\* write further.
LEMMA FinishSafe ==
  ASSUME IInv, NEW p \in Clients, NEW outcome, Finish(p, outcome), UNCHANGED db,
         witness' = witness \/ (witness'.gen # 0 /\ OneWrite(witness.facts, witness'.facts)),
         acked' \subseteq acked \cup witness.facts.results
  PROVE  Tables' /\ PastOfWitness' /\ AckedIsAuthenticated'
<1>1. Tables'
  BY DEF IInv, Tables, Finish
<1>2. \A q \in Clients :
        phase'[q] # "idle" => /\ q # p /\ phase'[q] = phase[q]
                              /\ work'[q] = work[q] /\ prev'[q] = prev[q]
  <2>1. phase = [q \in Clients |-> phase[q]]
    BY DEF IInv, TypeOK
  <2>2. /\ work = [q \in Clients |-> work[q]]
        /\ prev = [q \in Clients |-> prev[q]]
    BY DEF IInv, Tables
  <2> QED
    BY <2>1, <2>2 DEF Finish
<1>3. PastOfWitness' /\ Within(witness.facts, witness'.facts)
  BY <1>2, PastStep DEF IInv, PastOfWitness
<1> QED
  BY <1>1, <1>3 DEF IInv, AckedIsAuthenticated, Within

\* A request that passed every check is one write away from the witness it was checked
\* against.
LEMMA PrepareSafe ==
  ASSUME IInv, NEW p \in Clients, PrepareExecute(p) \/ PrepareReserve(p)
  PROVE  Tables' /\ PastOfWitness' /\ AckedIsAuthenticated'
<1> DEFINE d == db[at[p]]
<1>1. PICK e : Prepare(p, e) /\ OneWrite(Facts(d), Facts(e))
  <2>1. CASE PrepareExecute(p)
    <3>1. req[p] \in Requests
      BY <2>1 DEF PrepareExecute, IInv, TypeOK
    <3>2. \A x \in Facts(d).results : x.cmd.key # req[p].key
      BY <2>1 DEF PrepareExecute, Claims, Facts
    <3>3. OneWrite(Facts(d), Facts(Appended(d, req[p])))
      BY <3>1, <3>2 DEF OneWrite, Facts, Appended, ResultOf
    <3> QED
      BY <2>1, <3>3 DEF PrepareExecute
  <2>2. CASE PrepareReserve(p)
    <3>1. OneWrite(Facts(d), Facts(Reserved(d, req[p])))
      BY DEF OneWrite, Facts, Reserved
    <3> QED
      BY <2>2, <3>1 DEF PrepareReserve
  <2> QED
    BY <2>1, <2>2
<1>2. witness.facts = Facts(d)
  BY DEF PrepareExecute, PrepareReserve, Ready, WriteTrusted, Trusted, WitnessMatches
<1>3. Tables'
  BY <1>1 DEF IInv, Tables, Prepare
<1>4. \A q \in Clients :
        IF q = p THEN phase'[q] = "prepared" /\ work'[q] = e /\ prev'[q].facts = Facts(d)
        ELSE phase'[q] = phase[q] /\ work'[q] = work[q] /\ prev'[q] = prev[q]
  <2>1. phase = [q \in Clients |-> phase[q]]
    BY DEF IInv, TypeOK
  <2>2. /\ phase' = [phase EXCEPT ![p] = "prepared"]
        /\ work' = [work EXCEPT ![p] = e]
        /\ prev' = [prev EXCEPT ![p] = witness]
    BY <1>1 DEF Prepare
  <2>3. /\ work = [q \in Clients |-> work[q]]
        /\ prev = [q \in Clients |-> prev[q]]
    BY DEF IInv, Tables
  <2> QED
    BY <1>2, <2>1, <2>2, <2>3
<1>5. UNCHANGED <<db, witness, acked>>
  BY <1>1 DEF Prepare
<1>6. PastOfWitness'
  BY <1>1, <1>4, <1>5, PastStep DEF IInv, PastOfWitness
<1> QED
  BY <1>3, <1>5, <1>6 DEF IInv, AckedIsAuthenticated

\* A compare-and-swap that succeeds is one write on the whole history.
LEMMA SwapIsOneWrite ==
  ASSUME IInv, NEW p \in Clients, phase[p] = "prepared", Swap(p)
  PROVE  /\ witness'.gen # 0 /\ OneWrite(witness.facts, witness'.facts)
         /\ witness'.facts = Facts(work[p])
<1>1. witness = prev[p] /\ witness' = [gen |-> witness.gen + 1, facts |-> Facts(work[p])]
  BY DEF Swap
<1>2. OneWrite(prev[p].facts, Facts(work[p]))
  BY DEF IInv, PastOfWitness
<1>3. witness.gen + 1 # 0
  BY DEF IInv, TypeOK
<1> QED
  BY <1>1, <1>2, <1>3

\* Every action keeps the rest of the inductive invariant.
LEMMA SafetyStep == IInv /\ [Next]_vars => Tables' /\ PastOfWitness' /\ AckedIsAuthenticated'
<1> SUFFICES ASSUME IInv, [Next]_vars
             PROVE  Tables' /\ PastOfWitness' /\ AckedIsAuthenticated'
  OBVIOUS
<1> DEFINE Safe == Tables /\ PastOfWitness /\ AckedIsAuthenticated
<1>0. TypeOK /\ Tables /\ PastOfWitness /\ AckedIsAuthenticated
  BY DEF IInv
<1>1. ASSUME NEW c \in Copies, Provision(c) PROVE Safe'
  <2>1. witness = NoWitness
    BY <1>0, <1>1 DEF Provision, PastOfWitness
  <2>2. Within(Facts(db[c]), witness.facts)
    BY <1>0 DEF PastOfWitness
  <2>3. db[c].results = {} /\ db[c].bindings = {} /\ db[c].events = << >>
    BY <1>1, <2>1, <2>2 DEF Provision, Within, NoWitness, Facts, EmptyDatabase
  <2>4. witness'.facts.events = witness.facts.events
        /\ witness'.facts.results = witness.facts.results
        /\ witness'.facts.bindings = witness.facts.bindings /\ witness'.gen # 0
    BY <1>1, <2>1, <2>3 DEF Provision, NoWitness, Facts, EmptyDatabase
  <2>5. OneWrite(witness.facts, witness'.facts)
    BY <2>4 DEF OneWrite
  <2>6. UNCHANGED <<db, acked, phase, work, prev>>
    BY <1>1 DEF Provision, clientVars
  <2>7. PastOfWitness'
    BY <1>0, <2>4, <2>5, <2>6, PastStep DEF PastOfWitness
  <2> QED
    BY <1>0, <2>4, <2>6, <2>7 DEF Tables, AckedIsAuthenticated
<1>2. ASSUME NEW c \in Copies, Startup(c) PROVE Safe'
  <2>1. UNCHANGED <<witness, acked, phase, work, prev>>
    BY <1>2 DEF Startup, clientVars
  <2>2. \A e \in Copies : Facts(db'[e]) = Facts(db[e])
    BY <1>0, <1>2 DEF Startup, Tables, Facts, DeepCheckpoint
  <2>3. PastOfWitness'
    BY <1>0, <2>1, <2>2, PastStep DEF PastOfWitness
  <2> QED
    BY <1>0, <1>2, <2>1, <2>3 DEF Startup, Tables, AckedIsAuthenticated
<1>3. ASSUME NEW c \in Copies, Crash(c) PROVE Safe'
  <2>1. UNCHANGED <<db, witness, acked>>
    BY <1>3 DEF Crash
  <2>2. \A q \in Clients :
          phase'[q] # "idle" => /\ phase'[q] = phase[q]
                                /\ work'[q] = work[q] /\ prev'[q] = prev[q]
    BY <1>3 DEF Crash
  <2>3. PastOfWitness'
    BY <1>0, <2>1, <2>2, PastStep DEF PastOfWitness
  <2> QED
    BY <1>0, <1>3, <2>1, <2>3 DEF Crash, Tables, AckedIsAuthenticated
<1>4. ASSUME NEW a \in Copies, NEW b \in Copies, CopyFile(a, b) PROVE Safe'
  <2>1. UNCHANGED <<witness, acked, phase, work, prev>>
    BY <1>4 DEF CopyFile, clientVars
  <2>2. \A e \in Copies : db'[e] = db[e] \/ db'[e] = db[a]
    BY <1>0, <1>4 DEF CopyFile, Tables
  <2>3. PastOfWitness'
    BY <1>0, <2>1, <2>2, PastStep DEF PastOfWitness
  <2> QED
    BY <1>0, <1>4, <2>1, <2>3 DEF CopyFile, Tables, AckedIsAuthenticated
<1>5. ASSUME NEW p \in Clients, NEW c \in Copies, NEW r,
             NEW call \in {"execute", "lookup", "reserve"}, Submit(p, c, call, r)
      PROVE  Safe'
  <2>1. UNCHANGED <<db, witness, acked, work, prev>>
    BY <1>5 DEF Submit
  <2>2. \A q \in Clients : phase'[q] \in {"prepared", "witnessed", "reading"} => phase'[q] = phase[q]
    BY <1>0, <1>5 DEF Submit, TypeOK
  <2>3. PastOfWitness'
    BY <1>0, <2>1, <2>2, PastStep DEF PastOfWitness
  <2> QED
    BY <1>0, <2>1, <2>3 DEF Tables, AckedIsAuthenticated
<1>6. ASSUME NEW p \in Clients, Serve(p) PROVE Safe'
  <2>1. CASE Busy(p) \/ Unbound(p) \/ Untrusted(p) \/ ReturnReserved(p) \/ Conflict(p)
             \/ LookupUntrusted(p)
    BY <2>1, FinishSafe
       DEF Busy, Unbound, Untrusted, ReturnReserved, Conflict, LookupUntrusted
  <2>2. CASE ReturnStored(p)
    <3>1. witness.facts = Facts(db[at[p]])
      BY <2>2 DEF ReturnStored, Ready, WriteTrusted, Trusted, WitnessMatches
    <3>2. acked' \subseteq acked \cup witness.facts.results
      BY <2>2, <3>1 DEF ReturnStored, Claims, Facts
    <3> QED
      BY <2>2, <3>2, FinishSafe DEF ReturnStored
  <2>3. CASE PrepareExecute(p) \/ PrepareReserve(p)
    BY <2>3, PrepareSafe
  <2>4. CASE AdvanceWitness(p)
    <3>1. witness'.gen # 0 /\ OneWrite(witness.facts, witness'.facts)
          /\ witness'.facts = Facts(work[p])
      BY <2>4, SwapIsOneWrite DEF AdvanceWitness
    <3>2. UNCHANGED <<db, work, prev, acked>>
      BY <2>4 DEF AdvanceWitness
    <3>3. \A q \in Clients : IF q = p THEN phase'[q] = "witnessed" ELSE phase'[q] = phase[q]
      BY <1>0, <2>4 DEF AdvanceWitness, TypeOK
    <3>4. HistoryOK(witness'.facts)
      BY <1>0, <3>1, OneWriteExtends DEF PastOfWitness
    <3>5. Within(witness'.facts, witness'.facts)
      BY <3>4 DEF HistoryOK, Within, Prefix
    <3>6. PastOfWitness' /\ Within(witness.facts, witness'.facts)
      BY <1>0, <3>1, <3>2, <3>3, <3>5, PastStep DEF PastOfWitness
    <3> QED
      BY <1>0, <3>2, <3>6 DEF Tables, AckedIsAuthenticated, Within
  <2>5. CASE AdvanceRejected(p) \/ CommitFails(p)
    BY <2>5, FinishSafe DEF AdvanceRejected, CommitFails, Rollback
  <2>6. CASE AdvanceUncertain(p)
    <3>1. witness' = witness \/ (witness'.gen # 0 /\ OneWrite(witness.facts, witness'.facts))
      BY <2>6, SwapIsOneWrite DEF AdvanceUncertain
    <3> QED
      BY <2>6, <3>1, FinishSafe DEF AdvanceUncertain, Rollback
  <2>7. CASE Commit(p)
    <3>1. Within(Facts(work[p]), witness.facts)
      BY <1>0, <2>7 DEF Commit, PastOfWitness
    <3>2. \A c \in Copies : db'[c] = db[c] \/ db'[c] = work[p]
      BY <1>0, <2>7 DEF Commit, Tables
    <3>3. UNCHANGED witness /\ acked' \subseteq acked \cup work[p].results
      BY <2>7 DEF Commit
    <3>4. \A q \in Clients :
            phase'[q] # "idle" => /\ phase'[q] = phase[q]
                                  /\ work'[q] = work[q] /\ prev'[q] = prev[q]
      <4>1. phase = [q \in Clients |-> phase[q]]
        BY <1>0 DEF TypeOK
      <4>2. /\ work = [q \in Clients |-> work[q]]
            /\ prev = [q \in Clients |-> prev[q]]
        BY <1>0 DEF Tables
      <4> QED
        BY <2>7, <4>1, <4>2 DEF Commit, Finish
    <3>5. PastOfWitness'
      BY <1>0, <3>1, <3>2, <3>3, <3>4, PastStep DEF PastOfWitness
    <3>6. Tables'
      BY <1>0, <2>7 DEF Commit, Finish, Tables
    <3> QED
      BY <1>0, <3>1, <3>3, <3>5, <3>6 DEF AckedIsAuthenticated, Within, Facts
  <2>8. CASE Snapshot(p)
    <3>1. UNCHANGED <<db, witness, prev, acked>>
      BY <2>8 DEF Snapshot
    <3>2. at[p] \in Copies
      BY <1>0, <2>8 DEF Snapshot, TypeOK
    <3>3. \A q \in Clients : IF q = p THEN phase'[q] = "reading" /\ work'[q] = db[at[p]]
                             ELSE phase'[q] = phase[q] /\ work'[q] = work[q]
      BY <1>0, <2>8 DEF Snapshot, TypeOK, Tables
    <3>4. PastOfWitness'
      BY <1>0, <3>1, <3>2, <3>3, PastStep DEF PastOfWitness
    <3> QED
      BY <1>0, <2>8, <3>1, <3>4 DEF Snapshot, Tables, AckedIsAuthenticated
  <2>9. CASE LookupAnswer(p)
    <3>1. witness.facts = Facts(work[p])
      BY <2>9 DEF LookupAnswer, ReadTrusted, Trusted, WitnessMatches
    <3>2. acked' \subseteq acked \cup witness.facts.results
      BY <2>9, <3>1 DEF LookupAnswer, Claims, Facts
    <3>3. PICK outcome : Finish(p, outcome)
      BY <2>9 DEF LookupAnswer
    <3> QED
      BY <2>9, <3>2, <3>3, FinishSafe DEF LookupAnswer
  <2> QED
    BY <1>6, <2>1, <2>2, <2>3, <2>4, <2>5, <2>6, <2>7, <2>8, <2>9 DEF Serve
<1>7. CASE UNCHANGED vars
  BY <1>0, <1>7 DEF vars, Tables, PastOfWitness, AckedIsAuthenticated
<1> QED
  BY <1>1, <1>2, <1>3, <1>4, <1>5, <1>6, <1>7 DEF Next

\* At the start every file is the empty past of an unprovisioned witness.
LEMMA InitSafe == Init => IInv
<1> SUFFICES ASSUME Init PROVE IInv
  OBVIOUS
<1>1. TypeOK
  BY NoneAssumption DEF Init, TypeOK, NoWitness, Phases, Outcomes
<1>2. Tables
  BY DEF Init, Tables
<1>3. \A c \in Copies : Facts(db[c]) = witness.facts
  BY DEF Init, NoWitness
<1>4. witness.facts.events = << >> /\ witness.facts.results = {} /\ witness.facts.bindings = {}
  BY DEF Init, NoWitness, Facts, EmptyDatabase
<1>5. HistoryOK(witness.facts) /\ Within(witness.facts, witness.facts)
  BY <1>4 DEF HistoryOK, Within, Prefix
<1>6. PastOfWitness
  BY <1>3, <1>5 DEF Init, PastOfWitness
<1>7. AckedIsAuthenticated
  BY DEF Init, AckedIsAuthenticated
<1> QED
  BY <1>1, <1>2, <1>6, <1>7 DEF IInv

\* The inductive invariant holds in every reachable state.
THEOREM Inductive == Spec => []IInv
<1>1. IInv /\ [Next]_vars => IInv'
  BY TypeStep, SafetyStep DEF IInv
<1> QED
  BY <1>1, InitSafe, PTL DEF Spec

\* Every result a caller was given is in the authenticated history.
THEOREM AckedAuthenticated == Spec => []AckedIsAuthenticated
<1>1. IInv => AckedIsAuthenticated
  BY DEF IInv
<1> QED
  BY <1>1, Inductive, PTL

\* A database file that passes verification holds every result a caller was given.
THEOREM AcknowledgedNotLost == Spec => []NoAcknowledgedLoss
<1>1. IInv => NoAcknowledgedLoss
  BY DEF IInv, AckedIsAuthenticated, NoAcknowledgedLoss, Trusted, WitnessMatches, Facts
<1> QED
  BY <1>1, Inductive, PTL

\* A command id is answered with one result, on sequence numbers of its own.
THEOREM AnsweredExactlyOnce == Spec => []ExactlyOnce
<1>1. IInv => ExactlyOnce
  BY DEF IInv, AckedIsAuthenticated, PastOfWitness, HistoryOK, ExactlyOnce
<1> QED
  BY <1>1, Inductive, PTL

\* No committed database leaves the authenticated history.
THEOREM WitnessLeads == Spec => []NeverAheadOfWitness
<1>1. IInv => NeverAheadOfWitness
  <2> SUFFICES ASSUME IInv, NEW c \in Copies
               PROVE  /\ Prefix(db[c].events, witness.facts.events)
                      /\ db[c].results \subseteq witness.facts.results
    BY DEF NeverAheadOfWitness
  <2>1. Within(Facts(db[c]), witness.facts)
    BY DEF IInv, PastOfWitness
  <2>2. Facts(db[c]).events = db[c].events /\ Facts(db[c]).results = db[c].results
    BY DEF Facts
  <2> QED
    BY <2>1, <2>2 DEF Within
<1> QED
  BY <1>1, Inductive, PTL

----------------------------------------------------------------------------
\* A step either leaves the witness alone, and may answer callers, or advances it by one
\* write, and answers nobody.
LEMMA WitnessStep ==
  ASSUME IInv, [Next]_vars
  PROVE  \/ witness' = witness /\ acked \subseteq acked'
         \/ /\ witness'.gen = witness.gen + 1
            /\ OneWrite(witness.facts, witness'.facts)
            /\ acked' = acked
<1> DEFINE Quiet == witness' = witness /\ acked \subseteq acked'
           Advance == /\ witness'.gen = witness.gen + 1
                      /\ OneWrite(witness.facts, witness'.facts)
                      /\ acked' = acked
<1>1. ASSUME NEW c \in Copies, Provision(c) PROVE Advance
  <2>1. witness = NoWitness /\ Within(Facts(db[c]), witness.facts)
    BY <1>1 DEF Provision, IInv, PastOfWitness
  <2>2. db[c].results = {} /\ db[c].bindings = {} /\ db[c].events = << >>
    BY <1>1, <2>1 DEF Provision, Within, NoWitness, Facts, EmptyDatabase
  <2>3. witness'.facts.events = witness.facts.events
        /\ witness'.facts.results = witness.facts.results
        /\ witness'.facts.bindings = witness.facts.bindings
        /\ witness'.gen = witness.gen + 1
    BY <1>1, <2>1, <2>2 DEF Provision, NoWitness, Facts, EmptyDatabase
  <2> QED
    BY <1>1, <2>3 DEF Provision, OneWrite
<1>2. ASSUME NEW c \in Copies, Startup(c) \/ Crash(c) PROVE Quiet
  BY <1>2 DEF Startup, Crash
<1>3. ASSUME NEW a \in Copies, NEW b \in Copies, CopyFile(a, b) PROVE Quiet
  BY <1>3 DEF CopyFile
<1>4. ASSUME NEW p \in Clients, NEW c \in Copies, NEW r, NEW call, Submit(p, c, call, r)
      PROVE  Quiet
  BY <1>4 DEF Submit
<1>5. ASSUME NEW p \in Clients, Serve(p) PROVE Quiet \/ Advance
  <2>1. CASE Busy(p) \/ Unbound(p) \/ Untrusted(p) \/ ReturnStored(p) \/ ReturnReserved(p)
             \/ Conflict(p)
    BY <2>1 DEF Busy, Unbound, Untrusted, ReturnStored, ReturnReserved, Conflict
  <2>2. CASE PrepareExecute(p) \/ PrepareReserve(p)
    BY <2>2 DEF PrepareExecute, PrepareReserve, Prepare
  <2>3. CASE Snapshot(p) \/ LookupUntrusted(p) \/ LookupAnswer(p)
    BY <2>3 DEF Snapshot, LookupUntrusted, LookupAnswer
  <2>4. CASE AdvanceRejected(p) \/ CommitFails(p) \/ Commit(p)
    BY <2>4 DEF AdvanceRejected, CommitFails, Commit, Rollback
  <2>5. CASE AdvanceWitness(p) \/ AdvanceUncertain(p)
    <3>1. acked' = acked /\ (Swap(p) \/ witness' = witness) /\ phase[p] = "prepared"
      BY <2>5 DEF AdvanceWitness, AdvanceUncertain, Rollback
    <3>2. CASE Swap(p)
      BY <3>1, <3>2, SwapIsOneWrite DEF Swap
    <3> QED
      BY <3>1, <3>2
  <2> QED
    BY <1>5, <2>1, <2>2, <2>3, <2>4, <2>5 DEF Serve
<1>6. CASE UNCHANGED vars
  BY <1>6 DEF vars
<1> QED
  BY <1>1, <1>2, <1>3, <1>4, <1>5, <1>6 DEF Next

\* The authenticated history is append only, one generation per step.
THEOREM HistoryGrows == Spec => HistoryOnlyExtends
<1>1. ASSUME IInv, [Next]_vars
      PROVE  [witness' # witness =>
                /\ witness'.gen = witness.gen + 1
                /\ Prefix(witness.facts.events, witness'.facts.events)
                /\ witness.facts.results \subseteq witness'.facts.results
                /\ witness.facts.bindings \subseteq witness'.facts.bindings]_vars
  <2> SUFFICES ASSUME witness' # witness
               PROVE  /\ witness'.gen = witness.gen + 1
                      /\ Within(witness.facts, witness'.facts)
    BY DEF Within
  <2>1. witness'.gen = witness.gen + 1 /\ OneWrite(witness.facts, witness'.facts)
    BY <1>1, WitnessStep
  <2>2. HistoryOK(witness.facts)
    BY <1>1 DEF IInv, PastOfWitness
  <2> QED
    BY <2>1, <2>2, OneWriteExtends
<1> QED
  BY <1>1, Inductive, PTL DEF Spec, HistoryOnlyExtends

\* The store with its crashes, forks and lost answers implements the one-line ledger: an
\* accepted generation decides a command, every other step is a stutter or an answer.
THEOREM StoreImplementsLedger == Spec => ImplementsLedger
<1>1. Init => Ledger!LedgerInit
  BY DEF Init, NoWitness, Facts, EmptyDatabase, Ledger!LedgerInit
<1>2. ASSUME IInv, IInv', [Next]_vars PROVE [Ledger!LedgerNext]_(Ledger!ledgerVars)
  <2>1. CASE witness' = witness /\ acked \subseteq acked'
    <3>1. acked' \subseteq witness.facts.results
      BY <1>2, <2>1 DEF IInv, AckedIsAuthenticated
    <3>2. Ledger!Give
      BY <2>1, <3>1 DEF Ledger!Give
    <3> QED
      BY <3>2 DEF Ledger!LedgerNext
  <2>2. CASE OneWrite(witness.facts, witness'.facts) /\ acked' = acked
    <3>1. CASE witness'.facts.events = witness.facts.events
               /\ witness'.facts.results = witness.facts.results
      BY <2>2, <3>1 DEF Ledger!ledgerVars
    <3>2. ASSUME NEW r \in Requests,
                 \A x \in witness.facts.results : x.cmd.key # r.key,
                 witness'.facts.events = witness.facts.events \o NewEvents(r),
                 witness'.facts.results = witness.facts.results \cup
                   {[cmd |-> r, first |-> Len(witness.facts.events) + 1,
                     last |-> Len(witness.facts.events) + Len(r.intents)]}
          PROVE  Ledger!Decide(r)
      <4>1. witness.facts.events \in Seq(EventRecords)
        BY <1>2 DEF IInv, PastOfWitness, HistoryOK
      <4>2. Len(witness'.facts.events) = Len(witness.facts.events) + Len(NewEvents(r))
        BY <3>2, <4>1, NewEventsType, ConcatExtends
      <4> QED
        BY <2>2, <3>2, <4>2, NewEventsType DEF Ledger!Decide
    <3> QED
      BY <2>2, <3>1, <3>2 DEF OneWrite, Ledger!LedgerNext
  <2> QED
    BY <1>2, <2>1, <2>2, WitnessStep
<1> QED
  BY <1>1, <1>2, Inductive, PTL DEF Spec, ImplementsLedger, Ledger!LedgerSpec

----------------------------------------------------------------------------
(* What a caller is told was committed before.                             *)

\* A call that has its transaction or its snapshot open is in a process that serves its file, so
\* that nobody puts another file in its place: the transaction extends the file as it still is,
\* and what the snapshot read is still in it.
OpenCallHolds(p) ==
  /\ phase[p] \in {"lookup", "reading", "prepared", "witnessed"} => bound[at[p]]
  /\ phase[p] = "reading" => work[p].results \subseteq db[at[p]].results
  /\ phase[p] \in {"prepared", "witnessed"} => db[at[p]].results \subseteq work[p].results

SInv == IInv /\ \A p \in Clients : OpenCallHolds(p)

\* A step that leaves a call alone, its file with what it holds and in service.
LEMMA KeptCall ==
  ASSUME NEW p \in Clients, OpenCallHolds(p),
         phase'[p] = phase[p], at'[p] = at[p], work'[p] = work[p],
         phase[p] \in {"lookup", "reading", "prepared", "witnessed"} =>
           bound'[at[p]] /\ db'[at[p]].results = db[at[p]].results
  PROVE  OpenCallHolds(p)'
BY DEF OpenCallHolds

\* A call that waits for its turn has nothing open.
LEMMA NothingOpen ==
  ASSUME NEW p \in Clients, phase'[p] \notin {"lookup", "reading", "prepared", "witnessed"}
  PROVE  OpenCallHolds(p)'
BY DEF OpenCallHolds

\* A call ends: the others keep theirs.
LEMMA FinishHolds ==
  ASSUME SInv, NEW p \in Clients, NEW outcome, Finish(p, outcome), UNCHANGED <<db, bound>>
  PROVE  \A q \in Clients : OpenCallHolds(q)'
<1> TAKE q \in Clients
<1>1. CASE q = p
  <2>1. phase'[q] = "idle"
    BY <1>1 DEF SInv, IInv, TypeOK, Finish
  <2> QED
    BY <2>1, NothingOpen
<1>2. CASE q # p
  <2>1. phase'[q] = phase[q] /\ at'[q] = at[q] /\ work'[q] = work[q]
    <3>1. phase'[q] = phase[q] /\ at'[q] = at[q]
      BY <1>2 DEF SInv, IInv, TypeOK, Finish
    <3>2. work'[q] = work[q]
      BY <1>2 DEF SInv, IInv, Tables, Finish
    <3> QED
      BY <3>1, <3>2
  <2>2. OpenCallHolds(q)
    BY DEF SInv
  <2>3. phase[q] \in {"lookup", "reading", "prepared", "witnessed"} => bound'[at[q]]
    BY <2>2 DEF OpenCallHolds
  <2> QED
    BY <2>1, <2>2, <2>3, KeptCall
<1> QED
  BY <1>1, <1>2

\* The steps of a call under the write lock, and its commit.
LEMMA WriteHolds ==
  ASSUME SInv, NEW p \in Clients,
         PrepareExecute(p) \/ PrepareReserve(p) \/ AdvanceWitness(p) \/ Commit(p)
  PROVE  \A q \in Clients : OpenCallHolds(q)'
<1>0. TypeOK /\ Tables /\ \A q \in Clients : OpenCallHolds(q)
  BY DEF SInv, IInv
<1>1. CASE PrepareExecute(p) \/ PrepareReserve(p)
  <2> DEFINE d == db[at[p]]
  <2>1. PICK e : Prepare(p, e) /\ d.results \subseteq e.results
    <3>1. CASE PrepareExecute(p)
      <4>1. d.results \subseteq Appended(d, req[p]).results
        BY DEF Appended
      <4> QED
        BY <3>1, <4>1 DEF PrepareExecute
    <3>2. CASE PrepareReserve(p)
      <4>1. d.results \subseteq Reserved(d, req[p]).results
        BY DEF Reserved
      <4> QED
        BY <3>2, <4>1 DEF PrepareReserve
    <3> QED
      BY <1>1, <3>1, <3>2
  <2>2. bound[at[p]] /\ UNCHANGED <<db, bound, at>>
    BY <1>1, <2>1 DEF PrepareExecute, PrepareReserve, Prepare, Ready
  <2>3. phase'[p] = "prepared" /\ work'[p] = e
    BY <1>0, <2>1 DEF Prepare, TypeOK, Tables
  <2>4. OpenCallHolds(p)'
    BY <2>1, <2>2, <2>3 DEF OpenCallHolds
  <2>5. ASSUME NEW q \in Clients, q # p PROVE OpenCallHolds(q)'
    <3>1. phase'[q] = phase[q] /\ work'[q] = work[q]
      <4>1. phase' = [phase EXCEPT ![p] = "prepared"] /\ work' = [work EXCEPT ![p] = e]
        BY <2>1 DEF Prepare
      <4>2. work = [r \in Clients |-> work[r]] /\ \E S : phase \in [Clients -> S]
        BY <1>0 DEF Tables, TypeOK
      <4> QED
        BY <2>5, <4>1, <4>2
    <3>2. phase[q] \in {"lookup", "reading", "prepared", "witnessed"} => bound'[at[q]]
      BY <1>0, <2>2 DEF OpenCallHolds
    <3>3. OpenCallHolds(q) /\ at'[q] = at[q] /\ db'[at[q]].results = db[at[q]].results
      BY <1>0, <2>2
    <3> QED
      BY <3>1, <3>2, <3>3, KeptCall
  <2> QED
    BY <2>4, <2>5
<1>2. CASE AdvanceWitness(p)
  <2>1. phase[p] = "prepared" /\ UNCHANGED <<db, bound, at, work>>
    BY <1>2 DEF AdvanceWitness
  <2>2. phase'[p] = "witnessed"
    BY <1>0, <1>2 DEF AdvanceWitness, TypeOK
  <2>3. OpenCallHolds(p)'
    BY <1>0, <2>1, <2>2 DEF OpenCallHolds
  <2>4. ASSUME NEW q \in Clients, q # p PROVE OpenCallHolds(q)'
    <3>1. phase'[q] = phase[q]
      BY <1>0, <1>2, <2>4 DEF AdvanceWitness, TypeOK
    <3> QED
      BY <1>0, <2>1, <3>1 DEF OpenCallHolds
  <2> QED
    BY <2>3, <2>4
<1>3. CASE Commit(p)
  <2>1. PICK outcome : Finish(p, outcome)
    BY <1>3 DEF Commit
  <2>2. /\ db' = [db EXCEPT ![at[p]] = work[p]] /\ UNCHANGED bound
        /\ phase[p] = "witnessed" /\ at[p] \in Copies
    BY <1>0, <1>3 DEF Commit, TypeOK, Phases
  <2>3. db[at[p]].results \subseteq work[p].results
    BY <1>0, <2>2 DEF OpenCallHolds
  <2>4. phase'[p] = "idle"
    BY <1>0, <2>1 DEF Finish, TypeOK
  <2>5. ASSUME NEW q \in Clients, q # p PROVE OpenCallHolds(q)'
    <3>1. phase'[q] = phase[q] /\ at'[q] = at[q] /\ work'[q] = work[q]
      <4>1. phase'[q] = phase[q] /\ at'[q] = at[q]
        BY <1>0, <2>1, <2>5 DEF Finish, TypeOK
      <4>2. work'[q] = work[q]
        BY <1>0, <2>1, <2>5 DEF Finish, Tables
      <4> QED
        BY <4>1, <4>2
    <3>2. CASE at[q] = at[p]
      <4>1. phase[q] \notin {"prepared", "witnessed"}
        <5>1. writer[at[p]] = p
          BY <1>0, <2>2 DEF TypeOK
        <5>2. phase[q] \in {"prepared", "witnessed"} => writer[at[p]] = q
          BY <1>0, <2>2, <3>2 DEF TypeOK
        <5> QED
          BY <2>5, <5>1, <5>2
      <4>2. db'[at[q]].results = work[p].results
        BY <1>0, <2>2, <3>2 DEF Tables
      <4> QED
        BY <1>0, <2>2, <2>3, <3>1, <3>2, <4>1, <4>2 DEF OpenCallHolds
    <3>3. CASE at[q] # at[p]
      <4>1. phase[q] \in {"lookup", "reading", "prepared", "witnessed"} =>
              at[q] \in Copies /\ bound'[at[q]]
        BY <1>0, <2>2 DEF OpenCallHolds, TypeOK, Phases
      <4>2. at[q] \in Copies => db'[at[q]] = db[at[q]]
        BY <1>0, <2>2, <3>3 DEF Tables
      <4> QED
        BY <1>0, <3>1, <4>1, <4>2, KeptCall
    <3> QED
      BY <3>2, <3>3
  <2> QED
    BY <2>4, <2>5, NothingOpen
<1> QED
  BY <1>1, <1>2, <1>3

\* The steps of files and processes.
LEMMA FilesHold ==
  ASSUME SInv,
         \/ \E c \in Copies : Provision(c) \/ Startup(c) \/ Crash(c)
         \/ \E a, b \in Copies : CopyFile(a, b)
  PROVE  \A q \in Clients : OpenCallHolds(q)'
<1> TAKE q \in Clients
<1> DEFINE open == phase[q] \in {"lookup", "reading", "prepared", "witnessed"}
<1>0. TypeOK /\ Tables /\ OpenCallHolds(q) /\ (open => at[q] \in Copies /\ bound[at[q]])
  BY DEF SInv, IInv, OpenCallHolds, TypeOK, Phases
<1>1. ASSUME NEW c \in Copies, Provision(c) PROVE OpenCallHolds(q)'
  BY <1>0, <1>1 DEF Provision, clientVars, OpenCallHolds
<1>2. ASSUME NEW c \in Copies, Startup(c) PROVE OpenCallHolds(q)'
  <2>1. UNCHANGED <<phase, at, work>>
    BY <1>2 DEF Startup, clientVars
  <2>2. open => bound'[at[q]]
    <3>1. bound' = [bound EXCEPT ![c] = TRUE] /\ bound \in [Copies -> BOOLEAN]
      BY <1>0, <1>2 DEF Startup, TypeOK
    <3>2. \A e \in Copies : bound[e] => bound'[e]
      BY <3>1
    <3> QED
      BY <1>0, <3>2
  <2>3. open => db'[at[q]].results = db[at[q]].results
    <3>1. db = [e \in Copies |-> db[e]] /\ db' = [db EXCEPT ![c] = DeepCheckpoint(db[c])]
      BY <1>0, <1>2 DEF Startup, Tables
    <3>2. DeepCheckpoint(db[c]).results = db[c].results
      BY DEF DeepCheckpoint
    <3>3. \A e \in Copies : db'[e].results = db[e].results
      BY <3>1, <3>2
    <3> QED
      BY <1>0, <3>3
  <2> QED
    BY <1>0, <2>1, <2>2, <2>3, KeptCall
<1>3. ASSUME NEW c \in Copies, Crash(c) PROVE OpenCallHolds(q)'
  <2>1. CASE at[q] = c
    <3>1. phase'[q] = "idle"
      BY <1>3, <2>1 DEF Crash
    <3> QED
      BY <3>1, NothingOpen
  <2>2. CASE at[q] # c
    <3>1. phase'[q] = phase[q] /\ at'[q] = at[q] /\ work'[q] = work[q] /\ UNCHANGED db
      BY <1>3, <2>2 DEF Crash
    <3>2. open => bound'[at[q]]
      BY <1>0, <1>3, <2>2 DEF Crash, TypeOK
    <3> QED
      BY <1>0, <3>1, <3>2, KeptCall
  <2> QED
    BY <2>1, <2>2
<1>4. ASSUME NEW a \in Copies, NEW b \in Copies, CopyFile(a, b) PROVE OpenCallHolds(q)'
  <2>1. UNCHANGED <<phase, at, work, bound>> /\ ~bound[b] /\ db' = [db EXCEPT ![b] = db[a]]
    BY <1>4 DEF CopyFile, clientVars
  <2>2. open => db'[at[q]] = db[at[q]]
    BY <1>0, <2>1 DEF Tables
  <2> QED
    BY <1>0, <2>1, <2>2, KeptCall
<1> QED
  BY <1>1, <1>2, <1>3, <1>4

LEMMA OpenCallsStep == SInv /\ [Next]_vars => SInv'
<1> SUFFICES ASSUME SInv, [Next]_vars PROVE \A q \in Clients : OpenCallHolds(q)'
  BY TypeStep, SafetyStep DEF SInv, IInv
<1>0. TypeOK /\ Tables /\ \A q \in Clients : OpenCallHolds(q)
  BY DEF SInv, IInv
<1>1. CASE \/ \E c \in Copies : Provision(c) \/ Startup(c) \/ Crash(c)
           \/ \E a, b \in Copies : CopyFile(a, b)
  BY <1>1, FilesHold
<1>2. ASSUME NEW p \in Clients, NEW c \in Copies, NEW r,
             NEW call \in {"execute", "lookup", "reserve"}, Submit(p, c, call, r)
      PROVE  \A q \in Clients : OpenCallHolds(q)'
  <2> TAKE q \in Clients
  <2>1. UNCHANGED <<db, bound, work>> /\ (call = "lookup" => bound[c])
    BY <1>2 DEF Submit
  <2>2. CASE q = p
    <3>1. phase'[q] = call /\ at'[q] = c
      BY <1>0, <1>2, <2>2 DEF Submit, TypeOK
    <3> QED
      BY <2>1, <3>1 DEF OpenCallHolds
  <2>3. CASE q # p
    <3>1. phase'[q] = phase[q] /\ at'[q] = at[q]
      BY <1>0, <1>2, <2>3 DEF Submit, TypeOK
    <3> QED
      BY <1>0, <2>1, <3>1 DEF OpenCallHolds
  <2> QED
    BY <2>2, <2>3
<1>3. ASSUME NEW p \in Clients, Serve(p) PROVE \A q \in Clients : OpenCallHolds(q)'
  <2>1. CASE \/ Busy(p) \/ Unbound(p) \/ Untrusted(p) \/ ReturnStored(p) \/ ReturnReserved(p)
             \/ Conflict(p) \/ AdvanceRejected(p) \/ AdvanceUncertain(p) \/ CommitFails(p)
             \/ LookupUntrusted(p) \/ LookupAnswer(p)
    <3>1. UNCHANGED <<db, bound>> /\ \E outcome : Finish(p, outcome)
      BY <2>1 DEF Busy, Unbound, Untrusted, ReturnStored, ReturnReserved, Conflict, AdvanceRejected,
                  AdvanceUncertain, CommitFails, LookupUntrusted, LookupAnswer, Rollback
    <3> QED
      BY <3>1, FinishHolds
  <2>2. CASE PrepareExecute(p) \/ PrepareReserve(p) \/ AdvanceWitness(p) \/ Commit(p)
    BY <2>2, WriteHolds
  <2>3. CASE Snapshot(p)
    <3> TAKE q \in Clients
    <3>1. phase[p] = "lookup" /\ UNCHANGED <<db, bound, at>>
      BY <2>3 DEF Snapshot
    <3>2. CASE q = p
      <4>1. phase'[q] = "reading" /\ work'[q] = db[at[q]]
        BY <1>0, <2>3, <3>2 DEF Snapshot, TypeOK, Tables
      <4>2. bound[at[q]]
        BY <1>0, <3>1, <3>2 DEF OpenCallHolds
      <4> QED
        BY <3>1, <4>1, <4>2 DEF OpenCallHolds
    <3>3. CASE q # p
      <4>1. phase'[q] = phase[q] /\ work'[q] = work[q]
        BY <1>0, <2>3, <3>3 DEF Snapshot, TypeOK, Tables
      <4> QED
        BY <1>0, <3>1, <4>1 DEF OpenCallHolds
    <3> QED
      BY <3>2, <3>3
  <2> QED
    BY <1>3, <2>1, <2>2, <2>3 DEF Serve
<1>4. CASE UNCHANGED vars
  BY <1>0, <1>4 DEF vars, OpenCallHolds
<1> QED
  BY <1>1, <1>2, <1>3, <1>4 DEF Next

\* A result is told to a caller only when a file holds it.
LEMMA ToldIsCommitted ==
  ASSUME SInv, [Next]_vars
  PROVE  \A x \in acked' \ acked : \E c \in Copies : x \in db'[c].results
<1> SUFFICES ASSUME NEW x \in acked' \ acked PROVE \E c \in Copies : x \in db'[c].results
  OBVIOUS
<1>0. TypeOK /\ Tables /\ \A q \in Clients : OpenCallHolds(q)
  BY DEF SInv, IInv
<1>1. PICK p \in Clients : ReturnStored(p) \/ Commit(p) \/ LookupAnswer(p)
  BY DEF Next, vars, Provision, Startup, Crash, CopyFile, Submit, Serve, Busy, Unbound, Untrusted,
         ReturnReserved, Conflict, PrepareExecute, PrepareReserve, Prepare, AdvanceWitness,
         AdvanceRejected, AdvanceUncertain, CommitFails, Rollback, Snapshot, LookupUntrusted
<1>2. at[p] \in Copies
  BY <1>0, <1>1 DEF ReturnStored, Commit, LookupAnswer, TypeOK, Phases
<1>3. CASE ReturnStored(p)
  BY <1>2, <1>3 DEF ReturnStored, Claims
<1>4. CASE Commit(p)
  <2>1. x \in work[p].results
    BY <1>4 DEF Commit
  <2>2. db'[at[p]] = work[p]
    BY <1>0, <1>2, <1>4 DEF Commit, Tables
  <2> QED
    BY <1>2, <2>1, <2>2
<1>5. CASE LookupAnswer(p)
  <2>1. x \in work[p].results /\ UNCHANGED db /\ phase[p] = "reading"
    BY <1>5 DEF LookupAnswer, Claims
  <2> QED
    BY <1>0, <1>2, <2>1 DEF OpenCallHolds
<1> QED
  BY <1>1, <1>3, <1>4, <1>5

\* The store moves forward only: the history is extended, one generation at a time, and whatever a
\* caller is told, by execute() or by a lookup that raced other writers, a file holds by then.
THEOREM StoreOnlyAdvances == Spec => StoreMovesForward
<1>1. Init => SInv
  <2> SUFFICES ASSUME Init PROVE SInv
    OBVIOUS
  <2>1. \A p \in Clients : phase[p] = "idle"
    BY DEF Init
  <2> QED
    BY <2>1, InitSafe DEF SInv, OpenCallHolds
<1>2. SInv /\ [Next]_vars => [\A x \in acked' \ acked : \E c \in Copies : x \in db'[c].results]_vars
  BY ToldIsCommitted
<1>3. Spec => AckAfterCommit
  BY <1>1, <1>2, OpenCallsStep, PTL DEF Spec, AckAfterCommit
<1> QED
  BY <1>3, HistoryGrows DEF StoreMovesForward
----------------------------------------------------------------------------
(* What is committed opens again.                                          *)

\* The lifecycle tables: the event alone fixes the status that an edge leads to, and an issued
\* field can only be settled.
TargetsFixed(E) == \A e, f \in E : e[1] = f[1] /\ e[3] = f[3] => e[4] = f[4]
KindsIn(E, K) == \A e \in E : e[1] \in K
IngressKinds == {"tournament_ingress", "round_ingress", "field_ingress"}
RecordKinds == {"result", "score", "settlement", "epoch", "reaction", "derivation", "forecast", "weights"}
ShowKinds == {"tournament", "round", "field"}
FactoryKinds == {"bundle", "service_credential", "competitor", "audit_generation", "monitoring", "issue_batch",
                 "approval_decision"}

LEMMA IngressTargets == TargetsFixed(IngressEdges) /\ KindsIn(IngressEdges, IngressKinds)
BY DEF TargetsFixed, KindsIn, IngressKinds, IngressEdges, Current, Genesis

LEMMA RecordTargets == TargetsFixed(RecordEdges) /\ KindsIn(RecordEdges, RecordKinds)
BY DEF TargetsFixed, KindsIn, RecordKinds, RecordEdges, Current, Once, Genesis

LEMMA ShowTargets == TargetsFixed(ShowEdges) /\ KindsIn(ShowEdges, ShowKinds)
BY DEF TargetsFixed, KindsIn, ShowKinds, ShowEdges, Genesis

LEMMA JobTargets == TargetsFixed(JobEdges) /\ KindsIn(JobEdges, {"job"})
BY DEF TargetsFixed, KindsIn, JobEdges, Genesis

LEMMA FactoryTargets == TargetsFixed(FactoryEdges) /\ KindsIn(FactoryEdges, FactoryKinds)
BY DEF TargetsFixed, KindsIn, FactoryKinds, FactoryEdges, Current, Once, Genesis

LEMMA EdgesHaveOneTarget == TargetsFixed(Edges)
<1>1. ASSUME NEW e \in Edges, NEW f \in Edges, e[1] = f[1], e[3] = f[3]
      PROVE  e[4] = f[4]
  <2>1. \/ e \in IngressEdges /\ f \in IngressEdges
        \/ e \in RecordEdges /\ f \in RecordEdges
        \/ e \in ShowEdges /\ f \in ShowEdges
        \/ e \in JobEdges /\ f \in JobEdges
        \/ e \in FactoryEdges /\ f \in FactoryEdges
    <3>1. \A x \in Edges :
            \/ x \in IngressEdges /\ x[1] \in IngressKinds
            \/ x \in RecordEdges /\ x[1] \in RecordKinds
            \/ x \in ShowEdges /\ x[1] \in ShowKinds
            \/ x \in JobEdges /\ x[1] = "job"
            \/ x \in FactoryEdges /\ x[1] \in FactoryKinds
      BY IngressTargets, RecordTargets, ShowTargets, JobTargets, FactoryTargets DEF KindsIn, Edges
    <3> QED
      BY <1>1, <3>1 DEF IngressKinds, RecordKinds, ShowKinds, FactoryKinds
  <2> QED
    BY <1>1, <2>1, IngressTargets, RecordTargets, ShowTargets, JobTargets, FactoryTargets DEF TargetsFixed
<1> QED
  BY <1>1 DEF TargetsFixed

LEMMA EdgeOf ==
  ASSUME NEW kind, NEW current, NEW event, Legal(kind, current, event)
  PROVE  <<kind, current, event, StatusAfter(kind, event)>> \in Edges
         /\ Transition(kind, current, event) = StatusAfter(kind, event)
<1>1. \A e \in Edges : e = <<e[1], e[2], e[3], e[4]>>
  BY DEF Edges, IngressEdges, RecordEdges, ShowEdges, JobEdges, FactoryEdges, Current, Once
<1>2. PICK e \in Edges : e[1] = kind /\ e[2] = current /\ e[3] = event
  BY DEF Legal, Keys
<1> DEFINE f == CHOOSE x \in Edges : x[1] = kind /\ x[3] = event
<1>3. f \in Edges /\ f[1] = kind /\ f[3] = event
  BY <1>2
<1>4. StatusAfter(kind, event) = f[4]
  BY DEF StatusAfter
<1> HIDE DEF f
<1>5. e[4] = f[4]
  BY <1>2, <1>3, EdgesHaveOneTarget DEF TargetsFixed
<1>6. <<kind, current, event, e[4]>> \in Edges
  BY <1>1, <1>2
<1>7. e[4] \in Statuses
  BY <1>2 DEF Statuses
<1>8. \A s : <<kind, current, event, s>> \in Edges => s = e[4]
  <2> SUFFICES ASSUME NEW s, <<kind, current, event, s>> \in Edges PROVE s = e[4]
    OBVIOUS
  <2> DEFINE x == <<kind, current, event, s>>
  <2>1. x[1] = kind /\ x[3] = event /\ x[4] = s /\ x \in Edges
    OBVIOUS
  <2> HIDE DEF x
  <2> QED
    BY <1>2, <2>1, EdgesHaveOneTarget DEF TargetsFixed
<1> QED
  BY <1>4, <1>5, <1>6, <1>7, <1>8 DEF Transition

LEMMA IssuedOnlySettles ==
  /\ \A e \in Edges : e[3] = "field_issued" => e[1] = "field" /\ e[4] = "field_issued"
  /\ \A e \in Edges : e[3] = "field_settled" => e[1] = "field" /\ e[4] = "field_settled"
  /\ \A e \in Edges : e[1] = "field" /\ e[2] = "field_issued" => e[3] = "field_settled"
  /\ \A e \in Edges : e[1] = "field" => e[2] # "field_settled"
<1>1. \A e \in IngressEdges \cup RecordEdges : e[1] # "field" /\ e[3] \notin {"field_issued", "field_settled"}
  BY DEF IngressEdges, RecordEdges, Current, Once, Genesis
<1>2. \A e \in JobEdges \cup FactoryEdges : e[1] # "field" /\ e[3] \notin {"field_issued", "field_settled"}
  BY DEF JobEdges, FactoryEdges, Current, Once, Genesis
<1>3. \A e \in ShowEdges :
        /\ e[3] = "field_issued" => e[1] = "field" /\ e[4] = "field_issued"
        /\ e[3] = "field_settled" => e[1] = "field" /\ e[4] = "field_settled"
        /\ e[1] = "field" /\ e[2] = "field_issued" => e[3] = "field_settled"
        /\ e[1] = "field" => e[2] # "field_settled"
  BY DEF ShowEdges, Genesis
<1> QED
  BY <1>1, <1>2, <1>3 DEF Edges

\* After an issue, or a settlement, of a field only a settlement is legal.
LEMMA AfterIssue ==
  ASSUME NEW kind, NEW before, NEW last \in {"field_issued", "field_settled"}, Legal(kind, before, last),
         NEW event, Legal(kind, StatusAfter(kind, last), event)
  PROVE  event = "field_settled"
<1> DEFINE x == <<kind, before, last, StatusAfter(kind, last)>>
           y == <<kind, StatusAfter(kind, last), event, StatusAfter(kind, event)>>
<1>1. x \in Edges /\ y \in Edges
  BY EdgeOf
<1>2. x[1] = kind /\ x[3] = last /\ x[4] = StatusAfter(kind, last)
      /\ y[1] = kind /\ y[2] = StatusAfter(kind, last) /\ y[3] = event
  OBVIOUS
<1> HIDE DEF x, y
<1> QED
  BY <1>1, <1>2, IssuedOnlySettles
----------------------------------------------------------------------------
(* The newest of a set of positions.                                       *)

Newest(S) == CHOOSE j \in S : \A k \in S : k <= j

LEMMA NewestOf ==
  ASSUME NEW N \in Nat, NEW S \in SUBSET (1 .. N), S # {}
  PROVE  Newest(S) \in S /\ \A k \in S : k <= Newest(S)
<1> DEFINE T == { N - n : n \in S }
<1>1. \A n \in S : n \in Nat /\ N - n \in Nat
  OBVIOUS
<1>2. T \in SUBSET Nat /\ T # {}
  BY <1>1
<1>3. PICK m \in T : \A n \in T : <<n, m>> \notin OpToRel(<, Nat)
  BY <1>2, NatLessThanWellFounded, WFMin
<1>4. PICK x \in S : m = N - x
  BY <1>3
<1>5. ASSUME NEW n \in S PROVE n <= x
  <2>1. N - n \in T
    OBVIOUS
  <2>2. ~(N - n < N - x)
    BY <1>1, <1>2, <1>3, <1>4, <2>1 DEF OpToRel
  <2> QED
    BY <1>1, <2>2
<1> QED
  BY <1>5 DEF Newest

LEMMA NewestIsLast ==
  ASSUME NEW n \in Nat, NEW S \in SUBSET (1 .. n), NEW x \in Nat, n < x
  PROVE  Newest(S \cup {x}) = x
<1> DEFINE T == S \cup {x}
<1>1. x \in T /\ \A k \in T : k <= x
  OBVIOUS
<1>2. \A j \in T : x <= j => j = x
  OBVIOUS
<1> HIDE DEF T
<1>3. Newest(T) \in T /\ \A k \in T : k <= Newest(T)
  BY <1>1 DEF Newest
<1> QED
  BY <1>1, <1>2, <1>3 DEF T

----------------------------------------------------------------------------
(* One database file.                                                      *)

\* The status of an aggregate after the events of S.
StatusOver(kind, events, S) == IF S = {} THEN Genesis ELSE StatusAfter(kind, events[Newest(S)].kind)

\* Event i of a file is the next one of its stream, and legal there.
EventVerified(d, i) ==
  LET e == d.events[i] IN
  /\ e.ver = Cardinality(Earlier(d, i)) + 1
  /\ Legal(KindOf[e.agg], StatusOver(KindOf[e.agg], d.events, Earlier(d, i)), e.kind)

HeadOver(d, a) ==
  [ver |-> Cardinality(StreamOf(d, a)), status |-> StatusOver(KindOf[a], d.events, StreamOf(d, a))]

HeadsOver(d) == [a \in Aggregates |-> HeadOver(d, a)]

\* A field that is issued is only settled after that.
IssuesStand(events) ==
  \A i, j \in DOMAIN events :
    i < j /\ events[i].agg = events[j].agg /\ events[i].kind = "field_issued" => events[j].kind = "field_settled"

OneInputEach(bindings) == \A x, y \in bindings : x.key = y.key => x = y

Present(d) == { a \in Aggregates : d.heads[a].ver > 0 }

\* What a file that is committed, or an open transaction, holds.
RowsHold(d) ==
  /\ d = [events |-> d.events, results |-> d.results, bindings |-> d.bindings, heads |-> d.heads,
          cursor |-> d.cursor, obligations |-> d.obligations, checkpoint |-> d.checkpoint]
  /\ d.heads = HeadsOver(d)
  /\ IsFiniteSet(Present(d)) /\ d.checkpoint = [seq |-> Len(d.events), heads |-> HeadCount(d)]
  /\ IsFiniteSet(d.obligations) /\ \A k \in d.obligations : \E x \in d.results : x.cmd.key = k
  /\ d.cursor.through = Len(d.events) /\ d.cursor.relevant = Cardinality(d.obligations)
EventsHold(d) ==
  d.events \in Seq(EventRecords) /\ IssuesStand(d.events) /\ \A i \in DOMAIN d.events : EventVerified(d, i)
FileHolds(d) == EventsHold(d) /\ ResultsVerified(d) /\ RowsHold(d) /\ OneInputEach(d.bindings)

LEMMA FileReopens ==
  ASSUME NEW d, FileHolds(d)
  PROVE  /\ Verified(d) /\ CursorAtEventHead(d) /\ CheckpointAtEventHead(d)
         /\ d.checkpoint.heads = HeadCount(d) /\ d.cursor.relevant = Cardinality(d.obligations)
         /\ DeepCheckpoint(d) = d
<1>1. EventsVerified(d)
  BY DEF FileHolds, EventsHold, EventVerified, EventsVerified, StatusOver, Newest
<1>2. HeadsVerified(d)
  BY DEF FileHolds, RowsHold, HeadsVerified, HeadOver, HeadsOver
<1>3. DeepCheckpoint(d) = d
  <2> DEFINE heads == [a \in Aggregates |->
               [ver |-> d.heads[a].ver,
                status |-> IF StreamOf(d, a) = {} THEN Genesis
                           ELSE StatusAfter(KindOf[a],
                                  d.events[CHOOSE j \in StreamOf(d, a) :
                                             \A k \in StreamOf(d, a) : k <= j].kind)]]
             checkpoint == [seq |-> Len(d.events), heads |-> HeadCount(d)]
  <2>1. heads = d.heads
    BY DEF FileHolds, RowsHold, HeadOver, HeadsOver, StatusOver, Newest
  <2>2. checkpoint = d.checkpoint
    BY DEF FileHolds, RowsHold
  <2>3. DeepCheckpoint(d) = [d EXCEPT !.heads = heads, !.checkpoint = checkpoint]
    BY DEF DeepCheckpoint
  <2> HIDE DEF heads, checkpoint
  <2>4. d = [events |-> d.events, results |-> d.results, bindings |-> d.bindings, heads |-> d.heads,
             cursor |-> d.cursor, obligations |-> d.obligations, checkpoint |-> d.checkpoint]
    BY DEF FileHolds, RowsHold
  <2> QED
    BY <2>1, <2>2, <2>3, <2>4
<1> QED
  BY <1>1, <1>2, <1>3 DEF FileHolds, RowsHold, Verified, CursorAtEventHead, CheckpointAtEventHead

\* A file that was never written.
LEMMA EmptyFile == FileHolds(EmptyDatabase)
<1> DEFINE d == EmptyDatabase
<1>1. /\ d.events = << >> /\ d.results = {} /\ d.bindings = {} /\ d.obligations = {}
      /\ d.heads = [a \in Aggregates |-> [ver |-> 0, status |-> Genesis]]
      /\ d.cursor = [rev |-> 0, through |-> 0, relevant |-> 0] /\ d.checkpoint = [seq |-> 0, heads |-> 0]
      /\ d = [events |-> d.events, results |-> d.results, bindings |-> d.bindings, heads |-> d.heads,
              cursor |-> d.cursor, obligations |-> d.obligations, checkpoint |-> d.checkpoint]
  BY DEF EmptyDatabase
<1> HIDE DEF d
<1>2. d.events \in Seq(EventRecords) /\ Len(d.events) = 0 /\ DOMAIN d.events = {}
  BY <1>1
<1>3. EventsHold(d) /\ ResultsVerified(d) /\ OneInputEach(d.bindings)
  BY <1>1, <1>2 DEF EventsHold, IssuesStand, ResultsVerified, OneInputEach
<1>4. Cardinality({}) = 0 /\ IsFiniteSet({})
  BY FS_EmptySet
<1>5. \A a \in Aggregates : StreamOf(d, a) = {}
  BY <1>2 DEF StreamOf
<1>6. d.heads = HeadsOver(d)
  BY <1>1, <1>4, <1>5 DEF HeadOver, HeadsOver, StatusOver
<1>7. Present(d) = {} /\ HeadCount(d) = 0
  <2>1. Present(d) = {}
    BY <1>1 DEF Present
  <2>2. HeadCount(d) = Cardinality(Present(d))
    BY DEF HeadCount, Present
  <2> QED
    BY <1>4, <2>1, <2>2
<1>8. RowsHold(d)
  BY <1>1, <1>2, <1>4, <1>6, <1>7 DEF RowsHold
<1> QED
  BY <1>3, <1>8 DEF FileHolds, d

----------------------------------------------------------------------------
(* A file after one command.                                               *)

LEMMA IntentsOf ==
  ASSUME NEW r \in Requests
  PROVE  /\ Len(r.intents) \in Nat /\ Len(r.intents) >= 1 /\ DOMAIN r.intents = 1 .. Len(r.intents)
         /\ \A k \in 1 .. Len(r.intents) :
              /\ r.intents[k].agg \in Touched(r) /\ EventFor(r, r.intents[k].agg) = k
              /\ NewEvents(r)[k] = [cmd |-> r, agg |-> r.intents[k].agg, ver |-> r.expected[r.intents[k].agg] + 1,
                                    kind |-> r.intents[k].kind]
              /\ NewEvents(r)[k].agg = r.intents[k].agg /\ NewEvents(r)[k].cmd = r
         /\ \A a \in Touched(r) :
              /\ EventFor(r, a) \in 1 .. Len(r.intents) /\ r.intents[EventFor(r, a)].agg = a
              /\ a \in Aggregates /\ r.expected[a] \in Nat
         /\ IsFiniteSet(Touched(r))
<1>1. /\ r.intents \in Seq(EventIntents) /\ Len(r.intents) > 0 /\ r.expected \in [Aggregates -> Nat]
      /\ \A i, j \in DOMAIN r.intents : r.intents[i].agg = r.intents[j].agg => i = j
  BY RequestsAssumption DEF RequestOK
<1>2. /\ DOMAIN r.intents = 1 .. Len(r.intents) /\ Len(r.intents) \in Nat
      /\ \A k \in 1 .. Len(r.intents) : r.intents[k].agg \in Aggregates
  <2>1. DOMAIN r.intents = 1 .. Len(r.intents) /\ Len(r.intents) \in Nat
        /\ \A k \in 1 .. Len(r.intents) : r.intents[k] \in EventIntents
    BY <1>1
  <2>2. \A x \in EventIntents : x.agg \in Aggregates
    BY DEF EventIntents
  <2> QED
    BY <2>1, <2>2
<1>3. IsFiniteSet(Touched(r))
  <2> DEFINE agg == [k \in 1 .. Len(r.intents) |-> r.intents[k].agg]
  <2>1. IsFiniteSet(1 .. Len(r.intents))
    BY <1>2, FS_Interval
  <2>2. agg \in Surjection(1 .. Len(r.intents), Touched(r))
    BY <1>2 DEF Touched, Surjection
  <2> QED
    BY <2>1, <2>2, FS_Surjection
<1>4. \A a \in Touched(r) : EventFor(r, a) \in DOMAIN r.intents /\ r.intents[EventFor(r, a)].agg = a
  BY DEF Touched, EventFor
<1>5. \A k \in 1 .. Len(r.intents) : r.intents[k].agg \in Touched(r)
  BY <1>2 DEF Touched
<1>6. \A k \in 1 .. Len(r.intents) : EventFor(r, r.intents[k].agg) = k
  BY <1>1, <1>2, <1>4, <1>5
<1>7. \A k \in 1 .. Len(r.intents) :
        NewEvents(r)[k] = [cmd |-> r, agg |-> r.intents[k].agg, ver |-> r.expected[r.intents[k].agg] + 1,
                           kind |-> r.intents[k].kind]
  BY <1>2 DEF NewEvents
<1>8. \A a \in Touched(r) : a \in Aggregates /\ r.expected[a] \in Nat
  BY <1>1, <1>2, <1>4
<1>9. Len(r.intents) >= 1
  BY <1>1, <1>2
<1>10. ASSUME NEW k \in 1 .. Len(r.intents)
       PROVE  NewEvents(r)[k].agg = r.intents[k].agg /\ NewEvents(r)[k].cmd = r
  <2>1. NewEvents(r)[k] = [cmd |-> r, agg |-> r.intents[k].agg, ver |-> r.expected[r.intents[k].agg] + 1,
                           kind |-> r.intents[k].kind]
    BY <1>7
  <2> QED
    BY <2>1
<1> QED
  BY <1>2, <1>3, <1>4, <1>5, <1>6, <1>7, <1>8, <1>9, <1>10

\* e holds the events of d, and those of one command.
Grown(d, e, r) ==
  LET n == Len(d.events)  m == Len(r.intents) IN
  /\ n \in Nat /\ DOMAIN d.events = 1 .. n /\ DOMAIN e.events = 1 .. (n + m) /\ Len(e.events) = n + m
  /\ e.events \in Seq(EventRecords)
  /\ \A i \in 1 .. n : e.events[i] = d.events[i]
  /\ \A k \in 1 .. m : e.events[n + k] = NewEvents(r)[k]

LEMMA AppendGrows ==
  ASSUME NEW d, d.events \in Seq(EventRecords), NEW r \in Requests
  PROVE  Grown(d, Appended(d, r), r)
<1> DEFINE s == d.events  t == NewEvents(r)
<1>1. s \in Seq(EventRecords) /\ t \in Seq(EventRecords) /\ Len(t) = Len(r.intents)
  BY NewEventsType
<1>2. Appended(d, r).events = s \o t
  BY DEF Appended
<1> HIDE DEF s, t
<1>3. /\ Len(s) \in Nat /\ DOMAIN s = 1 .. Len(s) /\ s \o t \in Seq(EventRecords)
      /\ Len(s \o t) = Len(s) + Len(t) /\ DOMAIN (s \o t) = 1 .. (Len(s) + Len(t))
      /\ \A i \in 1 .. Len(s) : (s \o t)[i] = s[i]
      /\ \A k \in 1 .. Len(t) : (s \o t)[Len(s) + k] = t[k]
  BY <1>1
<1> QED
  BY <1>1, <1>2, <1>3 DEF Grown, s, t

LEMMA StreamsGrow ==
  ASSUME NEW d, NEW e, NEW r \in Requests, Grown(d, e, r)
  PROVE  /\ \A a : a \notin Touched(r) => StreamOf(e, a) = StreamOf(d, a)
         /\ \A a \in Touched(r) : StreamOf(e, a) = StreamOf(d, a) \cup {Len(d.events) + EventFor(r, a)}
         /\ \A i \in 1 .. Len(d.events) : Earlier(e, i) = Earlier(d, i)
         /\ \A k \in 1 .. Len(r.intents) : Earlier(e, Len(d.events) + k) = StreamOf(d, r.intents[k].agg)
<1> DEFINE n == Len(d.events)  m == Len(r.intents)
<1>1. /\ n \in Nat /\ m \in Nat /\ DOMAIN d.events = 1 .. n /\ DOMAIN e.events = 1 .. (n + m)
      /\ \A i \in 1 .. n : e.events[i] = d.events[i]
      /\ \A k \in 1 .. m : e.events[n + k].agg = r.intents[k].agg
      /\ \A k \in 1 .. m : r.intents[k].agg \in Touched(r) /\ EventFor(r, r.intents[k].agg) = k
      /\ \A a \in Touched(r) : EventFor(r, a) \in 1 .. m /\ r.intents[EventFor(r, a)].agg = a
  <2>1. /\ n \in Nat /\ DOMAIN d.events = 1 .. n /\ DOMAIN e.events = 1 .. (n + m)
        /\ \A i \in 1 .. n : e.events[i] = d.events[i]
        /\ \A k \in 1 .. m : e.events[n + k] = NewEvents(r)[k]
    BY DEF Grown
  <2>2. /\ m \in Nat
        /\ \A k \in 1 .. m :
             r.intents[k].agg \in Touched(r) /\ EventFor(r, r.intents[k].agg) = k
             /\ NewEvents(r)[k].agg = r.intents[k].agg
        /\ \A a \in Touched(r) : EventFor(r, a) \in 1 .. m /\ r.intents[EventFor(r, a)].agg = a
    <3>2. \A k \in 1 .. m : NewEvents(r)[k].agg = r.intents[k].agg
      BY IntentsOf
    <3>3. /\ m \in Nat
          /\ \A k \in 1 .. m : r.intents[k].agg \in Touched(r) /\ EventFor(r, r.intents[k].agg) = k
          /\ \A a \in Touched(r) : EventFor(r, a) \in 1 .. m /\ r.intents[EventFor(r, a)].agg = a
      BY IntentsOf, Zenon
    <3> QED
      BY <3>2, <3>3
  <2> HIDE DEF n, m
  <2> QED
    BY <2>1, <2>2
<1> HIDE DEF n, m
<1>2. \A i \in 1 .. (n + m) : i \in 1 .. n \/ (i - n \in 1 .. m /\ i = n + (i - n))
  BY <1>1
<1>3. ASSUME NEW a, NEW i \in 1 .. (n + m), e.events[i].agg = a, i \notin 1 .. n
      PROVE  a \in Touched(r) /\ i = n + EventFor(r, a)
  <2>1. PICK k \in 1 .. m : i = n + k
    BY <1>2, <1>3
  <2>2. r.intents[k].agg = a
    BY <1>1, <1>3, <2>1
  <2> QED
    BY <1>1, <2>1, <2>2
<1>4. ASSUME NEW a, NEW i \in 1 .. n PROVE i \in StreamOf(e, a) <=> i \in StreamOf(d, a)
  BY <1>1 DEF StreamOf
<1>5. \A a : StreamOf(e, a) \subseteq 1 .. (n + m) /\ StreamOf(d, a) \subseteq 1 .. n
  BY <1>1 DEF StreamOf
<1>6. \A a : a \notin Touched(r) => StreamOf(e, a) = StreamOf(d, a)
  BY <1>1, <1>3, <1>4, <1>5 DEF StreamOf
<1>7. \A a \in Touched(r) : n + EventFor(r, a) \in StreamOf(e, a)
  <2> SUFFICES ASSUME NEW a \in Touched(r) PROVE n + EventFor(r, a) \in StreamOf(e, a)
    OBVIOUS
  <2>1. EventFor(r, a) \in 1 .. m /\ r.intents[EventFor(r, a)].agg = a
    BY <1>1
  <2>2. n + EventFor(r, a) \in 1 .. (n + m) /\ e.events[n + EventFor(r, a)].agg = a
    BY <1>1, <2>1
  <2> QED
    BY <1>1, <2>2 DEF StreamOf
<1>8. \A a \in Touched(r) : StreamOf(e, a) = StreamOf(d, a) \cup {n + EventFor(r, a)}
  BY <1>1, <1>3, <1>4, <1>5, <1>7 DEF StreamOf
<1>9. ASSUME NEW i \in 1 .. n PROVE Earlier(e, i) = Earlier(d, i)
  <2>1. \A j \in 1 .. (i - 1) : j \in 1 .. n
    BY <1>1
  <2>2. e.events[i] = d.events[i] /\ \A j \in 1 .. (i - 1) : e.events[j] = d.events[j]
    BY <1>1, <2>1
  <2> QED
    BY <2>2 DEF Earlier
<1>10. ASSUME NEW k \in 1 .. m PROVE Earlier(e, n + k) = StreamOf(d, r.intents[k].agg)
  <2> DEFINE a == r.intents[k].agg
  <2>1. e.events[n + k].agg = a /\ a \in Touched(r) /\ EventFor(r, a) = k
    BY <1>1
  <2>2. StreamOf(e, a) = StreamOf(d, a) \cup {n + k}
    BY <1>8, <2>1
  <2>3. Earlier(e, n + k) = { j \in StreamOf(e, a) : j < n + k }
    <3>1. \A j : j \in 1 .. (n + k - 1) <=> j \in 1 .. (n + m) /\ j < n + k
      BY <1>1
    <3> QED
      BY <1>1, <2>1, <3>1 DEF Earlier, StreamOf
  <2>4. \A j \in StreamOf(d, a) : j < n + k
    BY <1>1, <1>5
  <2>5. ~(n + k < n + k)
    BY <1>1
  <2> HIDE DEF a
  <2>6. Earlier(e, n + k) = StreamOf(d, a)
    BY <2>2, <2>3, <2>4, <2>5
  <2> QED
    BY <2>6 DEF a
<1> QED
  BY <1>6, <1>8, <1>9, <1>10 DEF n, m
LEMMA StatusOverSame ==
  ASSUME NEW d, NEW e, NEW r, Grown(d, e, r), NEW kind, NEW S \in SUBSET (1 .. Len(d.events))
  PROVE  StatusOver(kind, e.events, S) = StatusOver(kind, d.events, S)
<1>1. S # {} => Newest(S) \in 1 .. Len(d.events)
  BY NewestOf DEF Grown
<1>2. \A i \in 1 .. Len(d.events) : e.events[i] = d.events[i]
  BY DEF Grown
<1> QED
  BY <1>1, <1>2 DEF StatusOver

LEMMA StreamsWithin ==
  ASSUME NEW d, d.events \in Seq(EventRecords)
  PROVE  /\ \A a : StreamOf(d, a) \in SUBSET (1 .. Len(d.events)) /\ IsFiniteSet(StreamOf(d, a))
         /\ \A i \in DOMAIN d.events : Earlier(d, i) \in SUBSET (1 .. Len(d.events))
<1>1. DOMAIN d.events = 1 .. Len(d.events) /\ Len(d.events) \in Nat
  OBVIOUS
<1>2. IsFiniteSet(1 .. Len(d.events))
  BY <1>1, FS_Interval
<1>3. \A a : StreamOf(d, a) \in SUBSET (1 .. Len(d.events))
  BY <1>1 DEF StreamOf
<1>4. \A i \in DOMAIN d.events : Earlier(d, i) \in SUBSET (1 .. Len(d.events))
  BY <1>1 DEF Earlier
<1> QED
  BY <1>2, <1>3, <1>4, FS_Subset

\* The new events are the next ones of their streams, and legal.
LEMMA NewEventsVerified ==
  ASSUME NEW d, FileHolds(d), NEW r \in Requests, Acceptable(d, r), NEW e, Grown(d, e, r)
  PROVE  \A i \in DOMAIN e.events : EventVerified(e, i)
<1> DEFINE n == Len(d.events)  m == Len(r.intents)
<1>1. d.events \in Seq(EventRecords) /\ (\A i \in DOMAIN d.events : EventVerified(d, i))
      /\ d.heads = HeadsOver(d)
  BY DEF FileHolds, EventsHold, RowsHold
<1>2. n \in Nat /\ m \in Nat /\ DOMAIN d.events = 1 .. n /\ DOMAIN e.events = 1 .. (n + m)
  BY IntentsOf DEF Grown
<1>3. ASSUME NEW i \in 1 .. n PROVE EventVerified(e, i)
  <2>1. Earlier(e, i) = Earlier(d, i) /\ e.events[i] = d.events[i]
    <3>1. Earlier(e, i) = Earlier(d, i)
      BY <1>3, StreamsGrow
    <3>2. e.events[i] = d.events[i]
      BY <1>3 DEF Grown
    <3> QED
      BY <3>1, <3>2
  <2>2. Earlier(d, i) \in SUBSET (1 .. Len(d.events))
    BY <1>1, <1>2, StreamsWithin
  <2>3. \A kind : StatusOver(kind, e.events, Earlier(d, i)) = StatusOver(kind, d.events, Earlier(d, i))
    BY <2>2, StatusOverSame
  <2>4. EventVerified(d, i)
    BY <1>1, <1>2
  <2> QED
    BY <2>1, <2>3, <2>4 DEF EventVerified
<1>4. ASSUME NEW k \in 1 .. m PROVE EventVerified(e, n + k)
  <2> DEFINE a == r.intents[k].agg
             S == StreamOf(d, a)
  <2>1. Earlier(e, n + k) = S
    BY <1>4, StreamsGrow
  <2>2. e.events[n + k] = [cmd |-> r, agg |-> a, ver |-> r.expected[a] + 1, kind |-> r.intents[k].kind]
    BY <1>4, IntentsOf DEF Grown
  <2>3. a \in Touched(r) /\ a \in Aggregates /\ EventFor(r, a) = k
    BY <1>4, IntentsOf
  <2>4. d.heads[a] = HeadOver(d, a)
    BY <1>1, <2>3 DEF HeadsOver
  <2>5. r.expected[a] = Cardinality(S) /\ Legal(KindOf[a], StatusOver(KindOf[a], d.events, S), r.intents[k].kind)
    BY <2>3, <2>4 DEF Acceptable, HeadOver, HeadsOver
  <2>6. S \in SUBSET (1 .. Len(d.events))
    BY <1>1, StreamsWithin
  <2> HIDE DEF S
  <2>7. StatusOver(KindOf[a], e.events, S) = StatusOver(KindOf[a], d.events, S)
    BY <2>6, StatusOverSame
  <2> HIDE DEF a
  <2> QED
    BY <2>1, <2>2, <2>5, <2>7 DEF EventVerified
<1> HIDE DEF n, m
<1>5. \A i \in 1 .. (n + m) : i \in 1 .. n \/ \E k \in 1 .. m : i = n + k
  <2> SUFFICES ASSUME NEW i \in 1 .. (n + m), i \notin 1 .. n PROVE \E k \in 1 .. m : i = n + k
    OBVIOUS
  <2>1. i - n \in 1 .. m /\ i = n + (i - n)
    BY <1>2
  <2> QED
    BY <2>1
<1> QED
  BY <1>2, <1>3, <1>4, <1>5

\* A field that was issued before is settled by the new event, and by no other of its command.
LEMMA IssuesStandAfter ==
  ASSUME NEW d, FileHolds(d), NEW r \in Requests, Acceptable(d, r), NEW e, Grown(d, e, r)
  PROVE  IssuesStand(e.events)
<1> DEFINE n == Len(d.events)  m == Len(r.intents)
<1>1. d.events \in Seq(EventRecords) /\ IssuesStand(d.events)
  BY DEF FileHolds, EventsHold
<1>2. /\ n \in Nat /\ m \in Nat /\ DOMAIN d.events = 1 .. n /\ DOMAIN e.events = 1 .. (n + m)
      /\ \A i \in 1 .. n : e.events[i] = d.events[i]
  BY IntentsOf DEF Grown
<1>3. \A i \in DOMAIN e.events : EventVerified(e, i)
  BY NewEventsVerified
<1>4. ASSUME NEW k \in 1 .. m, NEW i \in DOMAIN e.events, i < n + k, e.events[i].agg = e.events[n + k].agg,
             e.events[i].kind = "field_issued"
      PROVE  e.events[n + k].kind = "field_settled"
  <2> DEFINE a == r.intents[k].agg
             S == StreamOf(d, a)
             kind == KindOf[a]
  <2>1. e.events[n + k] = [cmd |-> r, agg |-> a, ver |-> r.expected[a] + 1, kind |-> r.intents[k].kind]
    BY <1>4, IntentsOf DEF Grown
  <2>2. e.events[n + k].agg = a
    BY <2>1
  <2>3. Earlier(e, n + k) = S
    BY <1>4, StreamsGrow
  <2>4. i \in Earlier(e, n + k)
    BY <1>2, <1>4 DEF Earlier
  <2>5. S \in SUBSET (1 .. n) /\ i \in S
    BY <1>1, <2>3, <2>4, StreamsWithin
  <2>6. Newest(S) \in S /\ i <= Newest(S)
    BY <1>2, <2>5, NewestOf
  <2> DEFINE j == Newest(S)
             last == e.events[j].kind
  <2>7. j \in 1 .. n /\ j \in Earlier(e, n + k) /\ e.events[j].agg = a
    BY <2>2, <2>3, <2>5, <2>6 DEF Earlier
  <2>8. last \in {"field_issued", "field_settled"}
    <3>1. CASE j = i
      BY <1>4, <3>1
    <3>2. CASE i < j
      <4>1. i \in 1 .. n /\ d.events[i].agg = d.events[j].agg /\ d.events[i].kind = "field_issued"
        BY <1>2, <1>4, <2>2, <2>5, <2>7
      <4>2. d.events[j].kind = "field_settled"
        BY <1>1, <1>2, <2>7, <3>2, <4>1 DEF IssuesStand
      <4> QED
        BY <1>2, <2>7, <4>2
    <3> QED
      BY <1>2, <2>5, <2>6, <2>7, <3>1, <3>2
  <2>9. \E before : Legal(kind, before, last)
    <3>1. j \in DOMAIN e.events
      <4> HIDE DEF j, n, m
      <4> QED
        BY <1>2, <2>7
    <3>2. EventVerified(e, j)
      BY <1>3, <3>1
    <3> HIDE DEF j
    <3>3. Legal(KindOf[a], StatusOver(KindOf[a], e.events, Earlier(e, j)), last)
      BY <2>7, <3>2 DEF EventVerified
    <3> QED
      BY <3>3
  <2>10. Legal(kind, StatusAfter(kind, last), r.intents[k].kind)
    <3>0. n + k \in DOMAIN e.events
      <4> HIDE DEF n, m
      <4> QED
        BY <1>2, <1>4
    <3>1. EventVerified(e, n + k)
      BY <1>3, <3>0
    <3>2. StatusOver(kind, e.events, S) = StatusAfter(kind, last)
      BY <2>5 DEF StatusOver
    <3> HIDE DEF kind, last, S, j, a
    <3>3. e.events[n + k].agg = a /\ e.events[n + k].kind = r.intents[k].kind
      BY <2>1
    <3> QED
      BY <2>3, <3>1, <3>2, <3>3 DEF EventVerified, kind
  <2> HIDE DEF kind, last, a
  <2>11. r.intents[k].kind = "field_settled"
    BY <2>8, <2>9, <2>10, AfterIssue
  <2> QED
    BY <2>1, <2>11
<1> HIDE DEF n, m
<1>5. SUFFICES ASSUME NEW i \in 1 .. (n + m), NEW j \in 1 .. (n + m), i < j,
                      e.events[i].agg = e.events[j].agg, e.events[i].kind = "field_issued"
               PROVE  e.events[j].kind = "field_settled"
  BY <1>2 DEF IssuesStand
<1>6. CASE j \in 1 .. n
  <2>1. i \in 1 .. n
    BY <1>2, <1>5, <1>6
  <2> QED
    BY <1>1, <1>2, <1>5, <1>6, <2>1 DEF IssuesStand
<1>7. CASE j \notin 1 .. n
  <2>1. j - n \in 1 .. m /\ j = n + (j - n)
    BY <1>2, <1>7
  <2> QED
    BY <1>2, <1>4, <1>5, <2>1
<1> QED
  BY <1>6, <1>7

LEMMA ResultsVerifiedAfter ==
  ASSUME NEW d, FileHolds(d), NEW r \in Requests, Claims(d, r) = {}, NEW e, Grown(d, e, r),
         e.results = d.results \cup {ResultOf(d, r)}
  PROVE  ResultsVerified(e)
<1> DEFINE n == Len(d.events)  m == Len(r.intents)
           x0 == [cmd |-> r, first |-> n + 1, last |-> n + m]
<1>1. /\ \A x, y \in d.results : x.cmd.key = y.cmd.key => x = y
      /\ \A x \in d.results : /\ x.first \in 1..n /\ x.last \in x.first..n
                              /\ \A i \in x.first..x.last : d.events[i].cmd = x.cmd
      /\ \A i \in DOMAIN d.events : \E x \in d.results : i \in x.first..x.last
  BY DEF FileHolds, ResultsVerified
<1>2. /\ n \in Nat /\ m \in Nat /\ m >= 1 /\ DOMAIN d.events = 1 .. n /\ DOMAIN e.events = 1 .. (n + m)
      /\ Len(e.events) = n + m /\ \A i \in 1 .. n : e.events[i] = d.events[i]
  BY IntentsOf DEF Grown
<1>3. \A k \in 1 .. m : e.events[n + k].cmd = r
  <2>1. \A k \in 1 .. m : e.events[n + k] = NewEvents(r)[k]
    BY DEF Grown
  <2>2. \A k \in 1 .. m : NewEvents(r)[k].cmd = r
    BY IntentsOf
  <2> QED
    BY <2>1, <2>2
<1>4. e.results = d.results \cup {x0}
  BY DEF ResultOf
<1>5. x0.cmd = r /\ x0.first = n + 1 /\ x0.last = n + m
  OBVIOUS
<1>6. \A x \in d.results : x.cmd.key # r.key
  BY DEF Claims
<1> HIDE DEF n, m, x0
<1>7. \A x, y \in e.results : x.cmd.key = y.cmd.key => x = y
  BY <1>1, <1>4, <1>5, <1>6
<1>8. ASSUME NEW x \in e.results
      PROVE  x.first \in 1..Len(e.events) /\ x.last \in x.first..Len(e.events)
             /\ \A i \in x.first..x.last : e.events[i].cmd = x.cmd
  <2>1. CASE x \in d.results
    <3>1. x.first \in 1 .. n /\ x.last \in x.first .. n /\ \A i \in x.first..x.last : d.events[i].cmd = x.cmd
      BY <1>1, <2>1
    <3>2. \A i \in x.first .. x.last : i \in 1 .. n
      BY <1>2, <3>1
    <3>3. \A i \in x.first .. x.last : e.events[i].cmd = x.cmd
      BY <1>2, <3>1, <3>2
    <3>4. x.first \in 1 .. (n + m) /\ x.last \in x.first .. (n + m)
      BY <1>2, <3>1
    <3> QED
      BY <1>2, <3>3, <3>4
  <2>2. CASE x = x0
    <3>1. x.first = n + 1 /\ x.last = n + m /\ x.cmd = r
      BY <1>5, <2>2
    <3>2. \A i \in (n + 1) .. (n + m) : i - n \in 1 .. m /\ i = n + (i - n)
      BY <1>2
    <3>3. \A i \in x.first .. x.last : e.events[i].cmd = x.cmd
      BY <1>3, <3>1, <3>2
    <3>4. x.first \in 1 .. (n + m) /\ x.last \in x.first .. (n + m)
      BY <1>2, <3>1
    <3> QED
      BY <1>2, <3>3, <3>4
  <2> QED
    BY <1>4, <2>1, <2>2
<1>9. ASSUME NEW i \in 1 .. (n + m) PROVE \E x \in e.results : i \in x.first..x.last
  <2>1. CASE i \in 1 .. n
    BY <1>1, <1>2, <1>4, <2>1
  <2>2. CASE i \notin 1 .. n
    <3>1. i \in (n + 1) .. (n + m)
      BY <1>2, <2>2
    <3> QED
      BY <1>4, <1>5, <3>1
  <2> QED
    BY <2>1, <2>2
<1> QED
  BY <1>2, <1>7, <1>8, <1>9 DEF ResultsVerified
\* The derived rows follow the new events.
LEMMA HeadsAfter ==
  ASSUME NEW d, FileHolds(d), NEW r \in Requests, Acceptable(d, r), NEW e, Grown(d, e, r), e.heads = NewHeads(d, r)
  PROVE  e.heads = HeadsOver(e)
<1> DEFINE n == Len(d.events)
<1>1. d.events \in Seq(EventRecords) /\ d.heads = HeadsOver(d)
  BY DEF FileHolds, EventsHold, RowsHold
<1>2. ASSUME NEW a \in Aggregates, a \notin Touched(r) PROVE HeadOver(e, a) = d.heads[a]
  <2>1. StreamOf(e, a) = StreamOf(d, a)
    BY <1>2, StreamsGrow
  <2>2. StreamOf(d, a) \in SUBSET (1 .. Len(d.events))
    BY <1>1, StreamsWithin
  <2>3. StatusOver(KindOf[a], e.events, StreamOf(d, a)) = StatusOver(KindOf[a], d.events, StreamOf(d, a))
    BY <2>2, StatusOverSame
  <2> QED
    BY <1>1, <2>1, <2>3 DEF HeadOver, HeadsOver
<1>3. ASSUME NEW a \in Touched(r)
      PROVE  HeadOver(e, a) = [ver |-> r.expected[a] + 1,
                               status |-> Transition(KindOf[a], d.heads[a].status, r.intents[EventFor(r, a)].kind)]
  <2> DEFINE k == EventFor(r, a)
             S == StreamOf(d, a)
             T == StreamOf(e, a)
             event == r.intents[k].kind
  <2>1. a \in Aggregates /\ k \in 1 .. Len(r.intents) /\ r.intents[k].agg = a /\ n \in Nat /\ Len(r.intents) \in Nat
    BY <1>3, IntentsOf DEF Grown
  <2>2. T = S \cup {n + k}
    BY <1>3, StreamsGrow
  <2>3. S \in SUBSET (1 .. n) /\ IsFiniteSet(S)
    BY <1>1, StreamsWithin
  <2>4. r.expected[a] = Cardinality(S) /\ Legal(KindOf[a], d.heads[a].status, event)
    <3>1. d.heads[a].ver = r.expected[a] /\ Legal(KindOf[a], d.heads[a].status, r.intents[EventFor(r, a)].kind)
      BY <1>3 DEF Acceptable
    <3>2. d.heads[a] = HeadOver(d, a)
      BY <1>1, <2>1 DEF HeadsOver
    <3>3. d.heads[a].ver = Cardinality(StreamOf(d, a))
      BY <3>2 DEF HeadOver, HeadsOver
    <3> QED
      BY <3>1, <3>3
  <2>5. e.events[n + k].kind = event
    <3>1. e.events[n + k] = [cmd |-> r, agg |-> r.intents[k].agg, ver |-> r.expected[r.intents[k].agg] + 1,
                             kind |-> event]
      BY <2>1, IntentsOf DEF Grown
    <3> QED
      BY <3>1
  <2> HIDE DEF n, k, S, T, event
  <2>6. Cardinality(T) = Cardinality(S) + 1
    <3>1. n + k \notin S
      BY <2>1, <2>3
    <3> QED
      BY <2>2, <2>3, <3>1, FS_AddElement
  <2>7. Newest(T) = n + k
    <3>1. n + k \in Nat /\ n < n + k
      BY <2>1
    <3> QED
      BY <2>1, <2>2, <2>3, <3>1, NewestIsLast
  <2>8. StatusOver(KindOf[a], e.events, T) = StatusAfter(KindOf[a], event)
    BY <2>2, <2>5, <2>7 DEF StatusOver
  <2>9. StatusAfter(KindOf[a], event) = Transition(KindOf[a], d.heads[a].status, event)
    BY <2>4, EdgeOf
  <2> QED
    BY <2>4, <2>6, <2>8, <2>9 DEF HeadOver, HeadsOver, T, event, k
<1> HIDE DEF n
<1>4. \A a \in Aggregates : NewHeads(d, r)[a] = HeadOver(e, a)
  BY <1>2, <1>3 DEF NewHeads
<1> QED
  BY <1>4 DEF NewHeads, HeadsOver

LEMMA RowsAfter ==
  ASSUME NEW d, FileHolds(d), NEW r \in Requests, Claims(d, r) = {}, Acceptable(d, r)
  PROVE  RowsHold(Appended(d, r))
<1> DEFINE e == Appended(d, r)
           n == Len(d.events)  m == Len(r.intents)
           fresh == { a \in Touched(r) : r.expected[a] = 0 }
<1>1. /\ e.events = d.events \o NewEvents(r) /\ e.results = d.results \cup {ResultOf(d, r)}
      /\ e.heads = NewHeads(d, r) /\ e.cursor = NewCursor(d, r)
      /\ e.obligations = d.obligations \cup (IF IsReaction(r) THEN {r.key} ELSE {})
      /\ e.checkpoint = NewCheckpoint(d, r)
      /\ e = [events |-> e.events, results |-> e.results, bindings |-> e.bindings, heads |-> e.heads,
              cursor |-> e.cursor, obligations |-> e.obligations, checkpoint |-> e.checkpoint]
  BY DEF Appended
<1>2. Grown(d, e, r)
  BY AppendGrows DEF FileHolds, EventsHold
<1> HIDE DEF e
<1>3. RowsHold(d) /\ d.events \in Seq(EventRecords)
  BY DEF FileHolds, EventsHold
<1>4. Len(e.events) = n + m
  BY <1>2 DEF Grown
<1>5. e.heads = HeadsOver(e)
  <2>1. e.heads = NewHeads(d, r)
    BY <1>1
  <2> QED
    BY <1>2, <2>1, HeadsAfter
<1>6. IsFiniteSet(Present(e)) /\ e.checkpoint = [seq |-> Len(e.events), heads |-> HeadCount(e)]
  <2>1. IsFiniteSet(Present(d)) /\ d.checkpoint.heads = HeadCount(d) /\ HeadCount(d) = Cardinality(Present(d))
        /\ HeadCount(e) = Cardinality(Present(e))
    BY <1>3 DEF RowsHold, HeadCount, Present
  <2>2. IsFiniteSet(fresh)
    BY IntentsOf, FS_Subset
  <2>3. \A a \in Touched(r) : a \in Aggregates /\ r.expected[a] \in Nat /\ d.heads[a].ver = r.expected[a]
    BY IntentsOf DEF Acceptable
  <2>4. \A a \in Aggregates : e.heads[a].ver = IF a \in Touched(r) THEN r.expected[a] + 1 ELSE d.heads[a].ver
    BY <1>1 DEF NewHeads
  <2>5. Present(e) = Present(d) \cup fresh /\ Present(d) \cap fresh = {}
    BY <2>3, <2>4 DEF Present
  <2> HIDE DEF fresh
  <2>6. Cardinality(Present(e)) = Cardinality(Present(d)) + Cardinality(fresh) /\ IsFiniteSet(Present(e))
    <3>1. Cardinality(Present(d) \cap fresh) = 0
      BY <2>5, FS_EmptySet
    <3>2. Cardinality(Present(d)) \in Nat /\ Cardinality(fresh) \in Nat
      BY <2>1, <2>2, FS_CardinalityType
    <3> DEFINE A == Present(d)
    <3> HIDE DEF A
    <3>3. IsFiniteSet(A) /\ IsFiniteSet(fresh) /\ Cardinality(A \cap fresh) = 0
          /\ Cardinality(A) \in Nat /\ Cardinality(fresh) \in Nat
      BY <2>1, <2>2, <3>1, <3>2 DEF A
    <3>4. IsFiniteSet(A \cup fresh)
          /\ Cardinality(A \cup fresh) = Cardinality(A) + Cardinality(fresh) - Cardinality(A \cap fresh)
      BY <3>3, FS_Union
    <3>5. Cardinality(A \cup fresh) = Cardinality(A) + Cardinality(fresh)
      BY <3>3, <3>4
    <3> QED
      BY <2>5, <3>4, <3>5 DEF A
  <2>7. e.checkpoint = [seq |-> n + m, heads |-> d.checkpoint.heads + Cardinality(fresh)]
    BY <1>1 DEF NewCheckpoint, fresh
  <2> QED
    BY <1>4, <2>1, <2>6, <2>7
<1>7. IsFiniteSet(e.obligations) /\ (\A k \in e.obligations : \E x \in e.results : x.cmd.key = k)
      /\ e.cursor.relevant = Cardinality(e.obligations)
  <2>1. /\ IsFiniteSet(d.obligations) /\ \A k \in d.obligations : \E x \in d.results : x.cmd.key = k
        /\ d.cursor.relevant = Cardinality(d.obligations)
    BY <1>3 DEF RowsHold
  <2>2. r.key \notin d.obligations
    BY <2>1 DEF Claims
  <2>3. ResultOf(d, r).cmd = r
    BY DEF ResultOf
  <2>4. e.cursor.relevant = d.cursor.relevant + (IF IsReaction(r) THEN 1 ELSE 0)
    BY <1>1 DEF NewCursor
  <2>5. Cardinality(d.obligations) \in Nat
    BY <2>1, FS_CardinalityType
  <2>6. CASE IsReaction(r)
    <3>1. e.obligations = d.obligations \cup {r.key}
      BY <1>1, <2>6
    <3>2. IsFiniteSet(e.obligations) /\ Cardinality(e.obligations) = Cardinality(d.obligations) + 1
      <4> DEFINE O == d.obligations
      <4>1. IsFiniteSet(O) /\ r.key \notin O
        BY <2>1, <2>2
      <4> HIDE DEF O
      <4>2. IsFiniteSet(O \cup {r.key}) /\ Cardinality(O \cup {r.key}) = Cardinality(O) + 1
        BY <4>1, FS_AddElement
      <4> QED
        BY <3>1, <4>2 DEF O
    <3>3. \A k \in e.obligations : \E x \in e.results : x.cmd.key = k
      BY <1>1, <2>1, <2>3, <3>1
    <3> QED
      BY <2>1, <2>4, <2>6, <3>2, <3>3
  <2>7. CASE ~IsReaction(r)
    BY <1>1, <2>1, <2>4, <2>5, <2>7
  <2> QED
    BY <2>6, <2>7
<1>8. e.cursor.through = n + m
  BY <1>1 DEF NewCursor
<1>9. RowsHold(e)
  BY <1>1, <1>4, <1>5, <1>6, <1>7, <1>8 DEF RowsHold
<1> QED
  BY <1>9 DEF e

LEMMA CommandHolds ==
  ASSUME NEW d, FileHolds(d), NEW r \in Requests, Claims(d, r) = {}, Acceptable(d, r)
  PROVE  FileHolds(Appended(d, r))
<1> DEFINE e == Appended(d, r)
<1>1. e.results = d.results \cup {ResultOf(d, r)} /\ e.bindings = d.bindings
  BY DEF Appended
<1>2. Grown(d, e, r)
  BY AppendGrows DEF FileHolds, EventsHold
<1>3. RowsHold(e)
  BY RowsAfter
<1> HIDE DEF e
<1>4. EventsHold(e)
  BY <1>2, NewEventsVerified, IssuesStandAfter DEF EventsHold, Grown
<1>5. ResultsVerified(e)
  BY <1>1, <1>2, ResultsVerifiedAfter
<1>6. FileHolds(e)
  BY <1>1, <1>3, <1>4, <1>5 DEF FileHolds
<1> QED
  BY <1>6 DEF e

LEMMA ReservationHolds ==
  ASSUME NEW d, FileHolds(d), NEW b, Reservable(d, b)
  PROVE  FileHolds(Reserved(d, b))
<1> DEFINE e == Reserved(d, b)
<1>1. /\ e.events = d.events /\ e.results = d.results /\ e.bindings = d.bindings \cup {b} /\ e.heads = d.heads
      /\ e.cursor = d.cursor /\ e.obligations = d.obligations /\ e.checkpoint = d.checkpoint
      /\ e = [events |-> e.events, results |-> e.results, bindings |-> e.bindings, heads |-> e.heads,
              cursor |-> e.cursor, obligations |-> e.obligations, checkpoint |-> e.checkpoint]
  <2>1. d = [events |-> d.events, results |-> d.results, bindings |-> d.bindings, heads |-> d.heads,
             cursor |-> d.cursor, obligations |-> d.obligations, checkpoint |-> d.checkpoint]
    BY DEF FileHolds, RowsHold
  <2>2. e = [d EXCEPT !.bindings = d.bindings \cup {b}]
    BY DEF Reserved
  <2> HIDE DEF e
  <2>3. e = [events |-> d.events, results |-> d.results, bindings |-> d.bindings \cup {b}, heads |-> d.heads,
             cursor |-> d.cursor, obligations |-> d.obligations, checkpoint |-> d.checkpoint]
    BY <2>1, <2>2
  <2> QED
    BY <2>3
<1> HIDE DEF e
<1>2. (\A i : Earlier(e, i) = Earlier(d, i)) /\ (\A a : StreamOf(e, a) = StreamOf(d, a))
      /\ Present(e) = Present(d) /\ HeadCount(e) = HeadCount(d)
  BY <1>1 DEF Earlier, StreamOf, Present, HeadCount
<1>3. EventsHold(e)
  BY <1>1, <1>2 DEF FileHolds, EventsHold, EventVerified
<1>4. ResultsVerified(e)
  BY <1>1 DEF FileHolds, ResultsVerified
<1>5. RowsHold(e)
  <2>1. \A a : HeadOver(e, a) = HeadOver(d, a)
    BY <1>1, <1>2 DEF HeadOver, HeadsOver
  <2> QED
    BY <1>1, <1>2, <2>1 DEF FileHolds, RowsHold, HeadsOver
<1>6. OneInputEach(e.bindings)
  BY <1>1 DEF FileHolds, OneInputEach, Reservable
<1>7. FileHolds(e)
  BY <1>3, <1>4, <1>5, <1>6 DEF FileHolds
<1> QED
  BY <1>7 DEF e

----------------------------------------------------------------------------
(* The files, the open transactions and the signed history.                *)

HistoryHolds(f) == IssuesStand(f.events) /\ OneInputEach(f.bindings)

\* The inductive invariant.
FilesInv ==
  /\ IInv /\ HistoryHolds(witness.facts)
  /\ \A c \in Copies : FileHolds(db[c])
  /\ \A p \in Clients : phase[p] \in {"prepared", "witnessed"} => FileHolds(work[p])

LEMMA FactsHold ==
  ASSUME NEW d, FileHolds(d)
  PROVE  HistoryHolds(Facts(d))
BY DEF FileHolds, EventsHold, HistoryHolds, Facts

LEMMA FilesStep == FilesInv /\ [Next]_vars => FilesInv'
<1> SUFFICES ASSUME FilesInv, [Next]_vars PROVE FilesInv'
  OBVIOUS
<1> DEFINE open(p) == phase[p] \in {"prepared", "witnessed"}
           Held == HistoryHolds(witness.facts) /\ (\A c \in Copies : FileHolds(db[c]))
                   /\ \A p \in Clients : open(p) => FileHolds(work[p])
<1>0. IInv /\ TypeOK /\ Tables /\ Held
  BY DEF FilesInv, IInv
<1>1. ASSUME NEW c \in Copies, Provision(c) PROVE Held'
  BY <1>0, <1>1, FactsHold DEF Provision, clientVars
<1>2. ASSUME NEW c \in Copies, Startup(c) PROVE Held'
  <2>1. db' = db
    <3>1. DeepCheckpoint(db[c]) = db[c] /\ db = [e \in Copies |-> db[e]]
      BY <1>0, FileReopens DEF Tables
    <3>2. db' = [db EXCEPT ![c] = db[c]]
      BY <1>2, <3>1 DEF Startup
    <3> QED
      BY <3>1, <3>2
  <2> QED
    BY <1>0, <1>2, <2>1 DEF Startup, clientVars
<1>3. ASSUME NEW c \in Copies, Crash(c) PROVE Held'
  BY <1>0, <1>3 DEF Crash
<1>4. ASSUME NEW a \in Copies, NEW b \in Copies, CopyFile(a, b) PROVE Held'
  <2>1. \A c \in Copies : FileHolds(db'[c])
    BY <1>0, <1>4 DEF CopyFile, Tables
  <2> QED
    BY <1>0, <1>4, <2>1 DEF CopyFile, clientVars
<1>5. ASSUME NEW p \in Clients, NEW c, NEW call \in {"execute", "lookup", "reserve"}, NEW r, Submit(p, c, call, r)
      PROVE  Held'
  BY <1>0, <1>5 DEF Submit, TypeOK
<1>6. ASSUME NEW p \in Clients, NEW outcome, Finish(p, outcome), db' = db, witness'.facts = witness.facts
      PROVE  Held'
  BY <1>0, <1>6 DEF Finish, TypeOK, Tables
<1>7. ASSUME NEW p \in Clients, Busy(p) \/ Unbound(p) \/ Untrusted(p) \/ ReturnStored(p) \/ ReturnReserved(p)
                                \/ Conflict(p) \/ LookupUntrusted(p) \/ LookupAnswer(p)
      PROVE  Held'
  <2>1. db' = db /\ witness' = witness /\ \E outcome : Finish(p, outcome)
    BY <1>7 DEF Busy, Unbound, Untrusted, ReturnStored, ReturnReserved, Conflict, LookupUntrusted, LookupAnswer
  <2> QED
    BY <1>6, <2>1
<1>8. ASSUME NEW p \in Clients, PrepareExecute(p) \/ PrepareReserve(p) PROVE Held'
  <2> DEFINE d == db[at[p]]
  <2>1. at[p] \in Copies /\ FileHolds(d)
    BY <1>0, <1>8 DEF PrepareExecute, PrepareReserve, Ready, Waiting, TypeOK, Phases
  <2>2. PICK e : Prepare(p, e) /\ FileHolds(e)
    <3>1. CASE PrepareExecute(p)
      <4>1. req[p] \in Requests /\ Claims(d, req[p]) = {} /\ Acceptable(d, req[p])
        BY <1>0, <3>1 DEF PrepareExecute, TypeOK
      <4> QED
        BY <2>1, <3>1, <4>1, CommandHolds DEF PrepareExecute
    <3>2. CASE PrepareReserve(p)
      BY <2>1, <3>2, ReservationHolds DEF PrepareReserve
    <3> QED
      BY <1>8, <3>1, <3>2
  <2>3. UNCHANGED <<db, witness>> /\ phase' = [phase EXCEPT ![p] = "prepared"] /\ work' = [work EXCEPT ![p] = e]
    BY <2>2 DEF Prepare
  <2>4. \A q \in Clients : phase'[q] \in {"prepared", "witnessed"} => FileHolds(work'[q])
    BY <1>0, <2>2, <2>3 DEF TypeOK, Tables
  <2> QED
    BY <1>0, <2>3, <2>4
<1>9. ASSUME NEW p \in Clients, AdvanceWitness(p) PROVE Held'
  <2>1. witness'.facts = Facts(work[p]) /\ phase[p] = "prepared" /\ phase' = [phase EXCEPT ![p] = "witnessed"]
        /\ UNCHANGED <<db, work>>
    BY <1>9 DEF AdvanceWitness, Swap
  <2>2. HistoryHolds(Facts(work[p]))
    BY <1>0, <2>1, FactsHold
  <2> QED
    BY <1>0, <2>1, <2>2 DEF TypeOK
<1>10. ASSUME NEW p \in Clients, AdvanceRejected(p) \/ CommitFails(p) PROVE Held'
  BY <1>6, <1>10 DEF AdvanceRejected, CommitFails, Rollback
<1>11. ASSUME NEW p \in Clients, AdvanceUncertain(p) PROVE Held'
  <2>1. Finish(p, "recovery") /\ db' = db /\ phase[p] = "prepared"
        /\ (witness'.facts = Facts(work[p]) \/ witness' = witness)
    BY <1>11 DEF AdvanceUncertain, Rollback, Swap
  <2>2. HistoryHolds(witness'.facts)
    BY <1>0, <2>1, FactsHold
  <2> QED
    BY <1>0, <2>1, <2>2 DEF Finish, TypeOK, Tables
<1>12. ASSUME NEW p \in Clients, Commit(p) PROVE Held'
  <2>1. phase[p] = "witnessed" /\ db' = [db EXCEPT ![at[p]] = work[p]] /\ UNCHANGED witness
        /\ \E outcome : Finish(p, outcome)
    BY <1>12 DEF Commit
  <2>2. \A c \in Copies : FileHolds(db'[c])
    BY <1>0, <2>1 DEF Tables
  <2> QED
    BY <1>0, <2>1, <2>2 DEF Finish, TypeOK, Tables
<1>13. ASSUME NEW p \in Clients, Snapshot(p) PROVE Held'
  BY <1>0, <1>13 DEF Snapshot, TypeOK, Tables
<1>14. ASSUME UNCHANGED vars PROVE Held'
  <2>1. UNCHANGED <<db, witness, phase, work>>
    BY <1>14 DEF vars, clientVars
  <2> QED
    BY <1>0, <2>1
<1> HIDE DEF Held
<1>15. Held'
  BY <1>1, <1>2, <1>3, <1>4, <1>5, <1>7, <1>8, <1>9, <1>10, <1>11, <1>12, <1>13, <1>14 DEF Next, Serve
<1>16. IInv'
  BY <1>0, TypeStep, SafetyStep DEF IInv
<1> QED
  BY <1>15, <1>16 DEF FilesInv, Held

LEMMA InitHolds == Init => FilesInv
<1> SUFFICES ASSUME Init PROVE FilesInv
  OBVIOUS
<1>1. IInv
  BY InitSafe
<1>2. HistoryHolds(witness.facts)
  BY EmptyFile, FactsHold DEF Init, NoWitness
<1> QED
  BY <1>1, <1>2, EmptyFile DEF Init, FilesInv

\* Every database file that was committed, restored or forked opens again: its streams, heads, stored
\* results, reaction cursor and checkpoint agree, whichever clients, copies and failures there were; no
\* field has two issue events in the signed history, and a public key binds one input (execute,
\* reserve_public_operation, _verify_connection).
THEOREM CommandsStayKept == Spec => []CommandsAreKept
<1>1. Init => FilesInv
  BY InitHolds
<1>2. FilesInv /\ [Next]_vars => FilesInv'
  BY FilesStep
<1>3. FilesInv => CommandsAreKept
  <2> SUFFICES ASSUME FilesInv PROVE CommandsAreKept
    OBVIOUS
  <2>1. CommittedReopens
    BY FileReopens DEF FilesInv, CommittedReopens
  <2>2. IssuedOnce
    <3>1. witness.facts.events \in Seq(EventRecords) /\ IssuesStand(witness.facts.events)
      BY DEF FilesInv, IInv, PastOfWitness, HistoryOK, HistoryHolds
    <3> DEFINE events == witness.facts.events
    <3>2. SUFFICES ASSUME NEW i \in DOMAIN events, NEW j \in DOMAIN events, events[i].kind = "field_issued",
                          events[j].kind = "field_issued", events[i].agg = events[j].agg
                   PROVE  i = j
      BY DEF IssuedOnce
    <3>3. ~(i < j) /\ ~(j < i)
      BY <3>1, <3>2 DEF IssuesStand
    <3>4. i \in Nat /\ j \in Nat
      BY <3>1
    <3> QED
      BY <3>3, <3>4
  <2>3. OneInputPerPublicKey
    BY DEF FilesInv, HistoryHolds, OneInputEach, OneInputPerPublicKey
  <2> QED
    BY <2>1, <2>2, <2>3 DEF CommandsAreKept
<1> QED
  BY <1>1, <1>2, <1>3, PTL DEF Spec
============================================================================
