-------------------------- MODULE LinuxCompetition --------------------------
(***************************************************************************)
(* The local Linux competition runtime: one command-line process per       *)
(* command, all over one signed command log.                               *)
(*                                                                         *)
(* A row of the log holds the request, the response and the state after    *)
(* it.  The log is written under a file lock, its head is kept in a second *)
(* file, and the response is acknowledged once the installation has been   *)
(* archived.  Processes may be killed at any step and are run again with   *)
(* the same command; the database file may be replaced by an older copy;   *)
(* the model bundle may be replaced or removed.                            *)
(*                                                                         *)
(* A digest is the value it is taken of, a receipt identity is its field   *)
(* and revision, a forecast is the epoch and the model it was made from.   *)
(***************************************************************************)
EXTENDS Integers, Sequences, FiniteSets, FiniteSetsExt, SequencesExt

CONSTANTS
  Operators,        \* the terminals that start processes
  Work,             \* the plans: terminal -> the commands it gives, in order
  LinuxCommands,    \* command -> what it asks
  RedFields,        \* fields whose assessors disagree by five marks or more
  Losses,           \* competitor -> [formula, ml], normalized CRPS in tenths
  Bundles, FirstBundle,   \* the model bundles, and the one installed first
  MaxLinuxClock, MaxKills, MaxRollbacks, MaxSwaps

\* The commands of the command line, and the terminals that give them.
LinuxOps == {"forecast", "field", "approve", "issue", "settle", "correct", "close_round", "advance", "close_scope"}
ASSUME LinuxCommandsAssumption ==
  \A c \in DOMAIN LinuxCommands :
    /\ "op" \in DOMAIN LinuxCommands[c] /\ LinuxCommands[c].op \in LinuxOps
    /\ LinuxCommands[c].op = "field" => "field" \in DOMAIN LinuxCommands[c]
ASSUME LinuxWorkAssumption == Work \subseteq [Operators -> Seq(DOMAIN LinuxCommands)]

VARIABLES
  installed,     \* files of the installation written so far
  commandLog,    \* rows [id, request, response, after]
  headFile,      \* [sequence, id]
  archives,      \* the logs that were archived
  lockedBy,      \* the holder of the writer lock
  histories,     \* competition -> its frozen workbook
  serving,        \* the installed model bundle
  asked,         \* command -> its request, once the caller has built it
  shift,         \* terminal -> its process
  acknowledged,  \* the answers [id, response] that callers have seen
  linuxClock, mishaps

linuxVars == <<installed, commandLog, headFile, archives, lockedBy, histories, serving, asked,
               shift, acknowledged, linuxClock, mishaps>>

NoOperator == "nobody"
NotAsked == [op |-> "none"]
Nil == [none |-> TRUE]
NoModel == "none"
Empty == [x \in {} |-> 0]
\* A request with more in it.
Adding(q, more) == [x \in DOMAIN q \cup DOMAIN more |-> IF x \in DOMAIN more THEN more[x] ELSE q[x]]
Competitions == { LinuxCommands[c].scope : c \in DOMAIN LinuxCommands }

-----------------------------------------------------------------------------
(* The log.                                                                *)

RootsAfter(log) == IF log = <<>> THEN Empty ELSE Last(log).after
Roots == RootsAfter(commandLog)
CommandId(q) == <<"command", q.id>>
RowsOf(id) == { n \in DOMAIN commandLog : commandLog[n].id = id }
HeadOf(log) == IF log = <<>> THEN [sequence |-> 0, id |-> <<>>]
               ELSE [sequence |-> Len(log), id |-> Last(log).id]

\* The retained head is some row of the database.
Verifies ==
  \/ headFile.sequence = 0
  \/ headFile.sequence \in DOMAIN commandLog /\ commandLog[headFile.sequence].id = headFile.id

-----------------------------------------------------------------------------
(* Rounds and their frozen epochs.                                         *)

GroupRounds(root, group) == { r \in DOMAIN root.rounds : root.rounds[r].group = group }
RoundClosed(root, r) == root.rounds[r].status = "closed"

\* What a settlement teaches: one observation per competitor, whatever the outcome.
LiveResults(field) ==
  { [field |-> field.receipt.field, who |-> c, revision |-> field.settlement.revision,
     completed |-> c \in field.settlement.done, at |-> field.settlement.observed,
     scope |-> field.receipt.scope] : c \in DOMAIN field.receipt.roster }

SettledFields(root) == { f \in DOMAIN root.fields : root.fields[f].settlement # Nil }
\* Settled fields of closed rounds: earlier ones of this competition, all of one that ended before the cutoff.
EpochFields(roots, s, scope, ordinal, cutoff) ==
  { f \in SettledFields(roots[s]) :
      LET r == roots[s].fields[f].receipt.round IN
      /\ RoundClosed(roots[s], r)
      /\ IF s = scope THEN roots[s].rounds[r].ordinal < ordinal
         ELSE roots[s].status = "closed" /\ roots[s].closedAt < cutoff }
EpochEvidence(roots, scope, ordinal, cutoff, at) ==
  UNION { UNION { { o \in LiveResults(roots[s].fields[f]) : o.at <= at /\ (s = scope \/ o.at < cutoff) } :
                  f \in EpochFields(roots, s, scope, ordinal, cutoff) } : s \in DOMAIN roots }

\* Formula's share in percent: eight opportunities at a tenth each before any score, kept within 10..90.
Share(scores) ==
  LET f == MapThenSumSet(LAMBDA x : Losses[x.who].formula, scores) + 8
      m == MapThenSumSet(LAMBDA x : Losses[x.who].ml, scores) + 8
      p == (100 * m) \div (f + m)
  IN  IF p < 10 THEN 10 ELSE IF p > 90 THEN 90 ELSE p
EarnedScores(root, ordinal) ==
  { x \in root.scores : RoundClosed(root, x.round) /\ root.rounds[x.round].ordinal < ordinal }

\* status(): without a bundle, the identity that some competition retains.
InstalledModel ==
  IF serving # NoModel \/ Roots = Empty THEN serving ELSE (CHOOSE root \in { Roots[s] : s \in DOMAIN Roots } : TRUE).model

NewRoot(q) ==
  [selection |-> q.selection, model |-> InstalledModel, cutoff |-> q.cutoff, status |-> "open", closedAt |-> 0, rounds |-> Empty,
   phases |-> Empty, fields |-> Empty, seeded |-> {}, superseded |-> {}, scores |-> {}]
RootFor(roots, q) == IF q.scope \in DOMAIN roots THEN roots[q.scope] ELSE NewRoot(q)

Predecessors(root, q) ==
  IF q.after = {} /\ q.ordinal > 1
  THEN { r \in GroupRounds(root, q.group) : root.rounds[r].ordinal < q.ordinal }
  ELSE q.after
FreezeFits(root, q) ==
  /\ root.selection = q.selection /\ root.status = "open" /\ q.round \notin DOMAIN root.rounds
  /\ \A r \in GroupRounds(root, q.group) : q.ordinal >= root.rounds[r].ordinal
  /\ q.ordinal > 1 => Predecessors(root, q) # {}
  /\ \A r \in Predecessors(root, q) : r \in GroupRounds(root, q.group) /\ RoundClosed(root, r)
  /\ <<q.group, q.ordinal>> \notin DOMAIN root.phases =>
       \A r \in GroupRounds(root, q.group) : root.rounds[r].ordinal < q.ordinal => RoundClosed(root, r)

\* The first round of a phase fixes the epoch of all its rounds.
PhaseFor(roots, root, q, at) ==
  IF <<q.group, q.ordinal>> \in DOMAIN root.phases THEN root.phases[<<q.group, q.ordinal>>]
  ELSE [live |-> EpochEvidence(roots, q.scope, q.ordinal, root.cutoff, at),
        share |-> Share(EarnedScores(root, q.ordinal))]
Extend(f, x, v) == [y \in DOMAIN f \cup {x} |-> IF y = x THEN v ELSE f[y]]
Frozen(roots, q, at) ==
  LET root == RootFor(roots, q)
      phase == PhaseFor(roots, root, q, at) IN
  Extend(roots, q.scope,
    [root EXCEPT !.phases = Extend(@, <<q.group, q.ordinal>>, phase),
                 !.rounds = Extend(@, q.round, [status |-> "open", ordinal |-> q.ordinal, group |-> q.group,
                                                epoch |-> phase])])

-----------------------------------------------------------------------------
(* Transitions of one competition: guard and effect.                       *)

\* The identity of a competitor is bound both ways for the whole competition.
BindingsHold(root, q) ==
  \A roster \in { root.fields[f].receipt.roster : f \in DOMAIN root.fields } \cup root.superseded
                  \cup { x.roster : x \in root.seeded } :
    \A c \in DOMAIN roster, d \in DOMAIN q.roster : c = d <=> roster[c] = q.roster[d]

FieldOf(root, f) == IF f \in DOMAIN root.fields THEN root.fields[f] ELSE Nil
FieldUnchanged(root, q) == FieldOf(root, q.field) = q.previous
PrepareFits(root, q) ==
  /\ BindingsHold(root, q)
  /\ root.rounds[q.round].status = "open" /\ root.rounds[q.round].epoch = q.receipt.epoch
  /\ q.op = "field" => FieldUnchanged(root, q)
Prepared(root, q) ==
  IF q.op = "forecast" THEN [root EXCEPT !.seeded = @ \cup {[round |-> q.round, roster |-> q.roster]}]
  ELSE [root EXCEPT
         !.superseded = @ \cup (IF q.previous = Nil THEN {} ELSE {q.previous.receipt.roster}),
         !.fields = Extend(@, q.field, [receipt |-> q.receipt, decision |-> "undecided",
                                        issue |-> Nil, settlement |-> Nil])]

Classification(receipt) ==
  IF receipt.kind = "handicap" /\ receipt.field \in RedFields THEN "red" ELSE "amber"
ApprovalPage(root) ==
  { [receipt |-> root.fields[f].receipt, decision |-> root.fields[f].decision] : f \in DOMAIN root.fields }

Accepting == {"degraded_batch_accept", "individual_accept"}
\* An ordinary batch is never eligible in this profile.
ApproveFits(root, q) ==
  /\ q.snapshot = ApprovalPage(root) /\ q.selected # {} /\ q.selected \cap q.excluded = {}
  /\ q.action \in Accepting \cup {"exclude", "defer"}
  /\ q.action # "degraded_batch_accept" => Cardinality(q.selected) = 1
  /\ \A f \in q.selected \cup q.excluded :
       f \in DOMAIN root.fields /\ root.fields[f].decision = "undecided"
  /\ q.action = "degraded_batch_accept" =>
       \A f \in q.selected : Classification(root.fields[f].receipt) # "red"
Decided(root, q) ==
  [root EXCEPT !.fields = [f \in DOMAIN @ |->
     IF f \in q.selected THEN [@[f] EXCEPT !.decision = q.action]
     ELSE IF f \in q.excluded THEN [@[f] EXCEPT !.decision = "exclude"] ELSE @[f]]]

Holds(root, receipt) == receipt.field \in DOMAIN root.fields /\ root.fields[receipt.field].receipt = receipt
IssueFits(root, q) ==
  \A receipt \in q.receipts :
    /\ Holds(root, receipt)
    /\ LET field == root.fields[receipt.field] IN
       field.decision \in Accepting /\ field.issue = Nil /\ ~RoundClosed(root, receipt.round)
Issued(root, q) ==
  [root EXCEPT !.fields = [f \in DOMAIN @ |->
     IF @[f].receipt \in q.receipts THEN [@[f] EXCEPT !.issue = [batch |-> q.id, at |-> q.at]] ELSE @[f]]]

SettleFits(root, q, at, previous) ==
  /\ q.observed <= at /\ Holds(root, q.receipt)
  /\ LET field == root.fields[q.receipt.field] IN
     /\ field.issue # Nil /\ field.issue.batch = q.batch /\ q.observed >= field.issue.at
     /\ field.settlement = previous
Settled(root, q, revision) ==
  [root EXCEPT
    !.fields[q.receipt.field].settlement = [id |-> q.id, revision |-> revision, done |-> q.done, observed |-> q.observed],
    !.scores = @ \cup { [field |-> q.receipt.field, who |-> c, round |-> q.receipt.round,
                         revision |-> revision] : c \in q.done }]

CorrectFits(root, q, at) ==
  LET previous == IF Holds(root, q.receipt) THEN root.fields[q.receipt.field].settlement ELSE Nil IN
  /\ previous # Nil /\ previous.id = q.supersedes /\ q.observed >= previous.observed
  /\ SettleFits(root, q, at, previous)
\* A correction takes back what the superseded result has taught.
Retained(root, q) == { x \in root.scores : x.field # q.receipt.field }
Corrected(root, q) ==
  Settled([root EXCEPT !.scores = Retained(root, q)], q, root.fields[q.receipt.field].settlement.revision + 1)

FieldsOf(root, r) == { f \in DOMAIN root.fields : root.fields[f].receipt.round = r }
CloseFits(root, r) ==
  RoundClosed(root, r) \/
    /\ FieldsOf(root, r) # {} \/ \E x \in root.seeded : x.round = r
    /\ \A f \in FieldsOf(root, r) : root.fields[f].settlement # Nil \/ root.fields[f].decision = "exclude"
Closing(root, rounds) ==
  [root EXCEPT !.rounds = [r \in DOMAIN @ |-> IF r \in rounds THEN [@[r] EXCEPT !.status = "closed"] ELSE @[r]]]
Earlier(root, q) == { r \in GroupRounds(root, q.group) : root.rounds[r].ordinal < q.ordinal }
Fieldless(root) == { r \in DOMAIN root.rounds : FieldsOf(root, r) = {} }

\* Only a correction reaches a closed competition.
Fits(root, q, at) ==
  /\ root.selection = q.selection
  /\ root.status = "open" \/ q.op = "correct"
  /\ CASE q.op \in {"forecast", "field"} -> PrepareFits(root, q)
       [] q.op = "approve" -> ApproveFits(root, q)
       [] q.op = "issue" -> IssueFits(root, q)
       [] q.op = "settle" -> SettleFits(root, q, at, Nil)
       [] q.op = "correct" -> CorrectFits(root, q, at)
       [] q.op = "close_round" -> q.round \in DOMAIN root.rounds /\ CloseFits(root, q.round)
       [] q.op = "advance" -> Earlier(root, q) # {} /\ \A r \in Earlier(root, q) : CloseFits(root, r)
       [] q.op = "close_scope" ->
            /\ root.rounds # Empty /\ \A r \in Fieldless(root) : CloseFits(root, r)
            /\ \A r \in DOMAIN root.rounds \ Fieldless(root) : RoundClosed(root, r)
After(root, q) ==
  CASE q.op \in {"forecast", "field"} -> Prepared(root, q)
    [] q.op = "approve" -> Decided(root, q)
    [] q.op = "issue" -> Issued(root, q)
    [] q.op = "settle" -> Settled(root, q, 1)
    [] q.op = "correct" -> Corrected(root, q)
    [] q.op = "close_round" -> Closing(root, {q.round})
    [] q.op = "advance" -> Closing(root, Earlier(root, q))
    [] q.op = "close_scope" -> [Closing(root, Fieldless(root)) EXCEPT !.status = "closed", !.closedAt = q.at]
\* The response of a command; closing names the row that closed the competition.
Response(q) ==
  CASE q.op \in {"forecast", "field"} -> [id |-> q.id, receipt |-> q.receipt]
    [] q.op = "close_scope" -> [id |-> q.id, sequence |-> Len(commandLog) + 1]
    [] OTHER -> [id |-> q.id]

-----------------------------------------------------------------------------
(* A process.                                                              *)

Idle(left) == [step |-> "idle", left |-> left]
Quiet(w) == UNCHANGED <<installed, archives, acknowledged, linuxClock, mishaps>>
Unlocked == lockedBy = NoOperator
RefuseCommand(w) == shift' = [shift EXCEPT ![w] = Idle(Tail(@.left))]
Goto(w, s) == shift' = [shift EXCEPT ![w].step = s]

\* init writes the key, the identity, the head and the database; it never repairs a partial installation.
Initialize ==
  /\ installed.files < 4 /\ installed.running
  /\ installed' = [installed EXCEPT !.files = @ + 1, !.running = installed.files < 3]
  /\ UNCHANGED <<commandLog, headFile, archives, lockedBy, histories, serving, asked, shift, acknowledged,
                 linuxClock, mishaps>>

\* What a caller can put into its request from what it sees now.
CommandOf(c) ==
  LET q == LinuxCommands[c]
      root == Roots[q.scope]
      base == Adding(q, [id |-> c, selection |-> IF q.scope \in DOMAIN Roots THEN root.selection ELSE InstalledModel])
  IN CASE q.op \in {"forecast", "field"} -> base
       [] q.op = "approve" -> Adding(base, [snapshot |-> ApprovalPage(root)])
       [] q.op = "issue" -> Adding(base, [receipts |-> { root.fields[f].receipt : f \in q.fields }, at |-> linuxClock])
       [] q.op \in {"settle", "correct"} ->
            LET field == root.fields[q.field] IN
            Adding(base, [receipt |-> field.receipt, observed |-> linuxClock, batch |-> field.issue.batch,
             supersedes |-> IF q.op = "correct" THEN field.settlement.id ELSE "none"])
       [] OTHER -> Adding(base, [at |-> linuxClock])
CanAsk(c) ==
  LET q == LinuxCommands[c] IN
  q.op \in {"forecast", "field"} \/
    /\ q.scope \in DOMAIN Roots
    /\ LET fields == Roots[q.scope].fields IN
       CASE q.op = "approve" -> q.selected \cup q.excluded \subseteq DOMAIN fields
         [] q.op = "issue" -> \A f \in q.fields : f \in DOMAIN fields /\ fields[f].decision # "undecided"
         [] q.op = "settle" -> q.field \in DOMAIN fields /\ fields[q.field].issue # Nil
         [] q.op = "correct" -> q.field \in DOMAIN fields /\ fields[q.field].settlement # Nil
         [] OTHER -> TRUE

\* The selection of a competition must name the model that it was frozen with.
ContextFits(q) ==
  q.selection = (IF q.scope \in DOMAIN Roots THEN Roots[q.scope].model ELSE InstalledModel)

\* The clock of the command is read before anything is looked up.
BeginCommand(w) ==
  /\ shift[w].step = "idle" /\ shift[w].left # <<>> /\ installed.files = 4 /\ Unlocked /\ Verifies
  /\ LET c == Head(shift[w].left)
         q == IF asked[c] = NotAsked THEN CommandOf(c) ELSE asked[c] IN
     /\ asked[c] # NotAsked \/ CanAsk(c)
     /\ q.scope \notin DOMAIN Roots => InstalledModel # NoModel
     /\ asked' = [asked EXCEPT ![c] = q]
     /\ IF ContextFits(q)
        THEN shift' = [shift EXCEPT ![w] = [step |-> "recover", left |-> @.left, at |-> linuxClock, q |-> q]]
        ELSE RefuseCommand(w)
  /\ UNCHANGED <<commandLog, headFile, lockedBy, histories, serving>> /\ Quiet(w)

\* A committed command is answered from the log before anything is evaluated again.
MutantRecovered == "answer"
Recovered == "archive"
Recover(w) ==
  /\ shift[w].step = "recover" /\ Unlocked
  /\ Goto(w, IF RowsOf(CommandId(shift[w].q)) # {} THEN Recovered
             ELSE IF shift[w].q.op \in {"forecast", "field"} THEN "history" ELSE "commit")
  /\ UNCHANGED <<commandLog, headFile, lockedBy, histories, serving, asked>> /\ Quiet(w)

\* The first forecast of a competition copies the operator's workbook; a partial copy is never replaced.
OpenHistory(w) ==
  /\ shift[w].step = "history" /\ Unlocked
  /\ LET q == shift[w].q
         fresh == q.scope \notin DOMAIN Roots IN
     IF fresh
     THEN IF histories[q.scope].state = "none"
          THEN histories' = [histories EXCEPT ![q.scope] = [state |-> "partial", cutoff |-> q.cutoff]] /\ Goto(w, "metadata")
          ELSE /\ UNCHANGED histories
               /\ IF histories[q.scope] = [state |-> "whole", cutoff |-> q.cutoff] THEN Goto(w, "freeze") ELSE RefuseCommand(w)
     ELSE /\ UNCHANGED histories
          /\ IF /\ BindingsHold(Roots[q.scope], q) /\ Roots[q.scope].selection = q.selection
                /\ Roots[q.scope].cutoff = q.cutoff
             THEN Goto(w, "freeze") ELSE RefuseCommand(w)
  /\ UNCHANGED <<commandLog, headFile, lockedBy, serving, asked>> /\ Quiet(w)
FinishHistory(w) ==
  /\ shift[w].step = "metadata"
  /\ histories' = [histories EXCEPT ![shift[w].q.scope].state = "whole"]
  /\ Goto(w, "freeze")
  /\ UNCHANGED <<commandLog, headFile, lockedBy, serving, asked>> /\ Quiet(w)

FreezeId(q) == <<"freeze", q.scope, q.round>>
FreezeRequest(q) == [round |-> q.round, ordinal |-> q.ordinal, group |-> q.group, after |-> q.after, cutoff |-> q.cutoff]

\* store.execute: one row under the lock, the head after it.
AppendRow(w, id, request, response, after, next) ==
  /\ commandLog' = Append(commandLog, [id |-> id, request |-> request, response |-> response, after |-> after])
  /\ lockedBy' = w
  /\ Goto(w, next)

FreezeRound(w) ==
  /\ shift[w].step = "freeze" /\ Unlocked
  /\ LET q == shift[w].q IN
     IF RowsOf(FreezeId(q)) # {}
     THEN /\ IF \A n \in RowsOf(FreezeId(q)) : commandLog[n].request = FreezeRequest(q)
             THEN Goto(w, "read") ELSE RefuseCommand(w)
          /\ UNCHANGED <<commandLog, lockedBy>>
     ELSE IF FreezeFits(RootFor(Roots, q), q)
          THEN AppendRow(w, FreezeId(q), FreezeRequest(q), [round |-> q.round], Frozen(Roots, q, shift[w].at), "freezing")
          ELSE RefuseCommand(w) /\ UNCHANGED <<commandLog, lockedBy>>
  /\ UNCHANGED <<headFile, histories, serving, asked>> /\ Quiet(w)

ReplaceHead(w) ==
  /\ shift[w].step \in {"freezing", "committing"}
  /\ headFile' = HeadOf(commandLog) /\ lockedBy' = NoOperator
  /\ Goto(w, IF shift[w].step = "freezing" THEN "read" ELSE "archive")
  /\ UNCHANGED <<commandLog, histories, serving, asked>> /\ Quiet(w)

\* Everything the forecast depends on is read here; the models run outside the lock.
ReadField(w) ==
  /\ shift[w].step = "read" /\ Unlocked
  /\ LET q == shift[w].q
         root == Roots[q.scope]
         previous == IF q.op = "field" THEN FieldOf(root, q.field) ELSE Nil IN
     IF /\ ~RoundClosed(root, q.round)
        /\ previous # Nil => previous.issue = Nil /\ q.rev > previous.receipt.rev
        /\ serving # NoModel /\ serving = q.selection
     THEN shift' = [shift EXCEPT ![w] = [step |-> "calculate", left |-> @.left, at |-> @.at,
                                         q |-> Adding(@.q, [previous |-> previous, epoch |-> root.rounds[q.round].epoch])]]
     ELSE RefuseCommand(w)
  /\ UNCHANGED <<commandLog, headFile, lockedBy, histories, serving, asked>> /\ Quiet(w)

\* The bundle is loaded once more, after the check of its identity.
CalculateForecast(w) ==
  /\ shift[w].step = "calculate"
  /\ LET q == shift[w].q
         receipt == [field |-> IF q.op = "field" THEN q.field ELSE "none", round |-> q.round, scope |-> q.scope,
                     rev |-> IF q.op = "field" THEN q.rev ELSE 0, kind |-> IF q.op = "field" THEN q.kind ELSE "seeding",
                     roster |-> q.roster, epoch |-> q.epoch, model |-> serving] IN
     IF serving = NoModel THEN RefuseCommand(w)
     ELSE shift' = [shift EXCEPT ![w] = [step |-> "commit", left |-> @.left, at |-> @.at,
                                         q |-> Adding(@.q, [receipt |-> receipt])]]
  /\ UNCHANGED <<commandLog, headFile, lockedBy, histories, serving, asked>> /\ Quiet(w)

CommitCommand(w) ==
  /\ shift[w].step = "commit" /\ Unlocked
  /\ LET q == shift[w].q IN
     IF RowsOf(CommandId(q)) # {}
     THEN lockedBy' = w /\ Goto(w, "committing") /\ UNCHANGED commandLog
     ELSE IF q.scope \in DOMAIN Roots /\ Fits(Roots[q.scope], q, shift[w].at)
          THEN AppendRow(w, CommandId(q), asked[q.id], Response(q),
                         [Roots EXCEPT ![q.scope] = After(@, q)], "committing")
          ELSE RefuseCommand(w) /\ UNCHANGED <<commandLog, lockedBy>>
  /\ UNCHANGED <<headFile, histories, serving, asked>> /\ Quiet(w)

\* The installation is archived and read back, then the answer is written.
ArchiveBackup(w) ==
  /\ shift[w].step = "archive" /\ Unlocked /\ Verifies
  /\ archives' = archives \cup {commandLog}
  /\ Goto(w, "answer")
  /\ UNCHANGED <<installed, commandLog, headFile, lockedBy, histories, serving, asked, acknowledged, linuxClock, mishaps>>
AnswerCommand(w) ==
  /\ shift[w].step = "answer"
  /\ acknowledged' = acknowledged \cup { commandLog[n].response : n \in RowsOf(CommandId(shift[w].q)) }
  /\ shift' = [shift EXCEPT ![w] = Idle(Tail(@.left))]
  /\ UNCHANGED <<installed, commandLog, headFile, archives, lockedBy, histories, serving, asked, linuxClock, mishaps>>

-----------------------------------------------------------------------------
(* What happens to the machine.                                            *)

\* A killed process loses the lock; its caller gives the same command again.
Kill(w) ==
  /\ mishaps.kills < MaxKills /\ mishaps' = [mishaps EXCEPT !.kills = @ + 1]
  /\ shift[w].step # "idle"
  /\ shift' = [shift EXCEPT ![w] = Idle(@.left)]
  /\ lockedBy' = IF lockedBy = w THEN NoOperator ELSE lockedBy
  /\ UNCHANGED <<installed, commandLog, headFile, archives, histories, serving, asked, acknowledged, linuxClock>>
KillInstaller ==
  /\ mishaps.kills < MaxKills /\ mishaps' = [mishaps EXCEPT !.kills = @ + 1]
  /\ installed.running /\ installed' = [installed EXCEPT !.running = FALSE]
  /\ UNCHANGED <<commandLog, headFile, archives, lockedBy, histories, serving, asked, shift, acknowledged, linuxClock>>

Stopped == \A w \in Operators : shift[w].step = "idle"
RollBack(n) ==
  /\ mishaps.rollbacks < MaxRollbacks /\ mishaps' = [mishaps EXCEPT !.rollbacks = @ + 1]
  /\ Stopped /\ commandLog' = SubSeq(commandLog, 1, n)
  /\ UNCHANGED <<installed, headFile, archives, lockedBy, histories, serving, asked, shift, acknowledged, linuxClock>>
\* The operator extracts the newest archive when the installation refuses to open.
RestoreArchive(a) ==
  /\ Stopped /\ ~Verifies /\ \A b \in archives : Len(b) <= Len(a)
  /\ commandLog' = a /\ headFile' = HeadOf(a)
  /\ UNCHANGED <<installed, archives, lockedBy, histories, serving, asked, shift, acknowledged, linuxClock, mishaps>>
SwapBundle(b) ==
  /\ mishaps.swaps < MaxSwaps /\ mishaps' = [mishaps EXCEPT !.swaps = @ + 1]
  /\ b # serving /\ serving' = b
  /\ UNCHANGED <<installed, commandLog, headFile, archives, lockedBy, histories, asked, shift, acknowledged, linuxClock>>
LinuxTick ==
  /\ linuxClock < MaxLinuxClock /\ linuxClock' = linuxClock + 1
  /\ UNCHANGED <<installed, commandLog, headFile, archives, lockedBy, histories, serving, asked, shift, acknowledged, mishaps>>

-----------------------------------------------------------------------------
LinuxInit ==
  /\ installed = [files |-> 0, running |-> TRUE]
  /\ commandLog = <<>> /\ headFile = HeadOf(<<>>) /\ archives = {} /\ lockedBy = NoOperator
  /\ histories = [s \in Competitions |-> [state |-> "none", cutoff |-> 0]]
  /\ serving = FirstBundle
  /\ asked = [c \in DOMAIN LinuxCommands |-> NotAsked]
  /\ \E plan \in Work : shift = [w \in Operators |-> Idle(plan[w])]
  /\ acknowledged = {} /\ linuxClock = 1 /\ mishaps = [kills |-> 0, rollbacks |-> 0, swaps |-> 0]

LinuxNext ==
  \/ Initialize \/ KillInstaller
  \/ \E w \in Operators :
       \/ BeginCommand(w) \/ Recover(w) \/ OpenHistory(w) \/ FinishHistory(w) \/ FreezeRound(w) \/ ReplaceHead(w)
       \/ ReadField(w) \/ CalculateForecast(w) \/ CommitCommand(w) \/ ArchiveBackup(w) \/ AnswerCommand(w) \/ Kill(w)
  \/ \E n \in 0..(Len(commandLog) - 1) : RollBack(n)
  \/ \E a \in archives : RestoreArchive(a)
  \/ \E b \in Bundles \cup {NoModel} : SwapBundle(b)
  \/ LinuxTick

LinuxSpec == LinuxInit /\ [][LinuxNext]_linuxVars

-----------------------------------------------------------------------------
(* Every answer a caller has seen is in an archive that was read back:     *)
(* also when the process that committed it was killed before its archive   *)
(* and the command was answered from the log (main, archive_backup).       *)
AnswersAreArchived ==
  \A answer \in acknowledged :
    \E a \in archives : \E n \in DOMAIN a : a[n].response = answer

(* The retained head detects a rollback of the database: whenever the      *)
(* installation opens, every answer a caller has seen is in its log        *)
(* (_verify, lookup, execute).                                             *)
RollbackIsDetected ==
  Unlocked /\ Verifies => acknowledged \subseteq { commandLog[n].response : n \in DOMAIN commandLog }

(* An issued sheet never changes and is never replaced, although fields    *)
(* are forecast outside the lock and judges decide meanwhile: _prepare     *)
(* compares the field again when it commits.                               *)
IssuedOf(log) ==
  LET roots == RootsAfter(log) IN
  UNION { { [scope |-> s, receipt |-> roots[s].fields[f].receipt, issue |-> roots[s].fields[f].issue] :
            f \in { g \in DOMAIN roots[s].fields : roots[s].fields[g].issue # Nil } } : s \in DOMAIN roots }
IssuedSheetsStand ==
  commandLog # <<>> => IssuedOf(Front(commandLog)) \subseteq IssuedOf(commandLog)

(* The earned scores of a competition are those of its current results:    *)
(* each completion counts once, and a correction takes back what it        *)
(* replaces (_settle, _correct).                                           *)
ScoresAreCurrent ==
  \A s \in DOMAIN Roots :
    Roots[s].scores =
      UNION { { [field |-> f, who |-> c, round |-> Roots[s].fields[f].receipt.round,
                 revision |-> Roots[s].fields[f].settlement.revision] : c \in Roots[s].fields[f].settlement.done } :
              f \in SettledFields(Roots[s]) }

(* What a competition has told its operators is archived, stands, and is   *)
(* scored from the results in force.                                       *)
CompetitionIsKept == AnswersAreArchived /\ IssuedSheetsStand /\ ScoresAreCurrent
=============================================================================
