--------------------------- MODULE PublicGateway ---------------------------
(* The operations of the V3 API as a client meets them: application/         *)
(* gateway.py and application/pre_field_forecasts.py.  An operation reserves *)
(* its idempotency key, reads, and executes one or two commands, each in a   *)
(* transaction of its own; a client that hears nothing asks again.  One      *)
(* competition with one root round and one field.                            *)
EXTENDS Naturals, Sequences, FiniteSets

CONSTANTS Requests,           \* requests, a retry being a request of its own
          Asked(_),           \* request -> [key, op, body, turn]
          Entrants,           \* number of competitors of the forecast set
          Scripts,            \* the sets of requests that clients may send
          MaxCards, MaxHangUps

\* ForecastSetSnapshot refuses an empty roster.
ASSUME RosterAssumption == Entrants \in Nat \ {0}

VARIABLES gateLog,      \* the events, with the key and the payload of their command
          reserved,     \* key -> the operation and body it is bound to
          req,          \* request -> where it stands
          reply,        \* request -> its answer
          liveCards,        \* entrant -> revision of the current publication
          cardsSeen,    \* every vector of publications that was current at one instant
          forecastRows  \* v3_pre_field_forecast_receipts

gateVars == <<gateLog, reserved, req, reply, liveCards, cardsSeen, forecastRows>>

GateHappened(kind) == { i \in DOMAIN gateLog : gateLog[i].kind = kind }
LastOf(S) == IF S = {} THEN 0 ELSE CHOOSE i \in S : \A j \in S : j <= i
Under(key, kind) == { i \in GateHappened(kind) : gateLog[i].key = key }

FirstKinds == {"tournament_configured", "round_configured", "round_closing"}

\* v3_idempotency_records: one command per key, whatever its kind.
RecordedUnder(key) == { i \in DOMAIN gateLog : gateLog[i].key = key /\ gateLog[i].kind \notin FirstKinds }

\* v3_aggregate_heads of the competition and of the round.
ScopeState ==
  LET i == LastOf(UNION { GateHappened(k) : k \in {"tournament_configured", "tournament_opened", "tournament_closed"} })
  IN IF i = 0 THEN "none" ELSE gateLog[i].kind
RoundState ==
  LET i == LastOf(UNION { GateHappened(k) : k \in {"round_configured", "round_frozen", "round_closing", "round_closed"} })
  IN IF i = 0 THEN "none" ELSE gateLog[i].kind

FieldUpstream == Cardinality(GateHappened("field_ingested"))
FrozenRevision == Cardinality(GateHappened("round_frozen"))
SettledCount == Cardinality(GateHappened("settled"))
Assembled(receipt) == \E i \in GateHappened("assembled") : gateLog[i].body = receipt
Issued(receipt) == \E i \in GateHappened("issued") : gateLog[i].body = receipt

\* The field's row of the approval queue: gone once the field is issued.
DecidedRow(receipt) ==
  /\ receipt = FieldUpstream /\ Assembled(receipt) /\ ~Issued(receipt)
  /\ \E i \in GateHappened("decided") : gateLog[i].body = receipt

Said(tag) == [tag |-> tag, seq |-> 0, made |-> <<>>]
Granted(seq, made) == [tag |-> "granted", seq |-> seq, made |-> made]

GateInit ==
  /\ gateLog = <<>>
  /\ reserved = <<>>
  /\ \E script \in Scripts :
       req = [r \in Requests |-> [at |-> IF r \in script THEN "unsent" ELSE "over", n |-> 0, made |-> <<>>, late |-> FALSE]]
  /\ reply = [r \in Requests |-> Said("none")]
  /\ liveCards = [e \in 1..Entrants |-> 1]
  /\ cardsSeen = {liveCards}
  /\ forecastRows = {}

Key(r) == Asked(r).key
Op(r) == Asked(r).op
Body(r) == Asked(r).body

\* Every exit leaves nothing behind in the thread.
Over(r, out) ==
  /\ reply' = [reply EXCEPT ![r] = out]
  /\ req' = [req EXCEPT ![r] = [@ EXCEPT !.at = "over", !.n = 0, !.made = <<>>]]
Stage(r, at, made) == req' = [req EXCEPT ![r] = [@ EXCEPT !.at = at, !.made = made]] /\ UNCHANGED reply
Emit(kind, r, made) == gateLog' = Append(gateLog, [kind |-> kind, key |-> Key(r), body |-> Body(r), made |-> made])

----------------------------------------------------------------------------
(* _bound_public_operation.                                                 *)

MainKind(r) ==
  [open |-> "tournament_opened", sync |-> "field_ingested", freeze |-> "round_frozen", close |-> "round_closed",
   close_scope |-> "tournament_closed", assemble |-> "assembled", decide |-> "decided", issue |-> "issued",
   settle |-> "settled", forecast |-> "forecast", prepare |-> "prepared"][Op(r)]

Acknowledged(r) == \E s \in Requests : Key(s) = Key(r) /\ reply[s].tag = "granted"

Binds(r) == Key(r) \in DOMAIN reserved => reserved[Key(r)] = <<Op(r), Body(r)>>

\* The client sends a request in its turn.
ReserveKey(r) ==
  /\ req[r].at = "unsent" /\ \A s \in Requests : Asked(s).turn < Asked(r).turn => req[s].at = "over"
  /\ IF Binds(r)
       THEN /\ reserved' = [k \in DOMAIN reserved \cup {Key(r)} |-> IF k = Key(r) THEN <<Op(r), Body(r)>> ELSE reserved[k]]
            /\ req' = [req EXCEPT ![r].at = "bound", ![r].late = Acknowledged(r)]
            /\ UNCHANGED reply
       ELSE Over(r, Said("refused")) /\ UNCHANGED reserved
  /\ UNCHANGED <<gateLog, liveCards, cardsSeen, forecastRows>>

----------------------------------------------------------------------------
(* open_scope, freeze_round and close_round execute a first command under a *)
(* key derived from their own.                                              *)

FirstKind(r) == [open |-> "tournament_configured", freeze |-> "round_configured", close |-> "round_closing"][Op(r)]

\* What they look at to decide whether the first command is due.
FirstIsDue(r) ==
  CASE Op(r) = "open"   -> TRUE
    [] Op(r) = "freeze" -> RoundState = "none"
    [] Op(r) = "close"  -> RoundState = "round_frozen"

ScopeIsOpen == GateHappened("tournament_opened") # {}

LookFirst(r) ==
  /\ req[r].at = "bound" /\ Op(r) \in {"open", "freeze", "close"}
  /\ IF Op(r) # "open" /\ ~ScopeIsOpen THEN Over(r, Said("refused"))
     ELSE Stage(r, IF FirstIsDue(r) THEN "first" ELSE "second", <<>>)
  /\ UNCHANGED <<gateLog, reserved, liveCards, cardsSeen, forecastRows>>

FirstIsLegal(r) ==
  CASE Op(r) = "open"   -> ScopeState = "none"
    [] Op(r) = "freeze" -> RoundState = "none"
    [] Op(r) = "close"  -> RoundState = "round_frozen"

ExecuteFirst(r) ==
  /\ req[r].at = "first"
  /\ IF Under(Key(r), FirstKind(r)) # {} THEN Stage(r, "second", <<>>) /\ UNCHANGED gateLog
     ELSE IF FirstIsLegal(r) THEN Stage(r, "second", <<>>) /\ Emit(FirstKind(r), r, <<>>)
     ELSE Over(r, Said("refused")) /\ UNCHANGED gateLog
  /\ UNCHANGED <<reserved, liveCards, cardsSeen, forecastRows>>

----------------------------------------------------------------------------
(* The command of the operation: what is read for it, and its transaction.  *)

\* A closure carries the active results; an issue the snapshot of the queue and the field's version.
Payload(r) ==
  CASE Op(r) = "close" -> <<SettledCount>>
    [] Op(r) = "issue" -> <<Len(gateLog), Body(r)>>
    [] OTHER -> <<Body(r)>>

\* The early returns before the command is executed.
FreezeRefused == Issued(FieldUpstream)
AssembleRefused(r) == Body(r) # FieldUpstream
DecideRefused(r) == ~ScopeIsOpen \/ ~Assembled(Body(r))
IssueRefused(r) == ~ScopeIsOpen \/ ~DecidedRow(Body(r))
SettleRefused(r) == ~ScopeIsOpen \/ GateHappened("issued") = {}

Refusal(r) ==
  \/ Op(r) = "freeze" /\ FreezeRefused
  \/ Op(r) = "assemble" /\ AssembleRefused(r)
  \/ Op(r) = "decide" /\ DecideRefused(r)
  \/ Op(r) = "issue" /\ IssueRefused(r)
  \/ Op(r) = "settle" /\ SettleRefused(r)
  \/ Op(r) = "close_scope" /\ ~ScopeIsOpen

Prepares(r) ==
  /\ \/ req[r].at = "second"
     \/ req[r].at = "bound" /\ Op(r) \in {"sync", "close_scope", "assemble", "decide", "issue", "settle"}
  /\ IF Refusal(r) THEN Over(r, Said("refused")) ELSE Stage(r, "execute", Payload(r))
  /\ UNCHANGED <<gateLog, reserved, liveCards, cardsSeen, forecastRows>>

\* The lifecycle table and the checks of the projection in the transaction.
GateLegal(r) ==
  CASE Op(r) = "open"        -> ScopeState = "tournament_configured"
    [] Op(r) = "sync"        -> Body(r) = FieldUpstream + 1
    [] Op(r) = "freeze"      -> RoundState \in {"round_configured", "round_frozen"} /\ Body(r) = FrozenRevision + 1
    [] Op(r) = "close"       -> RoundState = "round_closing"
    [] Op(r) = "close_scope" -> ScopeState = "tournament_opened" /\ RoundState = "round_closed"
    [] Op(r) = "assemble"    -> RoundState = "round_frozen" /\ ~Assembled(Body(r))
    [] Op(r) = "decide"      -> Body(r) = FieldUpstream /\ ~Issued(Body(r)) /\ ~DecidedRow(Body(r))
    [] Op(r) = "issue"       -> RoundState = "round_frozen" /\ DecidedRow(Body(r))
    [] Op(r) = "settle"      -> Body(r) = SettledCount + 1 /\ RoundState # "round_closed"

Answered(r, i) == Over(r, Granted(i, gateLog[i].made)) /\ UNCHANGED gateLog

ExecuteMain(r) ==
  LET known == RecordedUnder(Key(r))
  IN /\ req[r].at = "execute"
     /\ IF known # {}
          THEN IF gateLog[LastOf(known)].kind = MainKind(r) /\ gateLog[LastOf(known)].made = req[r].made THEN Answered(r, LastOf(known)) ELSE Over(r, Said("refused")) /\ UNCHANGED gateLog
          ELSE IF req[r].made = Payload(r) /\ ~Refusal(r) /\ GateLegal(r)
            THEN Emit(MainKind(r), r, req[r].made) /\ Over(r, Granted(Len(gateLog) + 1, req[r].made))
            ELSE Over(r, Said("refused")) /\ UNCHANGED gateLog
     /\ UNCHANGED <<reserved, liveCards, cardsSeen, forecastRows>>

\* prepare_card answers from what is scheduled and published.
PrepareCard(r) ==
  /\ req[r].at = "bound" /\ Op(r) = "prepare"
  /\ Over(r, IF ScopeIsOpen /\ Body(r) = FieldUpstream THEN Granted(0, <<>>) ELSE Said("refused"))
  /\ UNCHANGED <<gateLog, reserved, liveCards, cardsSeen, forecastRows>>

----------------------------------------------------------------------------
(* forecast_pre_field: one publication per competitor, read one by one.     *)

RowOf(r) == { f \in forecastRows : f.key = Key(r) }

Forecast(r) ==
  /\ req[r].at = "bound" /\ Op(r) = "forecast"
  /\ IF ~ScopeIsOpen \/ RoundState # "round_frozen" \/ Body(r) # FrozenRevision THEN Over(r, Said("refused"))
     ELSE IF RowOf(r) # {} THEN Over(r, Granted(0, (CHOOSE f \in RowOf(r) : TRUE).cards))
     ELSE Stage(r, "collect", <<>>)
  /\ UNCHANGED <<gateLog, reserved, liveCards, cardsSeen, forecastRows>>

\* load_current.
LoadCurrent(r) ==
  LET made == Append(req[r].made, liveCards[Len(req[r].made) + 1])
  IN /\ req[r].at = "collect"
     /\ Stage(r, IF Len(made) = Entrants THEN "verify" ELSE "collect", made)
     /\ UNCHANGED <<gateLog, reserved, liveCards, cardsSeen, forecastRows>>

\* verify_current, before the receipt is signed and again after it.
StillCurrent(r, e) == liveCards[e] = req[r].made[e]

VerifyCurrent(r) ==
  /\ req[r].at = "verify"
  /\ IF StillCurrent(r, (req[r].n % Entrants) + 1)
       THEN /\ req' = [req EXCEPT ![r].n = @ + 1, ![r].at = IF req[r].n + 1 = 2 * Entrants THEN "persist" ELSE "verify"]
            /\ UNCHANGED reply
       ELSE Over(r, Said("refused"))
  /\ UNCHANGED <<gateLog, reserved, liveCards, cardsSeen, forecastRows>>

MutantFirstHere(r) == TRUE
FirstHere(r) == RowOf(r) = {}

PersistForecast(r) ==
  /\ req[r].at = "persist"
  /\ IF ~FirstHere(r)
       THEN Over(r, Granted(0, (CHOOSE f \in RowOf(r) : TRUE).cards)) /\ UNCHANGED forecastRows
       ELSE Over(r, Granted(0, req[r].made)) /\ forecastRows' = forecastRows \cup {[key |-> Key(r), cards |-> req[r].made]}
  /\ UNCHANGED <<gateLog, reserved, liveCards, cardsSeen>>

\* A rolling publication takes the place of the current one.
Republish(e) ==
  /\ liveCards[e] < MaxCards
  /\ liveCards' = [liveCards EXCEPT ![e] = @ + 1]
  /\ cardsSeen' = cardsSeen \cup {liveCards'}
  /\ UNCHANGED <<gateLog, reserved, req, reply, forecastRows>>

\* The process dies under a request, or its answer is lost on the way.
HangUp(r) ==
  /\ Cardinality({ s \in Requests : reply[s].tag = "lost" }) < MaxHangUps
  /\ req[r].at \notin {"unsent", "over"}
  /\ Over(r, Said("lost"))
  /\ UNCHANGED <<gateLog, reserved, liveCards, cardsSeen, forecastRows>>

GateStep(r) ==
  \/ ReserveKey(r) \/ LookFirst(r) \/ ExecuteFirst(r) \/ Prepares(r) \/ ExecuteMain(r) \/ PrepareCard(r)
  \/ Forecast(r) \/ LoadCurrent(r) \/ VerifyCurrent(r) \/ PersistForecast(r)

GateNext ==
  \/ \E r \in Requests : GateStep(r) \/ HangUp(r)
  \/ \E e \in 1..Entrants : Republish(e)

GateSpec == GateInit /\ [][GateNext]_gateVars

----------------------------------------------------------------------------

\* "A changed request under the same key is a conflict", and a retry never does the work twice: all
\* the answers that one key gets report one and the same outcome, however its requests interleave,
\* whichever of them is cut off between its commands.
AnswersAgree ==
  LET granted == { r \in Requests : reply[r].tag = "granted" }
  IN \A r, s \in granted : Key(r) = Key(s) => reply[r] = reply[s]

\* A forecast set is a snapshot: the publications in it were all current at one instant, although
\* they are read one by one while the rolling cards move.
ForecastsAreSnapshots == \A f \in forecastRows : f.cards \in cardsSeen

\* "Exact retry returns original acknowledgment": a request that repeats an acknowledged one is not refused.
RetriesAreAnswered == \A r \in Requests : req[r].late => reply[r].tag # "refused"

\* One key has one answer, and an answer is a state the service was in.
AnswersAreConsistent == AnswersAgree /\ ForecastsAreSnapshots
=============================================================================
