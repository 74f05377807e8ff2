----------------------------- MODULE LiveOverlay -----------------------------
(* The weights a tournament's fields are assembled with, and the operator's  *)
(* control over their live part (credibility_reactions.py).  The root round  *)
(* uses the baseline snapshot of the tournament; a later round uses weights  *)
(* frozen for it once its predecessor has closed.  An operator may suspend   *)
(* the live layer, stop it or enable it again, from a signed preview of what *)
(* is in force.  All of it is one event stream per tournament, olog; what a  *)
(* caller read before its command is in freezer and console.  A weight       *)
(* vector is the position of the event that sealed it.                       *)
EXTENDS Naturals, Sequences, FiniteSets, FiniteSetsExt, TLC

CONSTANTS OverlayFields,    \* the fields, ordered by call order
          RootFields,       \* those of the root round; the others are of the next one
          Freezers,         \* callers of freeze_live_weights
          Consoles,         \* callers of record_live_control
          MaxControls,      \* controls of a tournament
          MaxOverlayEvents

VARIABLES olog, freezer, console

overlayVars == <<olog, freezer, console>>

EventsAt(L, k) == { i \in DOMAIN L : L[i].kind = k }
OverlayAt(k) == EventsAt(olog, k)
Happened(k) == OverlayAt(k) # {}
ShowOpen == Happened("opened") /\ ~Happened("closed")
AppendOverlay(e) == Len(olog) < MaxOverlayEvents /\ olog' = Append(olog, e)

Enabled == [enabled |-> TRUE, suspended |-> FALSE, stopped |-> FALSE]
Operates(state) == state.enabled /\ ~state.suspended /\ ~state.stopped

\* _load_live_control_state, of the log L.
ControlIn(L) ==
  LET controls == EventsAt(L, "control")
  IN IF controls = {} THEN Enabled ELSE L[Max(controls)].after
ControlNow == ControlIn(olog)

\* set_live_control.
Controlled(state, action) ==
  CASE action = "suspend"        -> [state EXCEPT !.suspended = TRUE]
    [] action = "re_enable"      -> Enabled
    [] action = "emergency_stop" -> [state EXCEPT !.enabled = FALSE, !.stopped = TRUE]

IssuedIn(L, h) == \E i \in EventsAt(L, "issued") : L[i].field = h
Issued(h) == IssuedIn(olog, h)

\* _current_live_control_preview_state_connection: the next sheet that is not issued, else the last
\* issued one, else the newest weights; 0 when the tournament has neither.
PreviewIn(L) ==
  LET receipts == EventsAt(L, "receipt")
      waiting  == { i \in receipts : ~IssuedIn(L, L[i].field) }
      issues   == EventsAt(L, "issued")
      sealed   == EventsAt(L, "baseline") \cup EventsAt(L, "freeze")
  IN CASE waiting # {} ->
            LET next == CHOOSE i \in waiting : \A j \in waiting : L[i].field <= L[j].field
            IN <<L[next].weights, L[next].field>>
       [] waiting = {} /\ receipts # {} ->
            LET last == CHOOSE i \in receipts : L[i].field = L[Max(issues)].field
            IN <<L[last].weights, L[last].field>>
       [] receipts = {} /\ sealed # {} -> <<Max(sealed), 0>>
       [] OTHER -> <<0, 0>>
PreviewNow == PreviewIn(olog)

----------------------------------------------------------------------------
(* The round, from the lifecycle and assembly services.                     *)

IdleCaller == [at |-> "idle"]

OverlayInit ==
  /\ olog = <<[kind |-> "opened"]>>
  /\ freezer = [c \in Freezers |-> IdleCaller]
  /\ console = [c \in Consoles |-> IdleCaller]

Unheld == UNCHANGED <<freezer, console>>

CloseRootRound ==
  /\ ShowOpen /\ ~Happened("round_closed")
  /\ \A h \in RootFields : Issued(h)
  /\ AppendOverlay([kind |-> "round_closed"]) /\ Unheld

FreezeNextEpoch ==
  /\ Happened("round_closed") /\ ~Happened("epoch")
  /\ AppendOverlay([kind |-> "epoch"]) /\ Unheld

CloseOverlayShow ==
  /\ ShowOpen /\ \A h \in OverlayFields : Issued(h)
  /\ AppendOverlay([kind |-> "closed"]) /\ Unheld

\* _verify_root_weight_event, and _verify_live_weight_event: the last control after the freeze, or else
\* the state the freeze itself was made with, must have the live layer in operation.
RootWeights == OverlayAt("baseline")
LiveWeights ==
  { f \in OverlayAt("freeze") :
      LET later == { i \in OverlayAt("control") : i > f }
      IN Operates(IF later = {} THEN olog[f].state ELSE olog[Max(later)].after) }

\* A field receipt with the weight authority it was assembled with.
AssembleSheet(h) ==
  /\ ShowOpen /\ \A i \in OverlayAt("receipt") : olog[i].field # h
  /\ \E w \in IF h \in RootFields THEN RootWeights ELSE LiveWeights :
       AppendOverlay([kind |-> "receipt", field |-> h, weights |-> w])
  /\ Unheld

IssueSheet(h) ==
  /\ \E i \in OverlayAt("receipt") : olog[i].field = h
  /\ ~Issued(h)
  /\ AppendOverlay([kind |-> "issued", field |-> h]) /\ Unheld

----------------------------------------------------------------------------
(* freeze_live_weights.                                                     *)

FreezerMoves(c, s) == freezer' = [freezer EXCEPT ![c] = s] /\ UNCHANGED console

\* The reads: a closed predecessor, the next epoch after it, an open tournament, nothing issued.
StartFreeze(c) ==
  /\ freezer[c] = IdleCaller
  /\ Happened("round_closed") /\ Happened("epoch") /\ ShowOpen
  /\ \A h \in OverlayFields \ RootFields : ~Issued(h)
  /\ FreezerMoves(c, [at |-> "baseline"])
  /\ UNCHANGED olog

\* _tournament_baseline: persisted by whoever needs it first.
PersistBaseline ==
  /\ ShowOpen /\ ~Happened("baseline")
  /\ AppendOverlay([kind |-> "baseline"])

NeedBaseline(c) ==
  /\ freezer[c].at = "baseline"
  /\ IF Happened("baseline") THEN UNCHANGED olog ELSE PersistBaseline
  /\ FreezerMoves(c, [at |-> "control"])

\* The baseline of the root round, read by whoever assembles it.
RootBaseline == PersistBaseline /\ Unheld

\* _load_round_freeze and _load_live_control_state: another caller's freeze is refused.
LoadControl(c) ==
  /\ freezer[c].at = "control" /\ ~Happened("freeze")
  /\ FreezerMoves(c, [at |-> "frozen", state |-> ControlNow])
  /\ UNCHANGED olog

MutantRoundFreezeGuard == TRUE

\* _round_freeze_guard, inside the transaction.
RoundFreezeGuard ==
  ~Happened("freeze") /\ \A h \in OverlayFields \ RootFields : ~Issued(h)

\* _append_event reads the head of the stream only now; freeze_live_round gives the live layer no
\* influence when the state that was loaded has it off.
CommitFreeze(c) ==
  /\ freezer[c].at = "frozen"
  /\ RoundFreezeGuard
  /\ AppendOverlay([kind |-> "freeze", state |-> freezer[c].state, live |-> Operates(freezer[c].state)])
  /\ FreezerMoves(c, IdleCaller)

StopFreeze(c) == freezer[c] # IdleCaller /\ FreezerMoves(c, IdleCaller) /\ UNCHANGED olog

----------------------------------------------------------------------------
(* record_live_control.                                                     *)

ConsoleMoves(c, s) == console' = [console EXCEPT ![c] = s] /\ UNCHANGED freezer

\* seal_current_live_control_preview.
SealPreview(c) ==
  /\ console[c] = IdleCaller /\ ShowOpen
  /\ PreviewNow # <<0, 0>>
  /\ ConsoleMoves(c, [at |-> "sealed", preview |-> PreviewNow, head |-> Len(olog)])
  /\ UNCHANGED olog

\* The checks before the command: the before-state is read, the preview is still of this head.
RequestControl(c, action) ==
  /\ console[c].at = "sealed" /\ ShowOpen /\ Cardinality(OverlayAt("control")) < MaxControls
  /\ console[c].head = Len(olog) /\ console[c].preview = PreviewNow
  /\ ConsoleMoves(c, [at |-> "requested", preview |-> console[c].preview, head |-> console[c].head,
                      action |-> action, before |-> ControlNow])
  /\ UNCHANGED olog

\* _live_control_guard: the same facts again, inside the transaction.
LiveControlGuard(c) ==
  /\ ShowOpen
  /\ ControlNow = console[c].before
  /\ PreviewNow = console[c].preview
  /\ Len(olog) = console[c].head

CommitControl(c) ==
  /\ console[c].at = "requested"
  /\ LiveControlGuard(c)
  /\ AppendOverlay([kind |-> "control", before |-> console[c].before, preview |-> console[c].preview,
                    after |-> Controlled(console[c].before, console[c].action)])
  /\ ConsoleMoves(c, IdleCaller)

StopControl(c) == console[c] # IdleCaller /\ ConsoleMoves(c, IdleCaller) /\ UNCHANGED olog

OverlayNext ==
  \/ CloseRootRound \/ FreezeNextEpoch \/ CloseOverlayShow \/ RootBaseline
  \/ \E h \in OverlayFields : AssembleSheet(h) \/ IssueSheet(h)
  \/ \E c \in Freezers :
       StartFreeze(c) \/ NeedBaseline(c) \/ LoadControl(c) \/ CommitFreeze(c) \/ StopFreeze(c)
  \/ \E c \in Consoles :
       \/ SealPreview(c) \/ CommitControl(c) \/ StopControl(c)
       \/ \E a \in {"suspend", "re_enable", "emergency_stop"} : RequestControl(c, a)

OverlaySpec == OverlayInit /\ [][OverlayNext]_overlayVars

----------------------------------------------------------------------------

\* No heat changes the weights of a later heat of its round (R9.7): whatever callers race, the sheets
\* of one round were assembled with one weight event, and it was sealed before any of them was issued.
RoundWeightsAgree ==
  \A i, j \in OverlayAt("receipt") :
    (olog[i].field \in RootFields <=> olog[j].field \in RootFields) => olog[i].weights = olog[j].weights

\* What an operator was shown is what the control acted on: every control follows the state the one
\* before it left, and its preview is what was in force when it was committed.
ControlsFollowTheirPreview ==
  \A i \in OverlayAt("control") :
    LET L == SubSeq(olog, 1, i - 1)
    IN  olog[i].before = ControlIn(L) /\ olog[i].preview = PreviewIn(L)

\* The weights a round is marked with, and the controls over them, are decided on what was seen.
OverlayIsConsistent == RoundWeightsAgree /\ ControlsFollowTheirPreview
=============================================================================
