---------------------------- MODULE ServiceKeys ----------------------------
(* The V3 API's service credential and the requests it guards (api/auth.py,  *)
(* api/app.py, api/router.py).  The keys that may be used are a fold of the  *)
(* credential events; the secrets are files beside the event store.  Each    *)
(* server caches the fold, and runs requests on a bounded set of threads     *)
(* that outlive the deadline of the request.                                 *)
EXTENDS Integers, Sequences, FiniteSets

CONSTANTS Servers, Calls,
          CallServer(_), CallKey(_),   \* where a request goes, and the key it presents
          CallAsk(_),                  \* what it asks for: [op, cmd, key]
          MaxThreads,                  \* MAX_V3_BLOCKING_OPERATIONS
          Overlap,                     \* overlap_seconds of a rotation
          RecoveryKeys,                \* keys that an offline recovery may draw
          MaxTime, MaxServerCrashes

\* A command has one input (reserve_public_operation refuses another), a rotation makes its key from its
\* command (_rotation_key_id), and the offline commands have identities of their own.
Changes(c) == CallAsk(c).op # "use"
ASSUME CredentialCommandsAssumption ==
  /\ "nobody" \notin Calls /\ \A c \in Calls : CallServer(c) \in Servers
  /\ \A c, d \in Calls : Changes(c) /\ Changes(d) =>
       /\ CallAsk(c).cmd = CallAsk(d).cmd => CallAsk(c) = CallAsk(d)
       /\ CallAsk(c).op = "rotate" /\ CallAsk(d).op = "rotate" /\ CallAsk(c).key = CallAsk(d).key =>
            CallAsk(c).cmd = CallAsk(d).cmd
  /\ \A c \in Calls : Changes(c) => CallAsk(c).cmd \notin {"boot", "recover"}
  /\ \A c \in Calls : CallAsk(c).op = "rotate" => CallAsk(c).key \notin RecoveryKeys \cup {"k0"}
ASSUME CredentialTimesAssumption == {Overlap, MaxTime} \subseteq Nat

Never == -1   \* the expiry of a key that has none

VARIABLES keyLog,    \* the credential events, each with the state they fold to
          secretsOn, \* the keys whose secret is stored
          keyClock,
          cached,    \* server -> length of the log it has folded
          change,    \* the request that holds the credentials lock
          request,      \* request -> where it is
          deaths

keyVars == <<keyLog, secretsOn, keyClock, cached, change, request, deaths>>

KeyState(n) == keyLog[n]
KeyTip == Len(keyLog)
KeysOf(st) == DOMAIN st.active
Usable(st, k) == k \in KeysOf(st) /\ (st.active[k] = Never \/ st.active[k] >= keyClock)
UsableKeys(st) == { k \in KeysOf(st) : Usable(st, k) }

NotSent == [at |-> "unsent", n |-> 0, live |-> FALSE]

\* bootstrap_offline has run.
KeyInit ==
  /\ keyLog = <<[kind |-> "bootstrapped", cmd |-> "boot", key |-> "k0", active |-> [k \in {"k0"} |-> Never], current |-> "k0"]>>
  /\ secretsOn = {"k0"}
  /\ keyClock = 0
  /\ cached = [s \in Servers |-> 1]
  /\ change = "nobody"
  /\ request = [c \in Calls |-> NotSent]
  /\ deaths = 0

MovesCall(c, at) == request' = [request EXCEPT ![c].at = at]
EndsCall(c, answer) == request' = [request EXCEPT ![c] = [at |-> answer, n |-> 0, live |-> FALSE]]

\* Threads that run, whether or not their request was answered meanwhile.
Threads(s) == { c \in Calls : CallServer(c) = s /\ request[c].at \notin {"unsent", "refused", "done", "busy"} }

----------------------------------------------------------------------------
(* authenticate, on a thread of the server.                                 *)

\* A request that finds every thread taken is told to come back.
ReceiveCall(c) ==
  /\ request[c].at = "unsent"
  /\ IF Cardinality(Threads(CallServer(c))) >= MaxThreads
       THEN EndsCall(c, "busy")
       ELSE request' = [request EXCEPT ![c] = [at |-> "fold", n |-> 0, live |-> Usable(KeyState(KeyTip), CallKey(c))]]
  /\ UNCHANGED <<keyLog, secretsOn, keyClock, cached, change, deaths>>

\* _cached: the fold is taken again when the head of the authority has moved.
MutantFolded(s) == cached[s]
Folded(s) == KeyTip

\* The key was usable at some moment since the request arrived.
Fresh(c) == request[c].live \/ Usable(KeyState(KeyTip), CallKey(c))

FoldKeys(c) ==
  LET s == CallServer(c)
  IN /\ request[c].at = "fold"
     /\ cached' = [cached EXCEPT ![s] = Folded(s)]
     /\ request' = [request EXCEPT ![c] = [at |-> "check", n |-> Folded(s), live |-> Fresh(c)]]
     /\ UNCHANGED <<keyLog, secretsOn, keyClock, change, deaths>>

\* A key that has expired loses its secret.
CheckKey(c) ==
  LET k == CallKey(c)
  IN /\ request[c].at = "check"
     /\ IF Usable(KeyState(request[c].n), k)
          THEN MovesCall(c, "secret") /\ UNCHANGED secretsOn
          ELSE /\ EndsCall(c, "refused")
               /\ secretsOn' = IF k \in KeysOf(KeyState(request[c].n)) THEN secretsOn \ {k} ELSE secretsOn
     /\ UNCHANGED <<keyLog, keyClock, cached, change, deaths>>

CheckSecret(c) ==
  /\ request[c].at = "secret"
  /\ IF CallKey(c) \in secretsOn THEN MovesCall(c, "admitted") ELSE EndsCall(c, "refused")
  /\ UNCHANGED <<keyLog, secretsOn, keyClock, cached, change, deaths>>

\* An operation of the gateway.
ServeCall(c) ==
  /\ request[c].at = "admitted" /\ CallAsk(c).op = "use"
  /\ EndsCall(c, "done")
  /\ UNCHANGED <<keyLog, secretsOn, keyClock, cached, change, deaths>>

----------------------------------------------------------------------------
(* rotate and revoke, one at a time for all servers.                        *)

\* The lock is taken or the change refused; the principal is checked against the fold again.
TakeLock(c) ==
  LET s == CallServer(c)
  IN /\ request[c].at = "admitted" /\ CallAsk(c).op # "use"
     /\ IF change # "nobody" \/ ~Usable(KeyState(KeyTip), CallKey(c))
          THEN EndsCall(c, "refused") /\ UNCHANGED <<cached, change>>
          ELSE /\ cached' = [cached EXCEPT ![s] = KeyTip]
               /\ change' = c
               /\ request' = [request EXCEPT ![c] = [at |-> "changing", n |-> KeyTip, live |-> request[c].live]]
     /\ UNCHANGED <<keyLog, secretsOn, keyClock, deaths>>

PriorChange(cmd) == { i \in DOMAIN keyLog : keyLog[i].cmd = cmd }
ReleaseLock(c, answer) == EndsCall(c, answer) /\ change' = "nobody"

\* The key of a rotation is made from its command, so that a retry makes the same key.
Rotates(c) == change = c /\ CallAsk(c).op = "rotate"

RotateAgain(c) ==
  /\ Rotates(c) /\ request[c].at = "changing" /\ PriorChange(CallAsk(c).cmd) # {}
  /\ ReleaseLock(c, IF CallAsk(c).key \in secretsOn THEN "done" ELSE "refused")
  /\ cached' = [cached EXCEPT ![CallServer(c)] = KeyTip]
  /\ UNCHANGED <<keyLog, secretsOn, keyClock, deaths>>

Stored(k) == secretsOn \cup {k}

\* The secret is written before the event that makes the key usable.
WriteSecret(c) ==
  /\ Rotates(c) /\ request[c].at = "changing" /\ PriorChange(CallAsk(c).cmd) = {}
  /\ secretsOn' = Stored(CallAsk(c).key)
  /\ MovesCall(c, "append")
  /\ UNCHANGED <<keyLog, keyClock, cached, change, deaths>>

\* The replaced key stays usable for the overlap.
Rotated(st, k) ==
  [x \in KeysOf(st) \cup {k} |-> IF x = k THEN Never ELSE IF x = st.current THEN keyClock + Overlap ELSE st.active[x]]

AppendRotation(c) ==
  LET st == KeyState(request[c].n)
      k  == CallAsk(c).key
  IN /\ Rotates(c) /\ request[c].at = "append"
     /\ keyLog' = Append(keyLog, [kind |-> "rotated", cmd |-> CallAsk(c).cmd, key |-> k, active |-> Rotated(st, k), current |-> k])
     /\ cached' = [cached EXCEPT ![CallServer(c)] = KeyTip + 1]
     /\ ReleaseLock(c, "done")
     /\ UNCHANGED <<secretsOn, keyClock, deaths>>

Revokes(c) == change = c /\ CallAsk(c).op = "revoke"

MayRevoke(st, k) == Usable(st, k) /\ Cardinality(UsableKeys(st)) > 1

\* A retry, and a revocation: the event comes first, the secret is deleted after it.
AppendRevocation(c) ==
  LET st   == KeyState(request[c].n)
      k    == CallAsk(c).key
      rest == UsableKeys(st) \ {k}
  IN /\ Revokes(c) /\ request[c].at = "changing"
     /\ IF PriorChange(CallAsk(c).cmd) # {}
          THEN MovesCall(c, "delete") /\ UNCHANGED <<keyLog, change>>
          ELSE IF MayRevoke(st, k)
            THEN \E next \in (IF k = st.current THEN rest ELSE {st.current}) :
                   /\ keyLog' = Append(keyLog, [kind |-> "revoked", cmd |-> CallAsk(c).cmd, key |-> k, current |-> next,
                                                active |-> [x \in KeysOf(st) \ {k} |-> st.active[x]]])
                   /\ MovesCall(c, "delete") /\ UNCHANGED change
            ELSE ReleaseLock(c, "refused") /\ UNCHANGED keyLog
     /\ UNCHANGED <<secretsOn, keyClock, cached, deaths>>

DeleteSecret(c) ==
  /\ Revokes(c) /\ request[c].at = "delete"
  /\ secretsOn' = secretsOn \ {CallAsk(c).key}
  /\ cached' = [cached EXCEPT ![CallServer(c)] = KeyTip]
  /\ ReleaseLock(c, "done")
  /\ UNCHANGED <<keyLog, keyClock, deaths>>

\* recover_offline, with the listeners stopped: a key, drawn at random, in place of all others.
RecoverOffline(k) ==
  LET old == KeysOf(KeyState(KeyTip))
  IN /\ \A s \in Servers : Threads(s) = {}
     /\ \A n \in DOMAIN keyLog : keyLog[n].key # k
     /\ keyLog' = Append(keyLog, [kind |-> "recovered", cmd |-> "recover", key |-> k, active |-> [x \in {k} |-> Never], current |-> k])
     /\ secretsOn' = (secretsOn \cup {k}) \ old
     /\ UNCHANGED <<keyClock, cached, change, request, deaths>>

----------------------------------------------------------------------------

TimePasses ==
  /\ keyClock < MaxTime /\ keyClock' = keyClock + 1
  /\ UNCHANGED <<keyLog, secretsOn, cached, change, request, deaths>>

\* A server dies: its threads and its hold on the lock go with it; it starts by folding the log.
ServerDies(s) ==
  /\ deaths < MaxServerCrashes /\ deaths' = deaths + 1
  /\ request' = [c \in Calls |-> IF c \in Threads(s) THEN [NotSent EXCEPT !.at = "refused"] ELSE request[c]]
  /\ change' = IF change \in Threads(s) THEN "nobody" ELSE change
  /\ cached' = [cached EXCEPT ![s] = KeyTip]
  /\ UNCHANGED <<keyLog, secretsOn, keyClock>>

CallStep(c) ==
  \/ ReceiveCall(c) \/ FoldKeys(c) \/ CheckKey(c) \/ CheckSecret(c) \/ ServeCall(c) \/ TakeLock(c)
  \/ RotateAgain(c) \/ WriteSecret(c) \/ AppendRotation(c) \/ AppendRevocation(c) \/ DeleteSecret(c)

KeyNext ==
  \/ \E c \in Calls : CallStep(c)
  \/ \E s \in Servers : ServerDies(s)
  \/ \E k \in RecoveryKeys : RecoverOffline(k)
  \/ TimePasses

KeySpec == KeyInit /\ [][KeyNext]_keyVars

----------------------------------------------------------------------------

\* "A revoked credential fails immediately for new" requests, on every server: a request is admitted
\* only by a key that was usable at some moment after the request arrived.
OnlyUsableKeysPass == \A c \in Calls : request[c].at = "secret" => request[c].live

\* No revocation has yet put a key that is in its overlap in the place of the current one.
CurrentIsLasting == \A n \in DOMAIN keyLog : keyLog[n].active[keyLog[n].current] = Never

\* A key that may be used can be used: its secret is there, whichever change was cut short, as long as a
\* rotation never gives a second overlap to a key that had one already.
UsableKeysHaveSecrets == CurrentIsLasting => UsableKeys(KeyState(KeyTip)) \subseteq secretsOn

\* "normal API commands cannot revoke the final active credential": a rotation and a revocation
\* never leave a service that nobody can reach.
NeverLockedOut == UsableKeys(KeyState(KeyTip)) # {}

\* A key passes while it is usable and only then.
KeysWorkWhileUsable == OnlyUsableKeysPass /\ UsableKeysHaveSecrets
=============================================================================
