------------------------------ MODULE ArenaApi ------------------------------
(***************************************************************************)
(* The stores behind the HTTP API: SIWE nonces and sessions, the agent     *)
(* registry with its idempotency keys, the webhook registrations, and the  *)
(* engine's roster, which `arena start` builds from them.  Each store is   *)
(* one JSON file, cached by the process and rewritten whole by the handler *)
(* that changes it; a handler runs to its end unless the process dies,     *)
(* which leaves the writes done so far, and perhaps a truncated file.      *)
(* What a handler answers, and the audit log, are left out here; LogPages  *)
(* is about reading that log.                                              *)
(***************************************************************************)
EXTENDS Naturals, Sequences, FiniteSets, SequencesExt

CONSTANTS
  Wallets, Ids, Keys,
  Static,               \* agents enabled in arena.yaml: id to type
  Anonymous,            \* the owner a webhook registration may leave out
  MaxAgentsPerWallet, MaxRecords,
  NonceTtl, SessionTtl,
  MaxTime, MaxNonces, MaxDeaths, MaxChanges  \* bounds of the exploration

None == "none"

ASSUME ApiConstants ==
  /\ IsFiniteSet(Ids) /\ None \notin Wallets \cup {Anonymous} /\ Anonymous \notin Wallets
  /\ MaxAgentsPerWallet \in Nat /\ MaxRecords \in Nat \ {0}
  /\ NonceTtl \in Nat /\ SessionTtl \in Nat
  /\ MaxTime \in Nat /\ MaxNonces \in Nat /\ MaxDeaths \in Nat /\ MaxChanges \in Nat

VARIABLES
  now, strict,          \* the clock; SYNAPTEX_SIWE_ENFORCE_SIGNATURE_VERIFY
  files,                \* the stores: memory and disk agree between handlers
  up, engine,           \* whether the process runs; who runs under each id
  issued, tried,       \* nonces issued so far; attempts with each
  applied, forgot,      \* POSTs that took effect per key; keys since lost
  deaths, changes

vars == <<now, strict, files, up, engine, issued, tried, applied, forgot, deaths, changes>>

Files == {"siwe", "agents", "idem", "hooks"}
NonceIds == 1..MaxNonces

NoRow == [owner |-> None, enabled |-> FALSE]

\* What reading a missing or broken file gives.
EmptyFile(f) == CASE f = "siwe" -> [nonces |-> {}, sessions |-> {}]
                  [] f = "idem" -> <<>>
                  [] f = "agents" -> [a \in Ids |-> NoRow]
                  [] OTHER -> [a \in Ids |-> None]

Nonces == files["siwe"].nonces
Sessions == files["siwe"].sessions
Registered(a) == files["agents"][a] # NoRow
Hooked(a) == files["hooks"][a] # None

Init ==
  /\ now = 0 /\ strict \in BOOLEAN
  /\ files = [f \in Files |-> EmptyFile(f)]
  /\ up = FALSE /\ engine = [a \in Ids |-> None]
  /\ issued = 0 /\ tried = [n \in NonceIds |-> 0]
  /\ applied = [k \in Keys |-> 0] /\ forgot = {}
  /\ deaths = 0 /\ changes = 0

-----------------------------------------------------------------------------
(* Handlers and their writes.  A write is a pair of a file and its content. *)

Written(ws, k) == [f \in Files |->
  LET is == {i \in 1..k : ws[i][1] = f}
  IN IF is = {} THEN files[f] ELSE ws[CHOOSE i \in is : \A j \in is : j <= i][2]]

Ends(ws) == files' = Written(ws, Len(ws)) /\ UNCHANGED <<up, engine, deaths>>

\* The process dies among the writes of a handler: after `done` of them, with
\* the next file truncated but not written when torn.
Dies(ws, done, torn) ==
  /\ deaths < MaxDeaths /\ deaths' = deaths + 1
  /\ files' = LET w == Written(ws, done)
              IN IF torn /\ done < Len(ws)
                 THEN [w EXCEPT ![ws[done + 1][1]] = EmptyFile(ws[done + 1][1])] ELSE w
  /\ up' = FALSE /\ engine' = [a \in Ids |-> None]

DiesIn(ws) == \E done \in 0..Len(ws), torn \in BOOLEAN : Dies(ws, done, torn)

\* What arena.yaml and the registry ask for: an internal agent only if the Python engine
\* answers; enabled rows of the registry whose id the YAML does not name.
Configured(python, a) ==
  IF a \in DOMAIN Static
  THEN IF Static[a] = "internal" /\ ~python THEN None ELSE "yaml"
  ELSE IF Registered(a) /\ files["agents"][a].enabled THEN "registry" ELSE None

\* Agents already registered are kept, for a mutant.
RosterMutant(python) == [a \in Ids |->
  IF Configured(python, a) = None /\ Hooked(a) THEN "hook" ELSE Configured(python, a)]

\* The engine's agents after a start: every webhook registration replaces what runs
\* under its id.
Roster(python) == [a \in Ids |-> IF Hooked(a) THEN "hook" ELSE Configured(python, a)]

Start(python) ==
  /\ ~up /\ up' = TRUE /\ engine' = Roster(python)
  /\ UNCHANGED <<now, strict, files, issued, tried, applied, forgot, deaths, changes>>

-----------------------------------------------------------------------------
(* Sign-in *)

\* gc(): runs when a nonce or a session is added, never on consumption.
Alive(siwe) == [nonces |-> {n \in siwe.nonces : ~n.used /\ n.exp > now},
                sessions |-> {s \in siwe.sessions : s.exp > now}]

IssueNonce(w) ==
  LET n == [id |-> issued + 1, wallet |-> w, exp |-> now + NonceTtl, used |-> FALSE]
      ws == <<<<"siwe", Alive([nonces |-> Nonces \cup {n}, sessions |-> Sessions])>>>>
  IN /\ up /\ issued < MaxNonces /\ issued' = issued + 1
     /\ (Ends(ws) \/ DiesIn(ws))
     /\ UNCHANGED <<now, strict, tried, applied, forgot, changes>>

\* A nonce that was used still counts, for a mutant.
UsableMutant(n, w, id) == n.id = id /\ n.wallet = w /\ n.exp > now
Usable(n, w, id) == n.id = id /\ n.wallet = w /\ ~n.used /\ n.exp > now

\* The nonce is spent before the message is looked at: a bad signature costs it.
\* Without strict mode a session is opened whatever the message says.
Verify(w, id, names, signed) ==
  \E n \in Nonces :
    LET consumed == [nonces |-> (Nonces \ {n}) \cup {[n EXCEPT !.used = TRUE]}, sessions |-> Sessions]
        s == [nonce |-> id, wallet |-> w, exp |-> now + SessionTtl,
              verified |-> names /\ (strict => signed)]
        withSession == Alive([consumed EXCEPT !.sessions = @ \cup {s}])
        opens == ~strict \/ (names /\ signed)
        ws == IF opens THEN <<<<"siwe", consumed>>, <<"siwe", withSession>>>>
              ELSE <<<<"siwe", consumed>>>>
    IN /\ up /\ Usable(n, w, id)
       /\ \/ Ends(ws) /\ tried' = [tried EXCEPT ![id] = @ + 1]
          \/ \E done \in 0..Len(ws), torn \in BOOLEAN :
                /\ Dies(ws, done, torn)
                /\ tried' = IF done > 0 THEN [tried EXCEPT ![id] = @ + 1] ELSE tried
       /\ UNCHANGED <<now, strict, issued, applied, forgot, changes>>

-----------------------------------------------------------------------------
(* The registry.  A request shows a session; only a live one counts. *)

Live(s) == s.exp > now
Touch == up /\ changes < MaxChanges /\ changes' = changes + 1

\* A key is looked up together with its payload, for a mutant.
KnownMutant(k, hash) == [key |-> k, hash |-> hash] \in ToSet(files["idem"])
Known(k, hash) == \E r \in ToSet(files["idem"]) : r.key = k

Remembered(k, hash) ==
  LET more == Append(files["idem"], [key |-> k, hash |-> hash])
  IN IF Len(more) > MaxRecords THEN SubSeq(more, Len(more) - MaxRecords + 1, Len(more)) ELSE more
KeysOf(idem) == {r.key : r \in ToSet(idem)}

\* POST /registry/agents without a key.  The id's earlier row is overwritten,
\* its owner too.
UpsertPlain(s, a, enabled) ==
  LET ws == <<<<"agents", [files["agents"] EXCEPT ![a] = [owner |-> s.wallet, enabled |-> enabled]]>>>>
  IN /\ s \in Sessions /\ Live(s) /\ Touch
     /\ (Ends(ws) \/ DiesIn(ws))
     /\ UNCHANGED <<now, strict, issued, tried, applied, forgot>>

\* The same with a key that is not on record; a key on record changes nothing,
\* whether its payload is the same (the old answer) or not (409).
Upsert(s, a, enabled, k) ==
  LET hash == <<a, s.wallet, enabled>>
      ws == <<<<"agents", [files["agents"] EXCEPT ![a] = [owner |-> s.wallet, enabled |-> enabled]]>>,
              <<"idem", Remembered(k, hash)>>>>
      took == [applied EXCEPT ![k] = @ + 1]
      losing(idem) == (KeysOf(files["idem"]) \cup {k}) \ KeysOf(idem)
  IN /\ s \in Sessions /\ Live(s) /\ ~Known(k, hash) /\ Touch
     /\ \/ Ends(ws) /\ applied' = took /\ forgot' = (forgot \ {k}) \cup losing(Remembered(k, hash))
        \/ \E done \in 0..2, torn \in BOOLEAN :
              /\ Dies(ws, done, torn)
              /\ applied' = IF done > 0 THEN took ELSE applied
              /\ forgot' = IF done = 0 THEN forgot ELSE forgot \cup losing(files'["idem"])
     /\ UNCHANGED <<now, strict, issued, tried>>

\* PATCH and DELETE are the owner's; the engine learns of them at its next start.
Owns(s, a) == s \in Sessions /\ Live(s) /\ Registered(a) /\ files["agents"][a].owner = s.wallet

SetEnabled(s, a, enabled) ==
  LET ws == <<<<"agents", [files["agents"] EXCEPT ![a].enabled = enabled]>>>>
  IN /\ Owns(s, a) /\ Touch /\ (Ends(ws) \/ DiesIn(ws))
     /\ UNCHANGED <<now, strict, issued, tried, applied, forgot>>

RemoveAgent(s, a) ==
  LET ws == <<<<"agents", [files["agents"] EXCEPT ![a] = NoRow]>>>>
  IN /\ Owns(s, a) /\ Touch /\ (Ends(ws) \/ DiesIn(ws))
     /\ UNCHANGED <<now, strict, issued, tried, applied, forgot>>

-----------------------------------------------------------------------------
(* Webhook registrations: file first, then the running engine. *)

OwnedBy(w) == {a \in Ids : files["hooks"][a] = w}
MayHook(a, w) == ~Hooked(a) /\ (w # Anonymous => Cardinality(OwnedBy(w)) < MaxAgentsPerWallet)

Hook(a, w) ==
  LET ws == <<<<"hooks", [files["hooks"] EXCEPT ![a] = w]>>>>
  IN /\ MayHook(a, w) /\ Touch
     /\ \/ files' = Written(ws, 1) /\ engine' = [engine EXCEPT ![a] = "hook"] /\ UNCHANGED <<up, deaths>>
        \/ DiesIn(ws)
     /\ UNCHANGED <<now, strict, issued, tried, applied, forgot>>

Unhook(a) ==
  LET ws == <<<<"hooks", [files["hooks"] EXCEPT ![a] = None]>>>>
  IN /\ Hooked(a) /\ Touch
     /\ \/ files' = Written(ws, 1) /\ engine' = [engine EXCEPT ![a] = None] /\ UNCHANGED <<up, deaths>>
        \/ DiesIn(ws)
     /\ UNCHANGED <<now, strict, issued, tried, applied, forgot>>

-----------------------------------------------------------------------------
Tick == /\ now < MaxTime /\ now' = now + 1
        /\ UNCHANGED <<strict, files, up, engine, issued, tried, applied, forgot, deaths, changes>>

SignIn == \/ \E w \in Wallets : IssueNonce(w)
          \/ \E w \in Wallets, id \in NonceIds, names, signed \in BOOLEAN : Verify(w, id, names, signed)

RegistryStep ==
  \E s \in Sessions, a \in Ids :
    \/ \E enabled \in BOOLEAN :
         UpsertPlain(s, a, enabled) \/ SetEnabled(s, a, enabled) \/ \E k \in Keys : Upsert(s, a, enabled, k)
    \/ RemoveAgent(s, a)

HookStep == \E a \in Ids : Unhook(a) \/ \E w \in Wallets \cup {Anonymous} : Hook(a, w)

Next == SignIn \/ RegistryStep \/ HookStep \/ Tick \/ \E python \in BOOLEAN : Start(python)

Spec == Init /\ [][Next]_vars
-----------------------------------------------------------------------------
(* Properties. *)

\* A nonce is good for one attempt, failed or not, over deaths and truncated files
\* too; every session and every owner in the registry goes back to an attempt of its
\* own (consumeNonce writes before the message is looked at).
SessionsEarned ==
  /\ \A n \in NonceIds : tried[n] <= 1
  /\ \A s, t \in Sessions : tried[s.nonce] = 1 /\ (s.nonce = t.nonce => s = t)
  /\ (\A n \in NonceIds : tried[n] = 0) => \A a \in Ids : ~Registered(a)

\* A request repeated under its idempotency key works once, whatever is registered
\* in between; it may work again only after its record was lost: evicted, torn, or
\* never written because the process died after the registry's write.
KeyAppliesOnce == [][\A k \in Keys : applied'[k] > applied[k] /\ applied[k] > 0 => k \in forgot]_vars

\* A running engine has exactly the webhook registrations of the file, over
\* registrations, removals, deaths and starts, and no wallet exceeds its number.
FileMatchesEngine ==
  /\ up => \A a \in Ids : engine[a] = "hook" <=> Hooked(a)
  /\ \A w \in Wallets : Cardinality(OwnedBy(w)) <= MaxAgentsPerWallet
=============================================================================
