------------------------------ MODULE Startup ------------------------------
(***************************************************************************)
(* The commands that put transactions on chain, from the environment they  *)
(* are run in: `arena start` with its preflight, `bootstrap-onchain` and   *)
(* `sync-learning` without (cli/src/commands/arena.ts).  Each builds the   *)
(* parts it needs (the submitters, the registrar), which resolve a signer  *)
(* for `cast` on their own (cast-signer.ts); then agents get their         *)
(* identities one by one, and what serves submits what is handed to it.    *)
(* How the parts do that is in AgentIdentity, SettlementSubmit and         *)
(* LearningSync.                                                           *)
(***************************************************************************)
EXTENDS Naturals, Sequences

CONSTANT Environments   \* what a command may find: what is set, which addresses, which agents

Commands == {"start", "bootstrap", "sync"}

\* Variables that are 1 or not empty, and what the machine has.
Flags == {"onchain", "endpoint", "registration", "rpc", "unlocked", "from", "keystore", "key",
          "allow", "siwe", "verifier", "keystoreFile", "salt", "cast"}
Contracts == {"settler", "oracle", "nfa", "registry"}

\* An agent that is enabled: in arena.yaml or only in the registry, and whether its owner is an address.
ConfiguredAgent == [yaml : BOOLEAN, hex : BOOLEAN]

ASSUME StartupConstants ==
  Environments \subseteq [flags : SUBSET Flags,
                          addr : [Contracts \cup {"mintTo"} -> {"none", "bad", "hex"}],
                          agents : Seq(ConfiguredAgent)]

VARIABLES
  env, cmd, phase,      \* of the one command that is run
  waiting,              \* agents whose identity is not yet ensured
  txs                   \* transactions: to which contract, by which signer, for whom

startupVars == <<env, cmd, phase, waiting, txs>>

Has(f) == f \in env.flags
Given(a) == env.addr[a] # "none"
IsHexAddress(a) == env.addr[a] = "hex"

StartupInit ==
  /\ env \in Environments /\ cmd \in Commands /\ phase = "begun"
  /\ waiting = <<>> /\ txs = {}

-----------------------------------------------------------------------------
(* collectPreflightIssues: what it refuses *)

SignerConfigured == Has("keystore") \/ Has("key") \/ (Has("unlocked") /\ Has("from"))
RawKeyBlocked == Has("key") /\ ~Has("keystore") /\ ~Has("unlocked") /\ ~Has("allow")

ChainIssue ==
  /\ Has("onchain")
  /\ \/ ~Has("rpc") \/ ~SignerConfigured \/ RawKeyBlocked
     \/ ~IsHexAddress("settler") \/ ~IsHexAddress("oracle")
     \/ Has("keystore") /\ ~Has("keystoreFile")
     \/ ~Has("cast")

RegistrationIssue ==
  /\ Has("registration")
  /\ \/ ~Has("rpc") \/ ~SignerConfigured
     \/ ~IsHexAddress("nfa") \/ ~IsHexAddress("registry")
     \/ /\ ~IsHexAddress("mintTo")
        /\ \E i \in DOMAIN env.agents : env.agents[i].yaml /\ ~env.agents[i].hex

Refused == ChainIssue \/ RegistrationIssue \/ (Has("siwe") /\ ~Has("verifier") /\ ~Has("cast"))

-----------------------------------------------------------------------------
(* The parts.  "throws" is a constructor or a factory that throws. *)

\* A raw key is taken whether it is allowed or not, for a mutant.
CastSignerMutant ==
  CASE Has("unlocked") -> IF Has("from") THEN "unlocked" ELSE "throws"
    [] ~Has("unlocked") /\ Has("keystore") -> "keystore"
    [] OTHER -> IF Has("key") THEN "key" ELSE "throws"

\* resolveCastSigner: the first that is configured, and no other if that one is incomplete.
CastSigner ==
  CASE Has("unlocked") -> IF Has("from") THEN "unlocked" ELSE "throws"
    [] ~Has("unlocked") /\ Has("keystore") -> "keystore"
    [] OTHER -> IF Has("key") /\ Has("allow") THEN "key" ELSE "throws"

CastPart(contracts) ==
  IF Has("rpc") /\ (\A a \in contracts : Given(a)) /\ CastSigner # "throws" THEN "cast" ELSE "throws"

SeasonSubmitter ==
  IF Has("onchain") THEN CastPart({"settler"}) ELSE IF Has("endpoint") THEN "http" ELSE "log"
LearningRootSubmitter == IF Has("onchain") THEN CastPart({"oracle"}) ELSE "log"
Registrar ==
  IF ~Has("registration") THEN "none"
  ELSE IF Has("salt") THEN CastPart({"nfa", "registry"}) ELSE "throws"

Built ==
  CASE cmd = "start" -> {SeasonSubmitter, LearningRootSubmitter, Registrar}
    [] cmd = "bootstrap" -> {Registrar}
    [] cmd = "sync" -> {LearningRootSubmitter}

-----------------------------------------------------------------------------
(* The commands *)

RunCommand ==
  /\ phase = "begun" /\ UNCHANGED <<env, cmd, txs>>
  /\ IF cmd = "start" /\ Refused THEN phase' = "refused" /\ UNCHANGED waiting
     ELSE IF "throws" \in Built THEN phase' = "failed" /\ UNCHANGED waiting
     ELSE /\ phase' = IF cmd = "sync" THEN "serving" ELSE "registering"
          /\ waiting' = CASE cmd = "start" -> env.agents
                          [] cmd = "bootstrap" -> SelectSeq(env.agents, LAMBDA a : a.yaml)
                          [] cmd = "sync" -> <<>>

\* A call of cast takes its binary, and one that sends a signer: a keystore has to be there.
CastSends == Has("cast") /\ (CastSigner = "keystore" => Has("keystoreFile"))
CastSend(contract, for) == [to |-> contract, by |-> CastSigner, for |-> for]

\* ensureAgent resolves the owner, or ARENA_AGENT_NFA_MINT_TO if that is no address, also for
\* an agent that has its token; it sends what the chain does not have yet.
ResolvedOwner == IF Head(waiting).hex THEN "owner" ELSE "mintTo"
Resolves == Head(waiting).hex \/ IsHexAddress("mintTo")
Identity == {CastSend("nfa", ResolvedOwner), CastSend("registry", "token")}
EnsureSends ==
  \E new \in SUBSET Identity :
    /\ Has("cast") /\ Resolves /\ (new # {} => CastSends)
    /\ txs' = txs \cup new

EnsureNext ==
  /\ phase = "registering" /\ waiting # <<>>
  /\ IF Registrar = "none" THEN UNCHANGED txs ELSE EnsureSends
  /\ waiting' = Tail(waiting) /\ UNCHANGED <<env, cmd, phase>>

\* A call that fails, perhaps after the mint, ends the command.
EnsureFails ==
  /\ phase = "registering" /\ waiting # <<>> /\ Registrar = "cast"
  /\ (UNCHANGED txs \/ EnsureSends)
  /\ phase' = "failed" /\ UNCHANGED <<env, cmd, waiting>>

AllEnsured ==
  /\ phase = "registering" /\ waiting = <<>>
  /\ phase' = IF cmd = "start" THEN "serving" ELSE "done"
  /\ UNCHANGED <<env, cmd, waiting, txs>>

\* The hooks of `arena start`, and each row of a replay.  A submission that fails is alerted or
\* tried again, and the process goes on.
SubmitTo(contract, submitter) ==
  /\ phase = "serving" /\ submitter = "cast" /\ CastSends
  /\ txs' = txs \cup {CastSend(contract, "season")}
  /\ UNCHANGED <<env, cmd, phase, waiting>>

StartupNext ==
  \/ RunCommand \/ EnsureNext \/ EnsureFails \/ AllEnsured
  \/ SubmitTo("oracle", LearningRootSubmitter)
  \/ cmd = "start" /\ SubmitTo("settler", SeasonSubmitter)

StartupSpec == StartupInit /\ [][StartupNext]_startupVars

-----------------------------------------------------------------------------
\* No transaction without what it takes: a node, a signer that is complete, a raw key only where
\* that is allowed, an owner that is an address; and from `arena start` a contract that is an
\* address.  The preflight and each constructor look at the environment apart, and two of the
\* commands have no preflight.
Equipped(x) ==
  /\ Has("rpc") /\ Has("cast")
  /\ \/ x.by = "unlocked" /\ Has("unlocked") /\ Has("from")
     \/ x.by = "keystore" /\ Has("keystore") /\ Has("keystoreFile")
     \/ x.by = "key" /\ Has("key") /\ Has("allow")
  /\ Given(x.to) /\ (x.for = "mintTo" => IsHexAddress("mintTo"))
  /\ cmd = "start" => IsHexAddress(x.to)

\* What the preflight accepts and the constructors do not: three settings that it overlooks.
Overlooked ==
  \/ Has("unlocked") /\ ~Has("from")
  \/ Has("registration") /\ (RawKeyBlocked \/ ~Has("salt"))

\* A start, a bootstrap or a replay sends nothing it is not equipped for, over every environment;
\* one that is refused has sent nothing; and the preflight misses nothing but what is overlooked.
StartsEquipped ==
  /\ \A x \in txs : Equipped(x)
  /\ phase \in {"begun", "refused"} => txs = {}
  /\ cmd = "start" /\ phase = "failed" /\ txs = {} /\ waiting = <<>> => Overlooked
=============================================================================
