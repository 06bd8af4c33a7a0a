--------------------------- MODULE AgentIdentity ---------------------------
(***************************************************************************)
(* Who an agent is on chain: AgentNFA.sol (ERC-721 part), the accounts     *)
(* bound to its tokens (AgentAccount.sol, AgentAccountRegistry.sol), and   *)
(* the registrar of the engine and the CLI, which sees to it that every    *)
(* agent has both (cli/src/arena/agent-identity-registrar.ts).             *)
(*                                                                         *)
(* A transaction is one step.  Accounts are addresses like any other: they *)
(* may own tokens, be approved and execute calls of other accounts.  The   *)
(* address of an account is what it is derived from.                       *)
(***************************************************************************)
EXTENDS Naturals, FiniteSets, Sequences

CONSTANTS
    Users,      \* addresses with a key; Deployer is one of them
    Deployer,   \* owner of the NFA and of the beacon; signs for the registrar
    NumAgents,  \* agents of the configuration, numbered as they stand there
    Homes,      \* of accounts, whether they are bound to this chain
    Registrars, \* processes that run ensureAgent
    MaxGrants,  \* bound: approvals for all and authorized callers at a time
    Zero

Agents    == 1..NumAgents
TokenIds  == 1..NumAgents
Accounts  == [token : TokenIds, home : Homes]
Addresses == Users \cup Accounts

ASSUME IdentityAssumption ==
    NumAgents \in Nat \ {0} /\ Deployer \in Users /\ Zero \notin Addresses /\ Homes \subseteq BOOLEAN

VARIABLES
    nfaOwner, nextTokenId, ownerOf, balanceOf, tokenByAgentKey,
    getApproved, isApprovedForAll,
    approvedBy,         \* history: the owner under whom getApproved was set
    deployed,           \* accounts with code
    callers,            \* authorizedCallersByOwner, per account
    reg,                \* what each registrar is doing
    log                 \* lines of the registration log

tokenVars   == <<nextTokenId, ownerOf, balanceOf, tokenByAgentKey>>
nfaVars     == <<nfaOwner, tokenVars, getApproved, isApprovedForAll, approvedBy>>
accountVars == <<deployed, callers>>
regVars     == <<reg, log>>
identityVars        == <<nfaVars, accountVars, regVars>>

Idle == [pc |-> "idle", agent |-> 1, token |-> 0]

IdentityInit ==
    /\ nfaOwner = Deployer /\ nextTokenId = 1
    /\ ownerOf = [t \in TokenIds |-> Zero]
    /\ balanceOf = [a \in Addresses |-> 0]
    /\ tokenByAgentKey = [k \in Agents |-> 0]
    /\ getApproved = [t \in TokenIds |-> Zero] /\ isApprovedForAll = {}
    /\ approvedBy = [t \in TokenIds |-> Zero]
    /\ deployed = {} /\ callers = {}
    /\ reg = [r \in Registrars |-> Idle] /\ log = {}
-----------------------------------------------------------------------------
(* Who sends a call: a user, or an account that an address with a say in   *)
(* it has made execute the call.                                           *)

\* owner(): an account of another chain has none.
OwnerOf(a) == IF a.home THEN ownerOf[a.token] ELSE Zero

MaySteer(x, a) ==
    /\ a \in deployed /\ OwnerOf(a) # Zero
    /\ x = OwnerOf(a) \/ <<a, OwnerOf(a), x>> \in callers

\* Chains of execute() and executeCall() of up to two accounts.
Sends(x) ==
    \/ x \in Users
    \/ x \in Accounts /\ \E y \in Addresses :
          /\ MaySteer(y, x)
          /\ y \in Users \/ \E u \in Users : MaySteer(u, y)
-----------------------------------------------------------------------------
(* AgentNFA.                                                               *)

\* A plausible slip: an agent is minted again.
MayMintMutant(sender, agent) == sender = nfaOwner /\ nextTokenId \in TokenIds

MayMint(sender, agent) ==
    /\ sender = nfaOwner /\ tokenByAgentKey[agent] = 0
    /\ nextTokenId \in TokenIds

MintAgent(sender, agent, to) ==
    /\ MayMint(sender, agent)
    /\ nextTokenId' = nextTokenId + 1
    /\ ownerOf' = [ownerOf EXCEPT ![nextTokenId] = to]
    /\ balanceOf' = [balanceOf EXCEPT ![to] = @ + 1]
    /\ tokenByAgentKey' = [tokenByAgentKey EXCEPT ![agent] = nextTokenId]
    /\ UNCHANGED <<nfaOwner, getApproved, isApprovedForAll, approvedBy, accountVars>>

TransferOwnership(sender, to) ==
    /\ sender = nfaOwner /\ nfaOwner' = to
    /\ UNCHANGED <<tokenVars, getApproved, isApprovedForAll, approvedBy, accountVars>>

Approve(sender, spender, t) ==
    /\ ownerOf[t] # Zero
    /\ sender = ownerOf[t] \/ <<ownerOf[t], sender>> \in isApprovedForAll
    /\ getApproved' = [getApproved EXCEPT ![t] = spender]
    /\ approvedBy' = [approvedBy EXCEPT ![t] = IF spender = Zero THEN Zero ELSE ownerOf[t]]
    /\ UNCHANGED <<nfaOwner, tokenVars, isApprovedForAll, accountVars>>

GrantsLeft == Cardinality(isApprovedForAll) + Cardinality(callers) < MaxGrants

SetApprovalForAll(sender, operator, approved) ==
    /\ isApprovedForAll' = IF approved THEN isApprovedForAll \cup {<<sender, operator>>}
                                       ELSE isApprovedForAll \ {<<sender, operator>>}
    /\ approved => GrantsLeft
    /\ UNCHANGED <<nfaOwner, tokenVars, getApproved, approvedBy, accountVars>>

IsApprovedOrOwner(spender, t) ==
    \/ spender \in {ownerOf[t], getApproved[t]}
    \/ <<ownerOf[t], spender>> \in isApprovedForAll

\* A plausible slip: the approval outlives the sale.
ClearedMutant(t) == getApproved

Cleared(t) == [getApproved EXCEPT ![t] = Zero]

TransferFrom(sender, from, to, t) ==
    /\ from # Zero /\ ownerOf[t] = from /\ IsApprovedOrOwner(sender, t)
    /\ getApproved' = Cleared(t)
    /\ approvedBy' = [approvedBy EXCEPT ![t] = Zero]
    /\ ownerOf' = [ownerOf EXCEPT ![t] = to]
    /\ balanceOf' = [[balanceOf EXCEPT ![from] = @ - 1] EXCEPT ![to] = @ + 1]
    /\ UNCHANGED <<nfaOwner, nextTokenId, tokenByAgentKey, isApprovedForAll, accountVars>>

\* An account has code and is no ERC-721 receiver.
SafeTransferFrom(sender, from, to, t) ==
    to \notin deployed /\ TransferFrom(sender, from, to, t)

NfaCall(sender) ==
    \/ \E k \in Agents, to \in Users : MintAgent(sender, k, to)
    \/ \E to \in Users : TransferOwnership(sender, to)
    \/ \E t \in TokenIds :
          \/ \E spender \in Users \cup {Zero} : Approve(sender, spender, t)
          \/ \E to \in Addresses :
                \/ TransferFrom(sender, ownerOf[t], to, t)
                \/ SafeTransferFrom(sender, ownerOf[t], to, t)
    \/ \E x \in Users, b \in BOOLEAN : SetApprovalForAll(sender, x, b)
-----------------------------------------------------------------------------
(* Accounts and their registry.                                            *)

CreateAccount(a) ==
    /\ deployed' = deployed \cup {a}
    /\ UNCHANGED <<nfaVars, callers>>

SetAuthorizedCaller(sender, a, x, authorized) ==
    /\ a \in deployed /\ sender = OwnerOf(a)
    /\ callers' = IF authorized THEN callers \cup {<<a, sender, x>>}
                                ELSE callers \ {<<a, sender, x>>}
    /\ authorized => GrantsLeft
    /\ UNCHANGED <<nfaVars, deployed>>

AccountCall(sender) ==
    \E a \in Accounts :
        \/ CreateAccount(a)
        \/ \E x \in Users, b \in BOOLEAN : SetAuthorizedCaller(sender, a, x, b)

Transaction ==
    /\ \E x \in Addresses : Sends(x) /\ (NfaCall(x) \/ AccountCall(x))
    /\ UNCHANGED regVars
-----------------------------------------------------------------------------
(* The registrar: a process goes through the agents of its configuration.  *)
(* Each call of cast is a step.  It may fail, which ends the process with  *)
(* an error, and a transaction may land all the same.                      *)

\* account and token of an agent: the default beacon and salt, this chain
AccountOf(token) == [token |-> token, home |-> TRUE]

Goes(r, pc, agent, token) ==
    reg' = [reg EXCEPT ![r] = [pc |-> pc, agent |-> agent, token |-> token]]

At(r, pc) == reg[r].pc = pc

RegistrarStarts(r) ==
    /\ At(r, "idle") /\ Goes(r, "read", 1, 0)
    /\ UNCHANGED <<log, nfaVars, accountVars>>

\* Plausible slips: what is read after the mint is not looked at; an agent
\* that has no token is passed over.
AfterReadMutant(pc, token) == IF pc = "read" /\ token = 0 THEN "mint" ELSE "code"
AfterReadMutantSkips(pc, token) == IF token # 0 THEN "code" ELSE "idle"

\* readTokenIdByKey, before the mint and after it
AfterRead(pc, token) ==
    CASE token # 0 -> "code" [] pc = "read" -> "mint" [] OTHER -> "idle"

ReadTokenId(r) ==
    \E pc \in {"read", "reread"} :
        /\ At(r, pc)
        /\ LET token == tokenByAgentKey[reg[r].agent] IN
           Goes(r, AfterRead(pc, token), reg[r].agent, token)
        /\ UNCHANGED <<log, nfaVars, accountVars>>

Mint(r, seen) ==
    /\ At(r, "mint")
    /\ \E owner \in Users : MintAgent(Deployer, reg[r].agent, owner)
    /\ Goes(r, IF seen THEN "reread" ELSE "idle", reg[r].agent, 0)
    /\ UNCHANGED log

\* cast returns the receipt of a mint that reverted
MintReverts(r) ==
    /\ At(r, "mint") /\ Goes(r, "reread", reg[r].agent, 0)
    /\ UNCHANGED <<log, nfaVars, accountVars>>

\* chain id, address and code, then createAccount only if there is no code
ReadCode(r) ==
    /\ At(r, "code")
    /\ Goes(r, IF AccountOf(reg[r].token) \in deployed THEN "log" ELSE "create",
            reg[r].agent, reg[r].token)
    /\ UNCHANGED <<log, nfaVars, accountVars>>

Create(r, seen) ==
    /\ At(r, "create") /\ CreateAccount(AccountOf(reg[r].token))
    /\ Goes(r, IF seen THEN "log" ELSE "idle", reg[r].agent, reg[r].token)
    /\ UNCHANGED log

Log(r) ==
    /\ At(r, "log")
    /\ log' = log \cup {[agent |-> reg[r].agent, token |-> reg[r].token]}
    /\ IF reg[r].agent = NumAgents THEN Goes(r, "idle", 1, 0)
                                   ELSE Goes(r, "read", reg[r].agent + 1, 0)
    /\ UNCHANGED <<nfaVars, accountVars>>

\* A call fails without effect, or the process dies.
Fails(r) ==
    /\ ~At(r, "idle") /\ Goes(r, "idle", 1, 0)
    /\ UNCHANGED <<log, nfaVars, accountVars>>

EnsureAgent(r) ==
    \/ ReadTokenId(r) \/ ReadCode(r) \/ Log(r)
    \/ Mint(r, TRUE) \/ Create(r, TRUE)

RegistrarStep ==
    \E r \in Registrars :
        \/ RegistrarStarts(r) \/ EnsureAgent(r) \/ Fails(r)
        \/ Mint(r, FALSE) \/ MintReverts(r) \/ Create(r, FALSE)

IdentityNext == Transaction \/ RegistrarStep

IdentitySpec == IdentityInit /\ [][IdentityNext]_identityVars

\* Every call ends; from some time on a call fails only if it must: a mint for an
\* agent that has a token.
RegistrarGetsOn ==
    \A r \in Registrars :
        /\ WF_identityVars(EnsureAgent(r) \/ Fails(r))
        /\ <>[][Fails(r) \/ MintReverts(r) =>
                  At(r, "mint") /\ ~MayMint(Deployer, reg[r].agent)]_identityVars

\* The commands are run again after an error.
RegistrarFairness ==
    RegistrarGetsOn /\ \A r \in Registrars : WF_identityVars(RegistrarStarts(r))

IdentityFairSpec == IdentitySpec /\ RegistrarFairness
-----------------------------------------------------------------------------
(* Properties.                                                             *)

\* The ERC-721 books agree: an agent has one token and a token one agent, and
\* balanceOf counts tokens, whoever mints and sells.
BooksAgree ==
    /\ \A k, l \in Agents : tokenByAgentKey[k] = tokenByAgentKey[l] => k = l \/ tokenByAgentKey[k] = 0
    /\ {tokenByAgentKey[k] : k \in Agents} \ {0} = {t \in TokenIds : ownerOf[t] # Zero}
    /\ \A a \in Addresses : balanceOf[a] = Cardinality({t \in TokenIds : ownerOf[t] = a})

\* Whoever is approved for a token was approved under the owner of now: no
\* approval of a seller reaches the buyer (l.295).
ApprovalIsOwners ==
    \A t \in TokenIds : getApproved[t] # Zero => approvedBy[t] = ownerOf[t]

\* The NFA's books, over mints, sales and approvals of anyone (AgentNFA.sol:252-322).
NfaBooks == BooksAgree /\ ApprovalIsOwners

\* A line of the registration log names a token of that agent and an account
\* that exists, whatever failed or was minted by others in between.
LogIsTrue ==
    \A l \in log : tokenByAgentKey[l.agent] = l.token /\ AccountOf(l.token) \in deployed

\* Calls may fail or land unseen: once a registrar was started, every agent ends up with
\* a token and an account, as long as the deployer keeps the NFA.
EveryAgentRegistered ==
    (\E r \in Registrars : ~At(r, "idle")) ~>
        (\/ nfaOwner # Deployer
         \/ \A k \in Agents :
               tokenByAgentKey[k] # 0 /\ AccountOf(tokenByAgentKey[k]) \in deployed)
=============================================================================
