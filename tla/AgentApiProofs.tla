---------------------------- MODULE AgentApiProofs ----------------------------
(* What is proved of the registrar of agent identities, of the API behind it, of    *)
(* the chain log it pages through, of the leaderboards and their viewers, and of    *)
(* the commands that start it all.                                                  *)
EXTENDS AgentIdentity, ArenaApi, LogPages, Standings, Startup, FiniteSetTheorems, TLAPS


-----------------------------------------------------------------------------
(* The identity registrar *)

\* The tokens of an address, as BooksAgree counts them.
Held(a) == {t \in TokenIds : ownerOf[t] = a}

\* Types, and how far minting has come: the tokens below nextTokenId are those that
\* exist, each under one agent's key.
TokensInv ==
    /\ nextTokenId \in 1..(NumAgents + 1)
    /\ ownerOf \in [TokenIds -> Addresses \cup {Zero}]
    /\ tokenByAgentKey \in [Agents -> Nat]
    /\ \A t \in TokenIds : ownerOf[t] # Zero <=> t < nextTokenId
    /\ \A k \in Agents : tokenByAgentKey[k] < nextTokenId
    /\ \A k, l \in Agents :
          tokenByAgentKey[k] = tokenByAgentKey[l] => k = l \/ tokenByAgentKey[k] = 0
    /\ \A t \in TokenIds : t < nextTokenId => \E k \in Agents : tokenByAgentKey[k] = t

BalancesInv ==
    /\ balanceOf \in [Addresses -> Nat]
    /\ \A a \in Addresses : balanceOf[a] = Cardinality(Held(a))

\* A token that does not exist has nobody approved for it.
ApprovalsInv ==
    /\ getApproved \in [TokenIds -> Users \cup {Zero}]
    /\ approvedBy \in [TokenIds -> Addresses \cup {Zero}]
    /\ \A t \in TokenIds : getApproved[t] # Zero => ownerOf[t] # Zero /\ approvedBy[t] = ownerOf[t]

NfaInv == TokensInv /\ BalancesInv /\ ApprovalsInv

\* The tokens of an address are finitely many.
LEMMA HeldFinite ==
    ASSUME IdentityAssumption
    PROVE  \A a : IsFiniteSet(Held(a)) /\ Cardinality(Held(a)) \in Nat
<1>1. IsFiniteSet(TokenIds)
  BY FS_Interval DEF TokenIds, IdentityAssumption
<1>2. \A a : Held(a) \in SUBSET TokenIds
  BY DEF Held
<1> QED
  BY <1>1, <1>2, FS_Subset, FS_CardinalityType

\* Before anything is minted the books are empty, and agree.
THEOREM NfaInvInit == IdentityAssumption /\ IdentityInit => NfaInv
<1> SUFFICES ASSUME IdentityAssumption, IdentityInit PROVE NfaInv
  OBVIOUS
<1>1. TokensInv
  BY DEF IdentityInit, TokensInv, IdentityAssumption, TokenIds, Agents
<1>2. BalancesInv
  <2>1. \A a \in Addresses : Held(a) = {}
    BY DEF IdentityInit, Held, IdentityAssumption
  <2>2. Cardinality({}) = 0
    BY FS_EmptySet
  <2>3. \A a \in Addresses : balanceOf[a] = Cardinality(Held(a))
    BY <2>1, <2>2 DEF IdentityInit
  <2> QED
    BY <2>3 DEF BalancesInv, IdentityInit
<1>3. ApprovalsInv
  BY DEF IdentityInit, ApprovalsInv
<1> QED
  BY <1>1, <1>2, <1>3 DEF NfaInv

\* A mint takes the next token, for an agent that has none.
LEMMA MintTokens ==
    ASSUME IdentityAssumption, TokensInv, NEW sender, NEW agent \in Agents, NEW to \in Users,
           MintAgent(sender, agent, to)
    PROVE  TokensInv' /\ nextTokenId \in TokenIds /\ ownerOf[nextTokenId] = Zero
<1> USE DEF TokensInv, IdentityAssumption
<1>1. /\ nextTokenId \in TokenIds /\ tokenByAgentKey[agent] = 0
      /\ nextTokenId' = nextTokenId + 1
      /\ ownerOf' = [ownerOf EXCEPT ![nextTokenId] = to]
      /\ tokenByAgentKey' = [tokenByAgentKey EXCEPT ![agent] = nextTokenId]
  BY DEF MintAgent, MayMint
<1>2. nextTokenId \in 1..NumAgents /\ nextTokenId' \in 1..(NumAgents + 1)
  BY <1>1 DEF TokenIds
<1>3. to \in Addresses /\ to # Zero
  BY DEF Addresses
<1>4. ownerOf' \in [TokenIds -> Addresses \cup {Zero}] /\ tokenByAgentKey' \in [Agents -> Nat]
  BY <1>1, <1>2, <1>3
<1>5. \A t \in TokenIds : ownerOf'[t] = IF t = nextTokenId THEN to ELSE ownerOf[t]
  BY <1>1
<1>6. \A k \in Agents : tokenByAgentKey'[k] = IF k = agent THEN nextTokenId ELSE tokenByAgentKey[k]
  BY <1>1
<1>7. \A t \in TokenIds : t \in Nat /\ (ownerOf'[t] # Zero <=> t < nextTokenId')
  BY <1>1, <1>2, <1>3, <1>5 DEF TokenIds
<1>8. \A k \in Agents : tokenByAgentKey'[k] < nextTokenId'
  BY <1>1, <1>2, <1>6
<1>9. \A k, l \in Agents :
          tokenByAgentKey'[k] = tokenByAgentKey'[l] => k = l \/ tokenByAgentKey'[k] = 0
  BY <1>2, <1>6
<1>10. \A t \in TokenIds : t < nextTokenId' => \E k \in Agents : tokenByAgentKey'[k] = t
  <2> SUFFICES ASSUME NEW t \in TokenIds, t < nextTokenId'
               PROVE  \E k \in Agents : tokenByAgentKey'[k] = t
    OBVIOUS
  <2>1. t < nextTokenId \/ t = nextTokenId
    BY <1>1, <1>2 DEF TokenIds
  <2>2. CASE t < nextTokenId
    <3>1. PICK k \in Agents : tokenByAgentKey[k] = t
      BY <2>2
    <3>2. k # agent
      BY <1>1, <3>1 DEF TokenIds
    <3> QED
      BY <1>6, <3>1, <3>2
  <2> QED
    BY <1>6, <2>1, <2>2
<1>11. ownerOf[nextTokenId] = Zero
  BY <1>1, <1>2
<1> QED
  BY <1>1, <1>2, <1>4, <1>7, <1>8, <1>9, <1>10, <1>11

\* A mint raises the balance of its receiver by one, and nobody else's.
LEMMA MintBalances ==
    ASSUME IdentityAssumption, TokensInv, BalancesInv, NEW sender, NEW agent \in Agents,
           NEW to \in Users, MintAgent(sender, agent, to)
    PROVE  BalancesInv'
<1>1. nextTokenId \in TokenIds /\ ownerOf[nextTokenId] = Zero
  BY MintTokens
<1>2. /\ ownerOf' = [ownerOf EXCEPT ![nextTokenId] = to]
      /\ balanceOf' = [balanceOf EXCEPT ![to] = balanceOf[to] + 1]
  BY DEF MintAgent
<1>3. to \in Addresses /\ to # Zero
  BY DEF Addresses, IdentityAssumption
<1>4. Held(to)' = Held(to) \cup {nextTokenId} /\ nextTokenId \notin Held(to)
  BY <1>1, <1>2, <1>3 DEF Held, TokensInv
<1>5. \A a \in Addresses \ {to} : Held(a)' = Held(a)
  BY <1>1, <1>2 DEF Held, TokensInv, IdentityAssumption
<1>6. Cardinality(Held(to) \cup {nextTokenId}) = Cardinality(Held(to)) + 1
  BY <1>4, HeldFinite, FS_AddElement
<1>7. balanceOf' \in [Addresses -> Nat]
  BY <1>2, <1>3 DEF BalancesInv
<1>8. \A a \in Addresses : balanceOf'[a] = Cardinality(Held(a)')
  <2> SUFFICES ASSUME NEW a \in Addresses PROVE balanceOf'[a] = Cardinality(Held(a)')
    OBVIOUS
  <2>1. CASE a = to
    BY <1>2, <1>3, <1>4, <1>6, <2>1 DEF BalancesInv
  <2>2. CASE a # to
    BY <1>2, <1>5, <2>2 DEF BalancesInv
  <2> QED
    BY <2>1, <2>2
<1> QED
  BY <1>7, <1>8 DEF BalancesInv

\* A transfer takes a token from its owner's count and adds it to the buyer's, who may
\* be the owner himself.
LEMMA TransferBalances ==
    ASSUME IdentityAssumption, TokensInv, BalancesInv, NEW t \in TokenIds, NEW from, NEW sender,
           NEW to \in Addresses, TransferFrom(sender, from, to, t)
    PROVE  BalancesInv'
<1>1. /\ from # Zero /\ ownerOf[t] = from /\ from \in Addresses
      /\ ownerOf' = [ownerOf EXCEPT ![t] = to]
      /\ balanceOf' = [[balanceOf EXCEPT ![from] = balanceOf[from] - 1] EXCEPT ![to] = @ + 1]
  BY DEF TransferFrom, TokensInv
<1>2. t \in Held(from) /\ \A u \in TokenIds : ownerOf'[u] = IF u = t THEN to ELSE ownerOf[u]
  BY <1>1 DEF Held, TokensInv
<1>3. /\ \A a \in Addresses : balanceOf[a] \in Nat /\ balanceOf[a] = Cardinality(Held(a))
      /\ balanceOf \in [Addresses -> Nat]
  BY DEF BalancesInv
<1>4. Cardinality(Held(from) \ {t}) = Cardinality(Held(from)) - 1
  BY <1>2, HeldFinite, FS_RemoveElement
<1>5. Cardinality(Held(from)) - 1 \in Nat
  <2>1. Cardinality(Held(from) \ {t}) \in Nat
    BY HeldFinite, FS_Subset, FS_RemoveElement, FS_CardinalityType, <1>2
  <2> QED
    BY <1>4, <2>1
<1>6. CASE from = to
  <2>1. \A a \in Addresses : Held(a)' = Held(a)
    BY <1>1, <1>2, <1>6 DEF Held
  <2>2. balanceOf' = balanceOf
    BY <1>1, <1>3, <1>6
  <2> QED
    BY <1>3, <2>1, <2>2 DEF BalancesInv
<1>7. CASE from # to
  <2>1. Held(from)' = Held(from) \ {t}
    BY <1>1, <1>2, <1>7 DEF Held
  <2>2. Held(to)' = Held(to) \cup {t} /\ t \notin Held(to)
    BY <1>1, <1>2, <1>7 DEF Held
  <2>3. \A a \in Addresses \ {from, to} : Held(a)' = Held(a)
    BY <1>1, <1>2 DEF Held
  <2>4. Cardinality(Held(to) \cup {t}) = Cardinality(Held(to)) + 1
    BY <2>2, HeldFinite, FS_AddElement
  <2>5. /\ balanceOf' \in [Addresses -> Nat]
        /\ balanceOf'[from] = balanceOf[from] - 1 /\ balanceOf'[to] = balanceOf[to] + 1
        /\ \A a \in Addresses \ {from, to} : balanceOf'[a] = balanceOf[a]
    BY <1>1, <1>3, <1>5, <1>7
  <2>6. /\ balanceOf'[from] = Cardinality(Held(from)') /\ balanceOf'[to] = Cardinality(Held(to)')
        /\ \A a \in Addresses \ {from, to} : balanceOf'[a] = Cardinality(Held(a)')
    BY <1>1, <1>3, <1>4, <2>1, <2>2, <2>3, <2>4, <2>5
  <2> QED
    BY <2>5, <2>6 DEF BalancesInv
<1> QED
  BY <1>6, <1>7

\* Each call of the NFA, and those that leave the books alone.
LEMMA MintInv ==
    ASSUME IdentityAssumption, NfaInv, NEW sender, NEW agent \in Agents, NEW to \in Users,
           MintAgent(sender, agent, to)
    PROVE  NfaInv'
<1>1. TokensInv' /\ nextTokenId \in TokenIds /\ ownerOf[nextTokenId] = Zero
  BY MintTokens DEF NfaInv
<1>2. BalancesInv'
  BY MintBalances DEF NfaInv
<1>3. ApprovalsInv'
  BY <1>1 DEF MintAgent, NfaInv, ApprovalsInv, TokensInv
<1> QED
  BY <1>1, <1>2, <1>3 DEF NfaInv

\* A transfer moves one token of the books, and drops its approval.
LEMMA TransferInv ==
    ASSUME IdentityAssumption, NfaInv, NEW t \in TokenIds, NEW from, NEW sender,
           NEW to \in Addresses, TransferFrom(sender, from, to, t)
    PROVE  NfaInv'
<1>1. /\ from # Zero /\ ownerOf[t] = from /\ to # Zero
      /\ ownerOf' = [ownerOf EXCEPT ![t] = to]
      /\ UNCHANGED <<nextTokenId, tokenByAgentKey>>
  BY DEF TransferFrom, IdentityAssumption
<1>2. /\ ownerOf' \in [TokenIds -> Addresses \cup {Zero}]
      /\ \A u \in TokenIds : ownerOf'[u] = IF u = t THEN to ELSE ownerOf[u]
  BY <1>1 DEF NfaInv, TokensInv
<1>3. TokensInv'
  BY <1>1, <1>2 DEF NfaInv, TokensInv
<1>4. BalancesInv'
  BY TransferBalances DEF NfaInv
<1>5. /\ getApproved' = [getApproved EXCEPT ![t] = Zero]
      /\ approvedBy' = [approvedBy EXCEPT ![t] = Zero]
  BY DEF TransferFrom, Cleared
<1>6. ApprovalsInv'
  BY <1>2, <1>5 DEF NfaInv, ApprovalsInv
<1> QED
  BY <1>3, <1>4, <1>6 DEF NfaInv

\* Approving a token touches neither owners nor balances.
LEMMA ApproveInv ==
    ASSUME IdentityAssumption, NfaInv, NEW sender, NEW spender \in Users \cup {Zero},
           NEW t \in TokenIds, Approve(sender, spender, t)
    PROVE  NfaInv'
<1>1. /\ ownerOf[t] # Zero /\ ownerOf[t] \in Addresses \cup {Zero}
      /\ getApproved' = [getApproved EXCEPT ![t] = spender]
      /\ approvedBy' = [approvedBy EXCEPT ![t] = IF spender = Zero THEN Zero ELSE ownerOf[t]]
      /\ UNCHANGED tokenVars
  BY DEF Approve, NfaInv, TokensInv
<1>2. TokensInv' /\ BalancesInv'
  BY <1>1 DEF NfaInv, TokensInv, BalancesInv, Held, tokenVars
<1>3. ApprovalsInv'
  BY <1>1 DEF NfaInv, ApprovalsInv, tokenVars
<1> QED
  BY <1>2, <1>3 DEF NfaInv

\* A step that leaves the NFA's storage alone keeps its invariant.
LEMMA BooksKept ==
    ASSUME NfaInv, UNCHANGED <<tokenVars, getApproved, approvedBy>>
    PROVE  NfaInv'
  BY DEF NfaInv, TokensInv, BalancesInv, ApprovalsInv, Held, tokenVars

\* An agent that has a token keeps it under its key, and accounts stay deployed.
KeysStay ==
    /\ \A k \in Agents : tokenByAgentKey[k] # 0 => tokenByAgentKey'[k] = tokenByAgentKey[k]
    /\ deployed \subseteq deployed'

\* A mint takes a key that was free: keys that have a token keep it.
LEMMA MintStays ==
    ASSUME NfaInv, NEW sender, NEW agent \in Agents, NEW to, MintAgent(sender, agent, to)
    PROVE  KeysStay
  BY DEF MintAgent, MayMint, NfaInv, TokensInv, KeysStay, accountVars

\* Every call of the NFA keeps its books, the tokens of keys and the accounts.
LEMMA NfaCallInv ==
    ASSUME IdentityAssumption, NfaInv, NEW sender, NfaCall(sender)
    PROVE  NfaInv' /\ KeysStay
<1>0. ASSUME UNCHANGED <<tokenByAgentKey, deployed>> PROVE KeysStay
  BY <1>0 DEF KeysStay
<1>1. ASSUME NEW k \in Agents, NEW to \in Users, MintAgent(sender, k, to)
      PROVE  NfaInv' /\ KeysStay
  BY <1>1, MintInv, MintStays
<1>2. ASSUME NEW to \in Users, TransferOwnership(sender, to) PROVE NfaInv' /\ KeysStay
  BY <1>0, <1>2, BooksKept DEF TransferOwnership, tokenVars, accountVars
<1>3. ASSUME NEW t \in TokenIds, NEW spender \in Users \cup {Zero}, Approve(sender, spender, t)
      PROVE  NfaInv' /\ KeysStay
  BY <1>0, <1>3, ApproveInv DEF Approve, tokenVars, accountVars
<1>4. ASSUME NEW t \in TokenIds, NEW to \in Addresses,
             \/ TransferFrom(sender, ownerOf[t], to, t)
             \/ SafeTransferFrom(sender, ownerOf[t], to, t)
      PROVE  NfaInv' /\ KeysStay
  <2>1. TransferFrom(sender, ownerOf[t], to, t)
    BY <1>4 DEF SafeTransferFrom
  <2> QED
    BY <1>0, <2>1, TransferInv DEF TransferFrom, accountVars
<1>5. ASSUME NEW x \in Users, NEW b \in BOOLEAN, SetApprovalForAll(sender, x, b)
      PROVE  NfaInv' /\ KeysStay
  BY <1>0, <1>5, BooksKept DEF SetApprovalForAll, tokenVars, accountVars
<1> QED
  BY <1>1, <1>2, <1>3, <1>4, <1>5 DEF NfaCall

\* Calls of the accounts and of their registry leave the books alone.
LEMMA AccountCallInv ==
    ASSUME NfaInv, UNCHANGED nfaVars, deployed \subseteq deployed'
    PROVE  NfaInv' /\ KeysStay
  BY BooksKept DEF nfaVars, tokenVars, KeysStay

Pcs == {"idle", "read", "mint", "reread", "code", "create", "log"}

\* What a registrar has read is still so when it acts on it, and its log is true.
RegInv ==
    /\ reg \in [Registrars -> [pc : Pcs, agent : Agents, token : Nat]]
    /\ \A r \in Registrars :
          /\ reg[r].pc \in {"code", "create", "log"} =>
                reg[r].token # 0 /\ tokenByAgentKey[reg[r].agent] = reg[r].token
          /\ reg[r].pc = "log" => AccountOf(reg[r].token) \in deployed
    /\ \A l \in log : l.agent \in Agents /\ l.token # 0
    /\ LogIsTrue

IdentityInv == NfaInv /\ RegInv

\* Registrars that have not started have read nothing and logged nothing.
LEMMA RegInvInit == IdentityAssumption /\ IdentityInit => RegInv
  BY DEF IdentityAssumption, IdentityInit, RegInv, Idle, Pcs, Agents, LogIsTrue

\* What others do to keys and accounts does not reach what a registrar has read.
LEMMA RegInvStays == ASSUME RegInv, KeysStay, UNCHANGED regVars PROVE RegInv'
  BY DEF RegInv, KeysStay, regVars, LogIsTrue

\* A step of one registrar, while others' keys and accounts stay.
LEMMA RegInvGoes ==
    ASSUME RegInv, KeysStay, NEW r \in Registrars, NEW pc \in Pcs, NEW agent \in Agents,
           NEW token \in Nat, Goes(r, pc, agent, token), log' = log,
           pc \in {"code", "create", "log"} => token # 0 /\ tokenByAgentKey'[agent] = token,
           pc = "log" => AccountOf(token) \in deployed'
    PROVE  RegInv'
<1> DEFINE next == [pc |-> pc, agent |-> agent, token |-> token]
<1>1. next \in [pc : Pcs, agent : Agents, token : Nat]
  OBVIOUS
<1>2. /\ reg' \in [Registrars -> [pc : Pcs, agent : Agents, token : Nat]]
      /\ \A q \in Registrars : reg'[q] = IF q = r THEN next ELSE reg[q]
  BY <1>1 DEF Goes, RegInv
<1>3. LogIsTrue'
  BY DEF RegInv, KeysStay, LogIsTrue
<1>4. \A q \in Registrars :
          /\ reg'[q].pc \in {"code", "create", "log"} =>
                reg'[q].token # 0 /\ tokenByAgentKey'[reg'[q].agent] = reg'[q].token
          /\ reg'[q].pc = "log" => AccountOf(reg'[q].token) \in deployed'
  <2> SUFFICES ASSUME NEW q \in Registrars
      PROVE /\ reg'[q].pc \in {"code", "create", "log"} =>
                reg'[q].token # 0 /\ tokenByAgentKey'[reg'[q].agent] = reg'[q].token
            /\ reg'[q].pc = "log" => AccountOf(reg'[q].token) \in deployed'
    OBVIOUS
  <2>1. CASE q = r
    BY <1>2, <2>1
  <2>2. CASE q # r
    <3>1. reg'[q] = reg[q] /\ reg[q].agent \in Agents
      BY <1>2, <2>2 DEF RegInv
    <3> QED
      BY <3>1 DEF RegInv, KeysStay
  <2> QED
    BY <2>1, <2>2
<1> QED
  BY <1>2, <1>3, <1>4 DEF RegInv

\* A step of a registrar is a mint, or leaves the books; either way it acts on what
\* still holds.
LEMMA RegistrarStepInv ==
    ASSUME IdentityAssumption, IdentityInv, NEW r \in Registrars,
           \/ RegistrarStarts(r) \/ EnsureAgent(r) \/ Fails(r)
           \/ Mint(r, FALSE) \/ MintReverts(r) \/ Create(r, FALSE)
    PROVE  IdentityInv'
<1> DEFINE k == reg[r].agent
           token == reg[r].token
<1>0. /\ NfaInv /\ RegInv /\ k \in Agents /\ token \in Nat
      /\ 1 \in Agents /\ 0 \in Nat /\ reg[r].pc \in Pcs
      /\ tokenByAgentKey \in [Agents -> Nat]
  BY DEF IdentityInv, RegInv, NfaInv, TokensInv, IdentityAssumption, Agents
<1>1. ASSUME UNCHANGED nfaVars, deployed \subseteq deployed'
      PROVE  NfaInv' /\ KeysStay /\ UNCHANGED tokenByAgentKey
  BY <1>0, <1>1, AccountCallInv DEF nfaVars, tokenVars
<1>2. ASSUME NEW pc \in {"idle", "read", "mint", "reread"}, NEW agent \in Agents,
             NfaInv', KeysStay, log' = log, Goes(r, pc, agent, 0)
      PROVE  IdentityInv'
  BY <1>0, <1>2, RegInvGoes DEF IdentityInv, Pcs
<1>3. CASE RegistrarStarts(r) \/ Fails(r) \/ MintReverts(r)
  <2>1. UNCHANGED nfaVars /\ deployed \subseteq deployed' /\ log' = log
    BY <1>3 DEF RegistrarStarts, Fails, MintReverts, accountVars
  <2> QED
    BY <1>0, <1>1, <1>2, <1>3, <2>1 DEF RegistrarStarts, Fails, MintReverts
<1>4. ASSUME NEW knew \in BOOLEAN, Mint(r, knew) PROVE IdentityInv'
  <2>1. NfaInv' /\ KeysStay
    BY <1>0, <1>4, MintInv, MintStays DEF Mint
  <2> QED
    BY <1>0, <1>2, <1>4, <2>1 DEF Mint
<1>5. CASE ReadTokenId(r)
  <2>1. PICK pc \in {"read", "reread"} :
            Goes(r, AfterRead(pc, tokenByAgentKey[k]), k, tokenByAgentKey[k])
    BY <1>5 DEF ReadTokenId
  <2>2. UNCHANGED nfaVars /\ deployed \subseteq deployed' /\ log' = log
    BY <1>5 DEF ReadTokenId, accountVars
  <2> DEFINE next == AfterRead(pc, tokenByAgentKey[k])
  <2>3. next \in Pcs /\ next # "log" /\ (next \in {"code", "create"} => tokenByAgentKey[k] # 0)
    BY DEF AfterRead, Pcs
  <2> HIDE DEF next
  <2>4. tokenByAgentKey[k] \in Nat
    BY <1>0
  <2>5. NfaInv' /\ KeysStay /\ tokenByAgentKey' = tokenByAgentKey
    BY <1>1, <2>2
  <2> QED
    BY <1>0, <2>1, <2>2, <2>3, <2>4, <2>5, RegInvGoes DEF IdentityInv, next
<1>6. CASE ReadCode(r)
  <2>1. /\ At(r, "code") /\ UNCHANGED nfaVars /\ deployed' = deployed /\ log' = log
    BY <1>6 DEF ReadCode, accountVars
  <2>2. token # 0 /\ tokenByAgentKey[k] = token
    BY <1>0, <2>1 DEF At, RegInv
  <2>3. NfaInv' /\ KeysStay /\ tokenByAgentKey' = tokenByAgentKey
    BY <1>1, <2>1
  <2>4. \/ Goes(r, "create", k, token)
        \/ AccountOf(token) \in deployed /\ Goes(r, "log", k, token)
    BY <1>6 DEF ReadCode
  <2> QED
    BY <1>0, <2>1, <2>2, <2>3, <2>4, RegInvGoes DEF IdentityInv, Pcs
<1>7. ASSUME NEW knew \in BOOLEAN, Create(r, knew) PROVE IdentityInv'
  <2>1. /\ At(r, "create") /\ UNCHANGED nfaVars /\ log' = log
        /\ deployed' = deployed \cup {AccountOf(token)}
    BY <1>7 DEF Create, CreateAccount
  <2>2. token # 0 /\ tokenByAgentKey[k] = token
    BY <1>0, <2>1 DEF At, RegInv
  <2>3. NfaInv' /\ KeysStay /\ tokenByAgentKey' = tokenByAgentKey
    BY <1>1, <2>1
  <2>4. Goes(r, "idle", k, token) \/ Goes(r, "log", k, token)
    BY <1>7 DEF Create
  <2>5. AccountOf(token) \in deployed'
    BY <2>1
  <2> QED
    BY <1>0, <2>1, <2>2, <2>3, <2>4, <2>5, RegInvGoes DEF IdentityInv, Pcs
<1>8. CASE Log(r)
  <2>1. /\ At(r, "log") /\ UNCHANGED nfaVars /\ UNCHANGED accountVars
        /\ log' = log \cup {[agent |-> k, token |-> token]}
    BY <1>8 DEF Log
  <2>2. token # 0 /\ tokenByAgentKey[k] = token /\ AccountOf(token) \in deployed
    BY <1>0, <2>1 DEF At, RegInv
  <2>3. NfaInv' /\ KeysStay /\ tokenByAgentKey' = tokenByAgentKey /\ deployed' = deployed
    BY <1>1, <2>1 DEF accountVars
  <2>4. PICK pc \in {"idle", "read"}, agent \in Agents : Goes(r, pc, agent, 0)
    <3>1. k # NumAgents => k + 1 \in Agents
      BY <1>0 DEF Agents, IdentityAssumption
    <3> QED
      BY <1>0, <1>8, <3>1 DEF Log
  <2>5. /\ reg' \in [Registrars -> [pc : Pcs, agent : Agents, token : Nat]]
        /\ \A q \in Registrars : reg'[q] = IF q = r THEN [pc |-> pc, agent |-> agent, token |-> 0]
                                                    ELSE reg[q]
    BY <1>0, <2>4 DEF Goes, RegInv, Pcs
  <2>6. /\ \A l \in log' : l.agent \in Agents /\ l.token # 0
        /\ LogIsTrue'
    BY <1>0, <2>1, <2>2, <2>3 DEF RegInv, LogIsTrue
  <2>7. RegInv'
    BY <1>0, <2>3, <2>5, <2>6 DEF RegInv
  <2> QED
    BY <2>3, <2>7 DEF IdentityInv
<1> QED
  BY <1>3, <1>4, <1>5, <1>6, <1>7, <1>8 DEF EnsureAgent

\* Every step, of users and of registrars, keeps the inductive invariant.
THEOREM IdentityInvNext == IdentityAssumption /\ IdentityInv /\ [IdentityNext]_identityVars => IdentityInv'
<1> SUFFICES ASSUME IdentityAssumption, IdentityInv, [IdentityNext]_identityVars PROVE IdentityInv'
  OBVIOUS
<1>1. CASE UNCHANGED identityVars
  <2>1. UNCHANGED nfaVars /\ UNCHANGED regVars /\ deployed \subseteq deployed'
    BY <1>1 DEF identityVars, accountVars
  <2> QED
    BY <2>1, AccountCallInv, RegInvStays DEF IdentityInv
<1>2. CASE Transaction
  <2>1. NfaInv' /\ KeysStay
    BY <1>2, NfaCallInv, AccountCallInv DEF Transaction, AccountCall, CreateAccount,
       SetAuthorizedCaller, IdentityInv
  <2> QED
    BY <1>2, <2>1, RegInvStays DEF Transaction, IdentityInv
<1>3. CASE RegistrarStep
  BY <1>3, RegistrarStepInv DEF RegistrarStep
<1> QED
  BY <1>1, <1>2, <1>3 DEF IdentityNext

\* The books of the NFA agree and no approval outlives a sale, for any number of
\* agents and whoever mints, sells and approves.
THEOREM NfaBooksAgree == IdentitySpec => []NfaBooks
<1>1. IdentityAssumption /\ IdentityInv => NfaBooks
  <2> SUFFICES ASSUME IdentityAssumption, IdentityInv PROVE NfaBooks
    OBVIOUS
  <2>1. \A k, l \in Agents :
            tokenByAgentKey[k] = tokenByAgentKey[l] => k = l \/ tokenByAgentKey[k] = 0
    BY DEF IdentityInv, NfaInv, TokensInv
  <2>2. {tokenByAgentKey[k] : k \in Agents} \ {0} = {t \in TokenIds : ownerOf[t] # Zero}
    <3>1. ASSUME NEW k \in Agents, tokenByAgentKey[k] # 0
          PROVE  tokenByAgentKey[k] \in TokenIds /\ ownerOf[tokenByAgentKey[k]] # Zero
      BY <3>1 DEF IdentityInv, NfaInv, TokensInv, TokenIds, IdentityAssumption
    <3>2. ASSUME NEW t \in TokenIds, ownerOf[t] # Zero
          PROVE  t # 0 /\ \E k \in Agents : tokenByAgentKey[k] = t
      BY <3>2 DEF IdentityInv, NfaInv, TokensInv, TokenIds
    <3> QED
      BY <3>1, <3>2
  <2>3. \A a \in Addresses : balanceOf[a] = Cardinality({t \in TokenIds : ownerOf[t] = a})
    BY DEF IdentityInv, NfaInv, BalancesInv, Held
  <2>4. ApprovalIsOwners
    BY DEF IdentityInv, NfaInv, ApprovalsInv, ApprovalIsOwners
  <2> QED
    BY <2>1, <2>2, <2>3, <2>4 DEF NfaBooks, BooksAgree
<1>2. IdentityAssumption /\ IdentityInit => IdentityInv
  BY NfaInvInit, RegInvInit DEF IdentityInv
<1> QED
  BY <1>1, <1>2, IdentityInvNext, IdentityAssumption, PTL DEF IdentitySpec

\* Whatever any number of registrars and others do in between, what a registrar logs
\* is a token of that agent and an account with code.
THEOREM RegistrationsTrue == IdentitySpec => []LogIsTrue
<1>1. IdentityInv => LogIsTrue
  BY DEF IdentityInv, RegInv
<1>2. IdentityAssumption /\ IdentityInit => IdentityInv
  BY NfaInvInit, RegInvInit DEF IdentityInv
<1> QED
  BY <1>1, <1>2, IdentityInvNext, IdentityAssumption, PTL DEF IdentitySpec

-----------------------------------------------------------------------------
(* The API, its sessions and its keys *)

-----------------------------------------------------------------------------
(* The writes of a handler: what it, or a death in it, leaves in the files. *)

Stores == files = [f \in Files |-> files[f]]
With(f, x) == [files EXCEPT ![f] = x]
Stopped == up' = FALSE /\ engine' = [a \in Ids |-> None]

\* No write leaves the files as they are.
LEMMA WrittenNone ==
  ASSUME Stores, NEW ws PROVE Written(ws, 0) = files
<1>1. \A f \in Files : {i \in 1..0 : ws[i][1] = f} = {}
  OBVIOUS
<1>2. Written(ws, 0) = [f \in Files |-> files[f]]
  BY <1>1 DEF Written
<1> QED
  BY <1>2 DEF Stores

\* What one write leaves.
LEMMA WrittenOne ==
  ASSUME Stores, NEW f \in Files, NEW x, NEW ws, Len(ws) \in Nat, ws[1] = <<f, x>>
  PROVE  Written(ws, 1) = With(f, x)
<1>1. {i \in 1..1 : ws[i][1] = f} = {1}
  OBVIOUS
<1>2. \A g \in Files : g # f => {i \in 1..1 : ws[i][1] = g} = {}
  OBVIOUS
<1>3. (CHOOSE i \in {1} : \A j \in {1} : j <= i) = 1
  OBVIOUS
<1>4. Written(ws, 1) = [g \in Files |-> IF g = f THEN x ELSE files[g]]
  BY <1>1, <1>2, <1>3 DEF Written
<1> QED
  BY <1>4 DEF Stores, With

\* What two writes leave.
LEMMA WrittenTwo ==
  ASSUME Stores, NEW f \in Files, NEW x, NEW g \in Files, NEW y, NEW ws, ws[1] = <<f, x>>, ws[2] = <<g, y>>
  PROVE  Written(ws, 2) = [With(f, x) EXCEPT ![g] = y]
<1>1. \A h \in Files : {i \in 1..2 : ws[i][1] = h} =
         {i \in {1} : f = h} \cup {i \in {2} : g = h}
  OBVIOUS
<1>2. (CHOOSE i \in {1} : \A j \in {1} : j <= i) = 1
  OBVIOUS
<1>3. (CHOOSE i \in {2} : \A j \in {2} : j <= i) = 2
  OBVIOUS
<1>4. (CHOOSE i \in {1, 2} : \A j \in {1, 2} : j <= i) = 2
  OBVIOUS
<1>5. ASSUME NEW h \in Files
      PROVE  LET is == {i \in 1..2 : ws[i][1] = h}
             IN (IF is = {} THEN files[h] ELSE ws[CHOOSE i \in is : \A j \in is : j <= i][2])
                  = (IF h = g THEN y ELSE IF h = f THEN x ELSE files[h])
  <2>1. CASE h = g /\ h = f
    <3>1. {i \in 1..2 : ws[i][1] = h} = {1, 2}
      BY <1>1, <2>1
    <3> QED BY <3>1, <1>4, <2>1
  <2>2. CASE h = g /\ h # f
    <3>1. {i \in 1..2 : ws[i][1] = h} = {2}
      BY <1>1, <2>2
    <3> QED BY <3>1, <1>3, <2>2
  <2>3. CASE h # g /\ h = f
    <3>1. {i \in 1..2 : ws[i][1] = h} = {1}
      BY <1>1, <2>3
    <3> QED BY <3>1, <1>2, <2>3
  <2>4. CASE h # g /\ h # f
    <3>1. {i \in 1..2 : ws[i][1] = h} = {}
      BY <1>1, <2>4
    <3> QED BY <3>1, <2>4
  <2> QED BY <2>1, <2>2, <2>3, <2>4
<1>6. Written(ws, 2) = [h \in Files |-> IF h = g THEN y ELSE IF h = f THEN x ELSE files[h]]
  BY <1>5 DEF Written
<1> QED
  BY <1>6 DEF Stores, With

\* A death in a handler of one write: before it, after it, or in it.
LEMMA DiesInOne ==
  ASSUME Stores, NEW f \in Files, NEW x, DiesIn(<<<<f, x>>>>)
  PROVE  /\ Stopped
         /\ files' = files \/ files' = With(f, x) \/ files' = With(f, EmptyFile(f))
<1> DEFINE ws == <<<<f, x>>>>
<1>1. Len(ws) = 1 /\ ws[1] = <<f, x>>
  OBVIOUS
<1>2. Written(ws, 0) = files
  BY WrittenNone
<1>3. Written(ws, 1) = With(f, x)
  BY <1>1, WrittenOne
<1>4. PICK done \in 0..1, torn \in BOOLEAN : Dies(ws, done, torn)
  BY <1>1 DEF DiesIn
<1> HIDE DEF ws
<1>5. CASE done = 0
  BY <1>1, <1>2, <1>4, <1>5 DEF Dies, Stopped, With
<1>6. CASE done = 1
  BY <1>1, <1>3, <1>4, <1>6 DEF Dies, Stopped
<1> QED
  BY <1>4, <1>5, <1>6

\* A death in a handler of two writes.
LEMMA DiesOfTwo ==
  ASSUME Stores, NEW f \in Files, NEW x, NEW g \in Files, NEW y,
         NEW done \in 0..2, NEW torn \in BOOLEAN, Dies(<<<<f, x>>, <<g, y>>>>, done, torn)
  PROVE  /\ Stopped
         /\ done = 0 => files' = files \/ files' = With(f, EmptyFile(f))
         /\ done = 1 => files' = With(f, x) \/ files' = [With(f, x) EXCEPT ![g] = EmptyFile(g)]
         /\ done = 2 => files' = [With(f, x) EXCEPT ![g] = y]
<1> DEFINE ws == <<<<f, x>>, <<g, y>>>>
<1>1. Len(ws) = 2 /\ ws[1] = <<f, x>> /\ ws[2] = <<g, y>>
  OBVIOUS
<1>2. Written(ws, 0) = files
  BY WrittenNone
<1>3. Written(ws, 1) = With(f, x)
  BY <1>1, WrittenOne
<1>4. Written(ws, 2) = [With(f, x) EXCEPT ![g] = y]
  BY <1>1, WrittenTwo
<1>5. Dies(ws, done, torn)
  OBVIOUS
<1> HIDE DEF ws
<1>6. CASE done = 0
  BY <1>1, <1>2, <1>5, <1>6 DEF Dies, Stopped, With
<1>7. CASE done = 1
  <2> DEFINE w == With(f, x)
  <2>1. w = With(f, x)
    OBVIOUS
  <2>2. ws[done + 1][1] = g /\ done < Len(ws) /\ Written(ws, done) = w
    BY <1>1, <1>3, <1>7
  <2> HIDE DEF w
  <2>3. Stopped /\ (files' = w \/ files' = [w EXCEPT ![g] = EmptyFile(g)])
    BY <1>5, <2>2 DEF Dies, Stopped
  <2> QED BY <1>7, <2>1, <2>3
<1>8. CASE done = 2
  <2>1. ~(done < Len(ws))
    BY <1>1, <1>8
  <2>2. Stopped /\ files' = Written(ws, done)
    BY <1>5, <2>1 DEF Dies, Stopped
  <2> QED BY <1>4, <1>8, <2>2
<1> QED
  BY <1>6, <1>7, <1>8

\* A handler that ends.
LEMMA EndsOne ==
  ASSUME Stores, NEW f \in Files, NEW x, Ends(<<<<f, x>>>>)
  PROVE  files' = With(f, x) /\ UNCHANGED <<up, engine>>
<1> DEFINE ws == <<<<f, x>>>>
<1>1. Len(ws) = 1 /\ ws[1] = <<f, x>>
  OBVIOUS
<1>2. Written(ws, 1) = With(f, x)
  BY <1>1, WrittenOne
<1> QED
  BY <1>1, <1>2 DEF Ends

\* A handler that got through both of its writes.
LEMMA EndsTwo ==
  ASSUME Stores, NEW f \in Files, NEW x, NEW g \in Files, NEW y, Ends(<<<<f, x>>, <<g, y>>>>)
  PROVE  files' = [With(f, x) EXCEPT ![g] = y] /\ UNCHANGED <<up, engine>>
<1> DEFINE ws == <<<<f, x>>, <<g, y>>>>
<1>1. Len(ws) = 2 /\ ws[1] = <<f, x>> /\ ws[2] = <<g, y>>
  OBVIOUS
<1>2. Written(ws, 2) = [With(f, x) EXCEPT ![g] = y]
  BY <1>1, WrittenTwo
<1> QED
  BY <1>1, <1>2 DEF Ends
-----------------------------------------------------------------------------
(* The inductive invariant. *)

Nonce == [id : NonceIds, wallet : Wallets, exp : Nat, used : BOOLEAN]
Session == [nonce : NonceIds, wallet : Wallets, exp : Nat, verified : BOOLEAN]

\* A nonce on record that is unused has not been tried, one that was tried was issued, and a
\* session's nonce was tried.
SignInInv ==
  /\ now \in Nat /\ issued \in 0..MaxNonces /\ tried \in [NonceIds -> {0, 1}]
  /\ files["siwe"] = [nonces |-> Nonces, sessions |-> Sessions]
  /\ Nonces \subseteq Nonce /\ Sessions \subseteq Session
  /\ \A n \in Nonces : n.id <= issued /\ (~n.used => tried[n.id] = 0)
  /\ \A m, n \in Nonces : m.id = n.id => m = n
  /\ \A i \in NonceIds : tried[i] = 1 => i <= issued
  /\ \A s, t \in Sessions : tried[s.nonce] = 1 /\ (s.nonce = t.nonce => s = t)

\* Who is registered was registered by a session.
RegistryInv ==
  /\ files["agents"] = [a \in Ids |-> files["agents"][a]]
  /\ (\A i \in NonceIds : tried[i] = 0) => \A a \in Ids : ~Registered(a)

\* A key that worked is on record, or its record was lost.
KeysInv ==
  /\ applied \in [Keys -> Nat]
  /\ \A k \in Keys : applied[k] > 0 => k \in forgot \/ k \in KeysOf(files["idem"])

HooksInv ==
  /\ engine = [a \in Ids |-> engine[a]]
  /\ files["hooks"] \in [Ids -> Wallets \cup {Anonymous, None}]
  /\ FileMatchesEngine

ApiInv == Stores /\ SignInInv /\ RegistryInv /\ KeysInv /\ HooksInv

\* At the first start nothing is remembered and nothing is on disk.
LEMMA ApiInvInit == Init => ApiInv
<1> SUFFICES ASSUME Init PROVE ApiInv
  OBVIOUS
<1> USE ApiConstants
<1>1. Stores /\ Nonces = {} /\ Sessions = {} /\ files["siwe"] = [nonces |-> {}, sessions |-> {}]
      /\ files["idem"] = <<>> /\ files["agents"] = [a \in Ids |-> NoRow]
      /\ files["hooks"] = [a \in Ids |-> None]
  BY DEF Init, Stores, EmptyFile, Files, Nonces, Sessions
<1>2. SignInInv
  BY <1>1 DEF Init, SignInInv, NonceIds
<1>3. RegistryInv
  BY <1>1 DEF RegistryInv, Registered
<1>4. KeysInv
  BY DEF Init, KeysInv
<1>5. HooksInv
  <2>1. \A w \in Wallets : OwnedBy(w) = {}
    BY <1>1 DEF OwnedBy
  <2>2. \A w \in Wallets : Cardinality(OwnedBy(w)) <= MaxAgentsPerWallet
    BY <2>1, FS_EmptySet
  <2> QED BY <1>1, <2>2 DEF Init, HooksInv, FileMatchesEngine
<1> QED BY <1>1, <1>2, <1>3, <1>4, <1>5 DEF ApiInv

\* What a handler does not write it does not disturb.
LEMMA SignInFrame ==
  ASSUME SignInInv, files'["siwe"] = files["siwe"], UNCHANGED <<issued, tried>>, now' \in Nat
  PROVE  SignInInv'
BY DEF SignInInv, Nonces, Sessions

\* A step that leaves the registry and its file keeps what relates them.
LEMMA RegistryFrame ==
  ASSUME RegistryInv, files'["agents"] = files["agents"],
         \A i \in NonceIds : tried'[i] = 0 => tried[i] = 0
  PROVE  RegistryInv'
BY DEF RegistryInv, Registered

\* A step that leaves the idempotency keys and their file keeps what relates them.
LEMMA KeysFrame ==
  ASSUME KeysInv, files'["idem"] = files["idem"], UNCHANGED <<applied, forgot>>
  PROVE  KeysInv'
BY DEF KeysInv

\* A step that leaves the webhooks and their file keeps what relates them.
LEMMA HooksFrame ==
  ASSUME HooksInv, files'["hooks"] = files["hooks"], UNCHANGED <<up, engine>> \/ Stopped
  PROVE  HooksInv'
<1>1. CASE UNCHANGED <<up, engine>>
  BY <1>1 DEF HooksInv, FileMatchesEngine, Hooked, OwnedBy
<1>2. CASE Stopped
  BY <1>2 DEF HooksInv, FileMatchesEngine, Hooked, OwnedBy, Stopped
<1> QED BY <1>1, <1>2

\* A handler that writes one file leaves one of three contents in it, and the others alone.
LEMMA OneFile ==
  ASSUME Stores, NEW f \in Files, NEW x, Ends(<<<<f, x>>>>) \/ DiesIn(<<<<f, x>>>>)
  PROVE  /\ Stores' /\ (\A g \in Files : g # f => files'[g] = files[g])
         /\ files'[f] \in {x, files[f], EmptyFile(f)}
         /\ UNCHANGED <<up, engine>> \/ Stopped
<1>1. \A y : /\ DOMAIN With(f, y) = Files /\ With(f, y) = [g \in Files |-> With(f, y)[g]]
             /\ With(f, y)[f] = y
             /\ \A g \in Files : g # f => With(f, y)[g] = files[g]
  BY DEF With, Stores
<1>2. CASE Ends(<<<<f, x>>>>)
  <2>1. files' = With(f, x) /\ UNCHANGED <<up, engine>>
    BY <1>2, EndsOne
  <2> QED BY <1>1, <2>1 DEF Stores
<1>3. CASE DiesIn(<<<<f, x>>>>)
  <2>1. Stopped /\ (files' = files \/ files' = With(f, x) \/ files' = With(f, EmptyFile(f)))
    BY <1>3, DiesInOne
  <2> QED BY <1>1, <2>1 DEF Stores
<1> QED BY <1>2, <1>3

-----------------------------------------------------------------------------
(* Sign-in. *)

\* Both lists of the store are thinned out, never filled.
LEMMA AliveThins ==
  ASSUME NEW siwe
  PROVE  /\ Alive(siwe) = [nonces |-> Alive(siwe).nonces, sessions |-> Alive(siwe).sessions]
         /\ Alive(siwe).nonces \subseteq siwe.nonces /\ Alive(siwe).sessions \subseteq siwe.sessions
BY DEF Alive

\* SignInInv survives any content of the store with fewer nonces and sessions.
LEMMA SignInThinned ==
  ASSUME SignInInv, NEW x, x = [nonces |-> x.nonces, sessions |-> x.sessions],
         x.nonces \subseteq Nonces, x.sessions \subseteq Sessions,
         files'["siwe"] = x, UNCHANGED tried, now' \in Nat, issued' \in 0..MaxNonces, issued' >= issued
  PROVE  SignInInv'
<1>1. Nonces' = x.nonces /\ Sessions' = x.sessions
  BY DEF Nonces, Sessions
<1>2. \A n \in Nonces' : n.id <= issued' /\ (~n.used => tried'[n.id] = 0)
  BY <1>1 DEF SignInInv, Nonce, NonceIds
<1>3. \A i \in NonceIds : tried'[i] = 1 => i <= issued'
  BY DEF SignInInv, NonceIds
<1> QED BY <1>1, <1>2, <1>3 DEF SignInInv

\* What a missing file of sessions is read as.
LEMMA EmptySiwe == EmptyFile("siwe") = [nonces |-> {}, sessions |-> {}]
BY DEF EmptyFile

\* Issuing a nonce.
LEMMA IssueNonceInv ==
  ASSUME ApiInv, NEW w \in Wallets, IssueNonce(w) PROVE ApiInv'
<1> USE ApiConstants
<1> DEFINE n == [id |-> issued + 1, wallet |-> w, exp |-> now + NonceTtl, used |-> FALSE]
           x == Alive([nonces |-> Nonces \cup {n}, sessions |-> Sessions])
<1>1. Stores /\ SignInInv /\ RegistryInv /\ KeysInv /\ HooksInv
  BY DEF ApiInv
<1>2. Ends(<<<<"siwe", x>>>>) \/ DiesIn(<<<<"siwe", x>>>>)
  BY DEF IssueNonce
<1>3. issued < MaxNonces /\ issued' = issued + 1 /\ UNCHANGED <<now, strict, tried, applied, forgot, changes>>
  BY DEF IssueNonce
<1>4. "siwe" \in Files
  BY DEF Files
<1>5. n \in Nonce
  BY <1>1, <1>3 DEF Nonce, NonceIds, SignInInv
<1>6. x = [nonces |-> x.nonces, sessions |-> x.sessions] /\ x.nonces \subseteq Nonces \cup {n} /\ x.sessions \subseteq Sessions
  BY DEF Alive
<1>n. n.id = issued + 1 /\ n.used = FALSE
  OBVIOUS
<1> HIDE DEF n, x
<1>7. /\ Stores' /\ (\A g \in Files : g # "siwe" => files'[g] = files[g])
      /\ files'["siwe"] \in {x, files["siwe"], EmptyFile("siwe")}
      /\ UNCHANGED <<up, engine>> \/ Stopped
  BY <1>1, <1>2, <1>4, OneFile
<1>8. SignInInv'
  <2>1. now' \in Nat /\ issued' \in 0..MaxNonces /\ issued' >= issued /\ tried' = tried
    BY <1>1, <1>3 DEF SignInInv
  <2>2. CASE files'["siwe"] = x
    <3>1. Nonces' = x.nonces /\ Sessions' = x.sessions
      BY <2>2 DEF Nonces, Sessions
    <3>2. tried[issued + 1] = 0 /\ issued + 1 \in NonceIds
      BY <1>1, <1>3 DEF SignInInv, NonceIds
    <3>3. \A m \in Nonces' : m \in Nonce /\ m.id <= issued' /\ (~m.used => tried'[m.id] = 0)
      BY <1>1, <1>3, <1>5, <1>6, <1>n, <2>1, <3>1, <3>2 DEF SignInInv, Nonce, NonceIds
    <3>4. \A m, k \in Nonces' : m.id = k.id => m = k
      BY <1>1, <1>3, <1>5, <1>6, <1>n, <3>1 DEF SignInInv, Nonce, NonceIds
    <3>5. \A i \in NonceIds : tried'[i] = 1 => i <= issued'
      BY <1>1, <2>1, <1>3 DEF SignInInv, NonceIds
    <3> QED BY <1>1, <1>6, <2>1, <2>2, <3>1, <3>3, <3>4, <3>5 DEF SignInInv
  <2>3. CASE files'["siwe"] = files["siwe"]
    BY <1>1, <2>1, <2>3, SignInThinned DEF SignInInv
  <2>4. CASE files'["siwe"] = EmptyFile("siwe")
    <3> DEFINE e == [nonces |-> {}, sessions |-> {}]
    <3>1. e = [nonces |-> e.nonces, sessions |-> e.sessions] /\ e.nonces \subseteq Nonces /\ e.sessions \subseteq Sessions
      OBVIOUS
    <3>2. files'["siwe"] = e
      BY <2>4, EmptySiwe
    <3> HIDE DEF e
    <3> QED BY <1>1, <2>1, <3>1, <3>2, SignInThinned
  <2> QED BY <1>7, <2>2, <2>3, <2>4
<1>9. files'["agents"] = files["agents"] /\ files'["idem"] = files["idem"] /\ files'["hooks"] = files["hooks"]
  BY <1>7 DEF Files
<1>10. RegistryInv'
  BY <1>1, <1>3, <1>9, RegistryFrame
<1>11. KeysInv'
  BY <1>1, <1>3, <1>9, KeysFrame
<1>12. HooksInv'
  BY <1>1, <1>7, <1>9, HooksFrame
<1> QED BY <1>7, <1>8, <1>10, <1>11, <1>12 DEF ApiInv

\* The invariant with the nonce id tried: its session, if one is opened, is the only one.
LEMMA SignInTried ==
  ASSUME SignInInv, NEW n \in Nonces, ~n.used, NEW m, m = [n EXCEPT !.used = TRUE], NEW x,
         x = [nonces |-> x.nonces, sessions |-> x.sessions],
         x.nonces \subseteq (Nonces \ {n}) \cup {m},
         NEW s \in Session, s.nonce = n.id, x.sessions \subseteq Sessions \cup {s},
         files'["siwe"] = x, tried' = [tried EXCEPT ![n.id] = @ + 1], UNCHANGED <<now, issued>>
  PROVE  SignInInv'
<1>1. Nonces' = x.nonces /\ Sessions' = x.sessions
  BY DEF Nonces, Sessions
<1>2. n \in Nonce /\ m \in Nonce /\ m.id = n.id /\ m.used = TRUE /\ n.id \in NonceIds
  BY DEF SignInInv, Nonce
<1>3. tried[n.id] = 0 /\ n.id <= issued
  BY DEF SignInInv
<1>4. tried' \in [NonceIds -> {0, 1}] /\ tried'[n.id] = 1 /\ \A i \in NonceIds : i # n.id => tried'[i] = tried[i]
  BY <1>2, <1>3 DEF SignInInv
<1>5. \A k \in Nonces' : k \in Nonce /\ k.id <= issued' /\ (~k.used => tried'[k.id] = 0)
  <2> TAKE k \in Nonces'
  <2>1. CASE k = m
    BY <1>2, <1>3, <2>1
  <2>2. CASE k \in Nonces /\ k # n
    <3>1. k.id # n.id /\ k.id \in NonceIds
      BY <2>2 DEF SignInInv, Nonce
    <3> QED BY <1>4, <2>2, <3>1 DEF SignInInv
  <2> QED BY <1>1, <2>1, <2>2
<1>6. \A j, k \in Nonces' : j.id = k.id => j = k
  <2> TAKE j, k \in Nonces'
  <2>1. (j = m \/ (j \in Nonces /\ j # n)) /\ (k = m \/ (k \in Nonces /\ k # n))
    BY <1>1
  <2>2. \A k1, k2 \in Nonces : k1.id = k2.id => k1 = k2
    BY DEF SignInInv
  <2> QED BY <1>2, <2>1, <2>2
<1>7. \A i \in NonceIds : tried'[i] = 1 => i <= issued'
  BY <1>3, <1>4 DEF SignInInv
<1>8. \A t \in Sessions : t \in Session /\ t.nonce # n.id /\ tried'[t.nonce] = 1
  <2> TAKE t \in Sessions
  <2>1. t \in Session /\ tried[t.nonce] = 1
    BY DEF SignInInv
  <2> QED BY <1>3, <1>4, <2>1 DEF Session
<1>9. Sessions' \subseteq Session /\ \A t, u \in Sessions' : tried'[t.nonce] = 1 /\ (t.nonce = u.nonce => t = u)
  BY <1>1, <1>4, <1>8 DEF SignInInv
<1> QED BY <1>1, <1>4, <1>5, <1>6, <1>7, <1>9 DEF SignInInv

\* Verifying a signature.
LEMMA VerifyInv ==
  ASSUME ApiInv, NEW w \in Wallets, NEW id \in NonceIds, NEW names \in BOOLEAN, NEW signed \in BOOLEAN,
         Verify(w, id, names, signed), strict \in BOOLEAN
  PROVE  ApiInv'
<1> USE ApiConstants
<1>1. Stores /\ SignInInv /\ RegistryInv /\ KeysInv /\ HooksInv
  BY DEF ApiInv
<1>2. PICK n \in Nonces :
        LET consumed == [nonces |-> (Nonces \ {n}) \cup {[n EXCEPT !.used = TRUE]}, sessions |-> Sessions]
            s == [nonce |-> id, wallet |-> w, exp |-> now + SessionTtl,
                  verified |-> names /\ (strict => signed)]
            withSession == Alive([consumed EXCEPT !.sessions = @ \cup {s}])
            opens == ~strict \/ (names /\ signed)
            ws == IF opens THEN <<<<"siwe", consumed>>, <<"siwe", withSession>>>>
                  ELSE <<<<"siwe", consumed>>>>
        IN /\ up /\ Usable(n, w, id)
           /\ \/ Ends(ws) /\ tried' = [tried EXCEPT ![id] = @ + 1]
              \/ \E done \in 0..Len(ws), torn \in BOOLEAN :
                    /\ Dies(ws, done, torn)
                    /\ tried' = IF done > 0 THEN [tried EXCEPT ![id] = @ + 1] ELSE tried
           /\ UNCHANGED <<now, strict, issued, applied, forgot, changes>>
  BY DEF Verify
<1> DEFINE m == [n EXCEPT !.used = TRUE]
           s == [nonce |-> id, wallet |-> w, exp |-> now + SessionTtl,
                 verified |-> names /\ (strict => signed)]
           x == [nonces |-> (Nonces \ {n}) \cup {m}, sessions |-> Sessions]
           y == Alive([x EXCEPT !.sessions = @ \cup {s}])
           one == <<<<"siwe", x>>>>
           two == <<<<"siwe", x>>, <<"siwe", y>>>>
           took == [tried EXCEPT ![id] = @ + 1]
<1>3. n.id = id /\ ~n.used /\ UNCHANGED <<now, issued, applied, forgot>>
  BY <1>2 DEF Usable
<1>4. "siwe" \in Files
  BY DEF Files
<1>5. \/ Ends(one) /\ tried' = took
      \/ Ends(two) /\ tried' = took
      \/ \E done \in 0..1, torn \in BOOLEAN :
            Dies(one, done, torn) /\ tried' = IF done > 0 THEN took ELSE tried
      \/ \E done \in 0..2, torn \in BOOLEAN :
            Dies(two, done, torn) /\ tried' = IF done > 0 THEN took ELSE tried
  BY <1>2
<1>6. s \in Session /\ s.nonce = n.id
  <2>1. (names /\ (strict => signed)) \in BOOLEAN
    OBVIOUS
  <2>2. now + SessionTtl \in Nat
    BY <1>1 DEF SignInInv
  <2> QED BY <1>3, <2>1, <2>2 DEF Session
<1>7. x = [nonces |-> x.nonces, sessions |-> x.sessions]
      /\ x.nonces \subseteq (Nonces \ {n}) \cup {m} /\ x.sessions \subseteq Sessions \cup {s}
  OBVIOUS
<1>8. y = [nonces |-> y.nonces, sessions |-> y.sessions]
      /\ y.nonces \subseteq (Nonces \ {n}) \cup {m} /\ y.sessions \subseteq Sessions \cup {s}
  BY DEF Alive
<1> DEFINE e == [nonces |-> {}, sessions |-> {}]
<1>9. e = [nonces |-> e.nonces, sessions |-> e.sessions] /\ e.nonces = {} /\ e.sessions = {} /\ EmptyFile("siwe") = e
  BY EmptySiwe
<1>m. m = [n EXCEPT !.used = TRUE]
  OBVIOUS
<1> HIDE DEF m, s, x, y, e
<1> DEFINE Outcome ==
       /\ \/ tried' = took /\ files'["siwe"] \in {x, y, e}
          \/ tried' = tried /\ files'["siwe"] \in {files["siwe"], e}
       /\ Stores' /\ (\A g \in Files : g # "siwe" => files'[g] = files[g])
       /\ UNCHANGED <<up, engine>> \/ Stopped
<1>10. Outcome
  <2> HIDE DEF took
  <2>1. \A z : /\ DOMAIN With("siwe", z) = Files /\ With("siwe", z) = [g \in Files |-> With("siwe", z)[g]]
               /\ With("siwe", z)["siwe"] = z
               /\ \A g \in Files : g # "siwe" => With("siwe", z)[g] = files[g]
    BY <1>1, <1>4 DEF With, Stores
  <2>2. \A z, v : [With("siwe", z) EXCEPT !["siwe"] = v] = With("siwe", v)
    BY <1>1, <1>4 DEF With, Stores
  <2> HIDE DEF one, two
  <2>3. CASE Ends(one) /\ tried' = took
    <3>1. files' = With("siwe", x) /\ UNCHANGED <<up, engine>>
      BY <1>1, <1>4, <2>3, EndsOne DEF one
    <3> QED BY <2>1, <2>3, <3>1 DEF Stores
  <2>4. CASE Ends(two) /\ tried' = took
    <3>1. files' = [With("siwe", x) EXCEPT !["siwe"] = y] /\ UNCHANGED <<up, engine>>
      BY <1>1, <1>4, <2>4, EndsTwo DEF two
    <3> QED BY <2>1, <2>2, <2>4, <3>1 DEF Stores
  <2>5. ASSUME NEW done \in 0..1, NEW torn \in BOOLEAN, Dies(one, done, torn),
               tried' = IF done > 0 THEN took ELSE tried
        PROVE  Outcome
    <3>1. Len(one) = 1 /\ one[1] = <<"siwe", x>>
      BY DEF one
    <3>2. Written(one, 0) = files /\ Written(one, 1) = With("siwe", x)
      BY <1>1, <1>4, <3>1, WrittenNone, WrittenOne
    <3>3. CASE done = 0
      <4>1. one[done + 1][1] = "siwe"
        BY <3>1, <3>3
      <4>2. Stopped /\ (files' = files \/ files' = With("siwe", EmptyFile("siwe")))
        BY <2>5, <3>1, <3>2, <3>3, <4>1 DEF Dies, Stopped, With
      <4> QED BY <1>1, <1>9, <2>1, <2>5, <3>3, <4>2 DEF Stores
    <3>4. CASE done = 1
      <4>1. Stopped /\ files' = With("siwe", x)
        BY <2>5, <3>1, <3>2, <3>4 DEF Dies, Stopped
      <4> QED BY <2>1, <2>5, <3>4, <4>1 DEF Stores
    <3> QED BY <3>3, <3>4
  <2>6. ASSUME NEW done \in 0..2, NEW torn \in BOOLEAN, Dies(two, done, torn),
               tried' = IF done > 0 THEN took ELSE tried
        PROVE  Outcome
    <3>1. /\ Stopped
          /\ done = 0 => files' = files \/ files' = With("siwe", EmptyFile("siwe"))
          /\ done = 1 => files' = With("siwe", x) \/ files' = [With("siwe", x) EXCEPT !["siwe"] = EmptyFile("siwe")]
          /\ done = 2 => files' = [With("siwe", x) EXCEPT !["siwe"] = y]
      <4>1. Dies(<<<<"siwe", x>>, <<"siwe", y>>>>, done, torn)
        BY <2>6 DEF two
      <4> QED BY <1>1, <1>4, <4>1, DiesOfTwo
    <3>2. CASE done = 0
      BY <1>1, <1>9, <2>1, <2>6, <3>1, <3>2 DEF Stores
    <3>3. CASE done = 1
      BY <1>9, <2>1, <2>2, <2>6, <3>1, <3>3 DEF Stores
    <3>4. CASE done = 2
      BY <2>1, <2>2, <2>6, <3>1, <3>4 DEF Stores
    <3> QED BY <3>2, <3>3, <3>4
  <2> QED BY <1>5, <2>3, <2>4, <2>5, <2>6 DEF one, two
<1>11. SignInInv'
  <2>1. now' \in Nat /\ issued' \in 0..MaxNonces /\ issued' >= issued
    BY <1>1, <1>3 DEF SignInInv
  <2>2. CASE tried' = took /\ files'["siwe"] = x
    BY <1>1, <1>3, <1>6, <1>7, <1>m, <2>2, SignInTried
  <2>3. CASE tried' = took /\ files'["siwe"] = y
    BY <1>1, <1>3, <1>6, <1>8, <1>m, <2>3, SignInTried
  <2>4. CASE tried' = took /\ files'["siwe"] = e
    BY <1>1, <1>3, <1>6, <1>9, <1>m, <2>4, SignInTried
  <2>5. CASE tried' = tried /\ files'["siwe"] = files["siwe"]
    BY <1>1, <1>3, <2>1, <2>5, SignInFrame
  <2>6. CASE tried' = tried /\ files'["siwe"] = e
    BY <1>1, <1>9, <2>1, <2>6, SignInThinned
  <2> QED BY <1>10, <2>2, <2>3, <2>4, <2>5, <2>6
<1>12. files'["agents"] = files["agents"] /\ files'["idem"] = files["idem"] /\ files'["hooks"] = files["hooks"]
  BY <1>10 DEF Files
<1>13. \A i \in NonceIds : tried'[i] = 0 => tried[i] = 0
  BY <1>1, <1>10 DEF SignInInv
<1> QED
  BY <1>1, <1>3, <1>10, <1>11, <1>12, <1>13, RegistryFrame, KeysFrame, HooksFrame DEF ApiInv

-----------------------------------------------------------------------------
(* The registry. *)

\* Someone has signed in: a session is there, and with it a nonce that was tried.
LEMMA SessionTried ==
  ASSUME SignInInv, NEW s \in Sessions PROVE ~ \A i \in NonceIds : tried[i] = 0
BY DEF SignInInv, Session

\* A write of the registry by a session, keyed or not.
LEMMA RegistryWritten ==
  ASSUME SignInInv, NEW s \in Sessions, tried' = tried,
         files'["agents"] = [a \in Ids |-> files'["agents"][a]]
  PROVE  RegistryInv'
BY SessionTried DEF RegistryInv

\* Every table of the registry, also an empty one, is a function on the ids.
LEMMA AgentsTable ==
  ASSUME RegistryInv, NEW a \in Ids, NEW r, NEW x,
         x \in {[files["agents"] EXCEPT ![a] = r], files["agents"], EmptyFile("agents")}
  PROVE  x = [b \in Ids |-> x[b]]
<1>1. CASE x = [files["agents"] EXCEPT ![a] = r]
  BY <1>1 DEF RegistryInv
<1>2. CASE x = files["agents"]
  BY <1>2 DEF RegistryInv
<1>3. CASE x = EmptyFile("agents")
  BY <1>3 DEF EmptyFile
<1> QED BY <1>1, <1>2, <1>3

\* A handler that rewrites one row of the registry and nothing else.
LEMMA AgentsOnlyInv ==
  ASSUME ApiInv, NEW s \in Sessions, NEW a \in Ids, NEW r,
         NEW x, x = [files["agents"] EXCEPT ![a] = r],
         Ends(<<<<"agents", x>>>>) \/ DiesIn(<<<<"agents", x>>>>),
         UNCHANGED <<now, strict, issued, tried, applied, forgot>>
  PROVE  ApiInv'
<1>1. Stores /\ SignInInv /\ RegistryInv /\ KeysInv /\ HooksInv
  BY DEF ApiInv
<1>2. "agents" \in Files
  BY DEF Files
<1>3. /\ Stores' /\ (\A g \in Files : g # "agents" => files'[g] = files[g])
      /\ files'["agents"] \in {x, files["agents"], EmptyFile("agents")}
      /\ UNCHANGED <<up, engine>> \/ Stopped
  BY <1>1, <1>2, OneFile
<1>4. files'["agents"] = [b \in Ids |-> files'["agents"][b]]
  BY <1>1, <1>3, AgentsTable
<1>5. files'["siwe"] = files["siwe"] /\ files'["idem"] = files["idem"] /\ files'["hooks"] = files["hooks"]
  BY <1>3 DEF Files
<1>6. SignInInv'
  BY <1>1, <1>5, SignInFrame DEF SignInInv
<1>7. RegistryInv'
  BY <1>1, <1>4, RegistryWritten
<1> QED
  BY <1>1, <1>3, <1>5, <1>6, <1>7, KeysFrame, HooksFrame DEF ApiInv

\* An upsert without a key.
LEMMA UpsertPlainInv ==
  ASSUME ApiInv, NEW s, NEW a \in Ids, NEW enabled \in BOOLEAN, UpsertPlain(s, a, enabled)
  PROVE  ApiInv'
<1> DEFINE r == [owner |-> s.wallet, enabled |-> enabled]
           x == [files["agents"] EXCEPT ![a] = r]
<1>1. /\ s \in Sessions /\ (Ends(<<<<"agents", x>>>>) \/ DiesIn(<<<<"agents", x>>>>))
      /\ UNCHANGED <<now, strict, issued, tried, applied, forgot>>
  BY DEF UpsertPlain
<1>2. x = [files["agents"] EXCEPT ![a] = r]
  OBVIOUS
<1> HIDE DEF r, x
<1> QED BY <1>1, <1>2, AgentsOnlyInv

\* Switching an agent on or off.
LEMMA SetEnabledInv ==
  ASSUME ApiInv, NEW s, NEW a \in Ids, NEW enabled \in BOOLEAN, SetEnabled(s, a, enabled)
  PROVE  ApiInv'
<1> DEFINE r == [files["agents"][a] EXCEPT !.enabled = enabled]
           x == [files["agents"] EXCEPT ![a].enabled = enabled]
<1>1. /\ s \in Sessions /\ (Ends(<<<<"agents", x>>>>) \/ DiesIn(<<<<"agents", x>>>>))
      /\ UNCHANGED <<now, strict, issued, tried, applied, forgot>>
  BY DEF SetEnabled, Owns
<1>2. x = [files["agents"] EXCEPT ![a] = r]
  OBVIOUS
<1> HIDE DEF r, x
<1> QED BY <1>1, <1>2, AgentsOnlyInv

\* Removing an agent.
LEMMA RemoveAgentInv ==
  ASSUME ApiInv, NEW s, NEW a \in Ids, RemoveAgent(s, a)
  PROVE  ApiInv'
<1> DEFINE x == [files["agents"] EXCEPT ![a] = NoRow]
<1>1. /\ s \in Sessions /\ (Ends(<<<<"agents", x>>>>) \/ DiesIn(<<<<"agents", x>>>>))
      /\ UNCHANGED <<now, strict, issued, tried, applied, forgot>>
  BY DEF RemoveAgent, Owns
<1>2. x = [files["agents"] EXCEPT ![a] = NoRow]
  OBVIOUS
<1> HIDE DEF x
<1> QED BY <1>1, <1>2, AgentsOnlyInv

\* A keyed POST: the registry, then the key's record; between the two a key works without one.
LEMMA UpsertInv ==
  ASSUME ApiInv, NEW s, NEW a \in Ids, NEW enabled \in BOOLEAN, NEW k \in Keys, Upsert(s, a, enabled, k)
  PROVE  ApiInv' /\ (\A j \in Keys : applied'[j] > applied[j] /\ applied[j] > 0 => j \in forgot)
<1> DEFINE hash == <<a, s.wallet, enabled>>
           x == [files["agents"] EXCEPT ![a] = [owner |-> s.wallet, enabled |-> enabled]]
           y == Remembered(k, hash)
           took == [applied EXCEPT ![k] = @ + 1]
           losing(idem) == (KeysOf(files["idem"]) \cup {k}) \ KeysOf(idem)
           two == <<<<"agents", x>>, <<"idem", y>>>>
<1>1. Stores /\ SignInInv /\ RegistryInv /\ KeysInv /\ HooksInv
  BY DEF ApiInv
<1>2. s \in Sessions /\ ~Known(k, hash) /\ UNCHANGED <<now, strict, issued, tried>>
  BY DEF Upsert
<1>3. \/ Ends(two) /\ applied' = took /\ forgot' = (forgot \ {k}) \cup losing(y)
      \/ \E done \in 0..2, torn \in BOOLEAN :
            /\ Dies(two, done, torn)
            /\ applied' = IF done > 0 THEN took ELSE applied
            /\ forgot' = IF done = 0 THEN forgot ELSE forgot \cup losing(files'["idem"])
  BY DEF Upsert
<1>4. "agents" \in Files /\ "idem" \in Files /\ "siwe" \in Files /\ "hooks" \in Files
  BY DEF Files
<1>5. k \notin KeysOf(files["idem"])
  BY <1>2 DEF Known, KeysOf
<1>6. \A j \in Keys : applied'[j] > applied[j] /\ applied[j] > 0 => j \in forgot
  <2> SUFFICES ASSUME NEW j \in Keys, applied'[j] > applied[j], applied[j] > 0 PROVE j \in forgot
    OBVIOUS
  <2>1. applied' = took \/ applied' = applied
    BY <1>3
  <2>2. applied[j] \in Nat
    BY <1>1 DEF KeysInv
  <2>3. j = k
    BY <1>1, <2>1, <2>2 DEF KeysInv
  <2> QED BY <1>1, <1>5, <2>3 DEF KeysInv
<1>7. /\ Stores' /\ files'["siwe"] = files["siwe"] /\ files'["hooks"] = files["hooks"]
      /\ files'["agents"] \in {x, files["agents"], EmptyFile("agents")}
      /\ UNCHANGED <<up, engine>> \/ Stopped
      /\ \/ applied' = took /\ forgot' = (forgot \ {k}) \cup losing(files'["idem"])
         \/ applied' = took /\ forgot' = forgot \cup losing(files'["idem"])
         \/ applied' = applied /\ forgot' = forgot /\ files'["idem"] = files["idem"]
  <2> DEFINE Outcome ==
      /\ Stores' /\ files'["siwe"] = files["siwe"] /\ files'["hooks"] = files["hooks"]
      /\ files'["agents"] \in {x, files["agents"], EmptyFile("agents")}
      /\ UNCHANGED <<up, engine>> \/ Stopped
      /\ \/ applied' = took /\ forgot' = (forgot \ {k}) \cup losing(files'["idem"])
         \/ applied' = took /\ forgot' = forgot \cup losing(files'["idem"])
         \/ applied' = applied /\ forgot' = forgot /\ files'["idem"] = files["idem"]
  <2> HIDE DEF x, y, took, losing
  <2>1. \A z : /\ With("agents", z) = [g \in Files |-> With("agents", z)[g]]
               /\ With("agents", z)["agents"] = z
               /\ \A g \in Files : g # "agents" => With("agents", z)[g] = files[g]
    BY <1>1, <1>4 DEF With, Stores
  <2>2. \A z, v : LET w == [With("agents", z) EXCEPT !["idem"] = v]
                  IN  /\ w = [g \in Files |-> w[g]] /\ w["agents"] = z /\ w["idem"] = v
                      /\ w["siwe"] = files["siwe"] /\ w["hooks"] = files["hooks"]
    BY <1>1, <1>4 DEF With, Stores
  <2>3. CASE Ends(two) /\ applied' = took /\ forgot' = (forgot \ {k}) \cup losing(y)
    <3>1. files' = [With("agents", x) EXCEPT !["idem"] = y] /\ UNCHANGED <<up, engine>>
      BY <1>1, <1>4, <2>3, EndsTwo
    <3> QED BY <2>2, <2>3, <3>1 DEF Stores
  <2>4. ASSUME NEW done \in 0..2, NEW torn \in BOOLEAN, Dies(two, done, torn),
               applied' = IF done > 0 THEN took ELSE applied,
               forgot' = IF done = 0 THEN forgot ELSE forgot \cup losing(files'["idem"])
        PROVE  Outcome
    <3>1. /\ Stopped
          /\ done = 0 => files' = files \/ files' = With("agents", EmptyFile("agents"))
          /\ done = 1 => files' = With("agents", x) \/ files' = [With("agents", x) EXCEPT !["idem"] = EmptyFile("idem")]
          /\ done = 2 => files' = [With("agents", x) EXCEPT !["idem"] = y]
      BY <1>1, <1>4, <2>4, DiesOfTwo
    <3>2. CASE done = 0
      BY <1>1, <1>4, <2>1, <2>4, <3>1, <3>2 DEF Stores
    <3>3. CASE done = 1
      BY <1>4, <2>1, <2>2, <2>4, <3>1, <3>3 DEF Stores
    <3>4. CASE done = 2
      <4>1. Stopped /\ files' = [With("agents", x) EXCEPT !["idem"] = y]
        BY <3>1, <3>4
      <4>2. /\ files' = [g \in Files |-> files'[g]] /\ files'["agents"] = x
            /\ files'["siwe"] = files["siwe"] /\ files'["hooks"] = files["hooks"]
        BY <2>2, <4>1
      <4>3. applied' = took /\ forgot' = forgot \cup losing(files'["idem"])
        BY <2>4, <3>4
      <4> QED BY <4>1, <4>2, <4>3 DEF Stores
    <3> QED BY <3>2, <3>3, <3>4
  <2>5. Outcome
    BY <1>3, <2>3, <2>4
  <2> QED BY <2>5
<1>8. SignInInv'
  BY <1>1, <1>2, <1>7, SignInFrame DEF SignInInv
<1>9. RegistryInv'
  <2>1. files'["agents"] = [b \in Ids |-> files'["agents"][b]]
    <3> DEFINE row == [owner |-> s.wallet, enabled |-> enabled]
    <3>1. files'["agents"] \in {[files["agents"] EXCEPT ![a] = row], files["agents"], EmptyFile("agents")}
      BY <1>7
    <3> HIDE DEF row
    <3> QED BY <1>1, <3>1, AgentsTable
  <2> QED BY <1>1, <1>2, <2>1, RegistryWritten
<1>10. KeysInv'
  <2>1. took \in [Keys -> Nat] /\ applied' \in [Keys -> Nat]
    BY <1>1, <1>7 DEF KeysInv
  <2>2. ASSUME NEW j \in Keys, applied'[j] > 0 PROVE j \in forgot' \/ j \in KeysOf(files'["idem"])
    <3>1. j = k \/ applied[j] > 0
      BY <1>1, <1>7, <2>2 DEF KeysInv
    <3>2. CASE \/ forgot' = (forgot \ {k}) \cup losing(files'["idem"])
               \/ forgot' = forgot \cup losing(files'["idem"])
      <4>1. forgot \ {k} \subseteq forgot' /\ losing(files'["idem"]) \subseteq forgot'
        BY <3>2
      <4>2. j = k \/ j \in forgot \ {k} \/ j \in KeysOf(files["idem"])
        BY <1>1, <3>1 DEF KeysInv
      <4> QED BY <4>1, <4>2
    <3>3. CASE applied' = applied /\ forgot' = forgot /\ files'["idem"] = files["idem"]
      BY <1>1, <2>2, <3>3 DEF KeysInv
    <3> QED BY <1>7, <3>2, <3>3
  <2> QED BY <2>1, <2>2 DEF KeysInv
<1>11. HooksInv'
  BY <1>1, <1>7, HooksFrame
<1> QED
  BY <1>6, <1>7, <1>8, <1>9, <1>10, <1>11 DEF ApiInv

-----------------------------------------------------------------------------
(* Webhook registrations. *)

\* The agents of a wallet are finitely many.
LEMMA OwnedFinite ==
  \A w : IsFiniteSet(OwnedBy(w)) /\ Cardinality(OwnedBy(w)) \in Nat
<1>1. IsFiniteSet(Ids)
  BY ApiConstants
<1>2. \A w : OwnedBy(w) \in SUBSET Ids
  BY DEF OwnedBy
<1> QED BY <1>1, <1>2, FS_Subset, FS_CardinalityType

\* A hook's handler touches nothing but its file and the engine.
LEMMA HookOthers ==
  ASSUME ApiInv, Stores', \A g \in Files : g # "hooks" => files'[g] = files[g],
         UNCHANGED <<now, strict, issued, tried, applied, forgot>>
  PROVE  SignInInv' /\ RegistryInv' /\ KeysInv'
<1>1. files'["siwe"] = files["siwe"] /\ files'["agents"] = files["agents"] /\ files'["idem"] = files["idem"]
  BY DEF Files
<1>2. SignInInv /\ RegistryInv /\ KeysInv
  BY DEF ApiInv
<1> QED BY <1>1, <1>2, SignInFrame, RegistryFrame, KeysFrame DEF SignInInv

\* A torn file has no registrations; the process is down.
LEMMA HooksLost ==
  ASSUME HooksInv, files'["hooks"] = EmptyFile("hooks"), Stopped
  PROVE  HooksInv'
<1> USE ApiConstants
<1>1. files'["hooks"] = [a \in Ids |-> None]
  BY DEF EmptyFile
<1>2. \A w \in Wallets : (OwnedBy(w))' = {}
  BY <1>1 DEF OwnedBy
<1>3. \A w \in Wallets : (Cardinality(OwnedBy(w)))' <= MaxAgentsPerWallet
  BY <1>2, FS_EmptySet
<1> QED BY <1>1, <1>3 DEF HooksInv, FileMatchesEngine, Stopped

\* Registering a webhook.
LEMMA HookInv ==
  ASSUME ApiInv, NEW a \in Ids, NEW w \in Wallets \cup {Anonymous}, Hook(a, w)
  PROVE  ApiInv'
<1> USE ApiConstants
<1> DEFINE x == [files["hooks"] EXCEPT ![a] = w]
           one == <<<<"hooks", x>>>>
<1>1. Stores /\ SignInInv /\ RegistryInv /\ KeysInv /\ HooksInv
  BY DEF ApiInv
<1>2. /\ MayHook(a, w) /\ UNCHANGED <<now, strict, issued, tried, applied, forgot>>
      /\ \/ files' = Written(one, 1) /\ engine' = [engine EXCEPT ![a] = "hook"] /\ UNCHANGED <<up, deaths>>
         \/ DiesIn(one)
  BY DEF Hook
<1>3. "hooks" \in Files /\ Len(one) \in Nat /\ one[1] = <<"hooks", x>>
  BY DEF Files
<1>4. With("hooks", x) = [g \in Files |-> With("hooks", x)[g]] /\ With("hooks", x)["hooks"] = x
      /\ \A g \in Files : g # "hooks" => With("hooks", x)[g] = files[g]
  BY <1>1, <1>3 DEF With, Stores
<1>5. Stores' /\ (\A g \in Files : g # "hooks" => files'[g] = files[g])
      /\ \/ files'["hooks"] = x /\ ((engine' = [engine EXCEPT ![a] = "hook"] /\ up' = up) \/ Stopped)
         \/ files'["hooks"] = files["hooks"] /\ Stopped
         \/ files'["hooks"] = EmptyFile("hooks") /\ Stopped
  <2> HIDE DEF x
  <2>1. CASE files' = Written(one, 1) /\ engine' = [engine EXCEPT ![a] = "hook"] /\ up' = up
    <3>1. files' = With("hooks", x)
      BY <1>1, <1>3, <2>1, WrittenOne
    <3> QED BY <1>4, <2>1, <3>1 DEF Stores
  <2>2. CASE DiesIn(one)
    <3>1. Stopped /\ (files' = files \/ files' = With("hooks", x) \/ files' = With("hooks", EmptyFile("hooks")))
      BY <1>1, <1>3, <2>2, DiesInOne
    <3> QED BY <1>1, <1>3, <1>4, <3>1 DEF Stores, With
  <2> QED BY <1>2, <2>1, <2>2
<1>6. HooksInv'
  <2>1. CASE files'["hooks"] = x /\ ((engine' = [engine EXCEPT ![a] = "hook"] /\ up' = up) \/ Stopped)
    <3>1. x \in [Ids -> Wallets \cup {Anonymous, None}] /\ engine' = [b \in Ids |-> engine'[b]]
      BY <1>1, <2>1 DEF HooksInv, Stopped
    <3>2. ASSUME NEW v \in Wallets
          PROVE  (OwnedBy(v))' = IF v = w THEN OwnedBy(v) \cup {a} ELSE OwnedBy(v)
      <4>1. files["hooks"][a] = None /\ w # None /\ v # None
        BY <1>2 DEF MayHook, Hooked
      <4>2. (OwnedBy(v))' = {b \in Ids : x[b] = v}
        BY <2>1 DEF OwnedBy
      <4>3. \A b \in Ids : x[b] = v <=> (IF b = a THEN v = w ELSE files["hooks"][b] = v)
        BY <1>1 DEF HooksInv
      <4>4. a \notin OwnedBy(v)
        BY <4>1 DEF OwnedBy
      <4> HIDE DEF x
      <4>5. CASE v = w
        BY <4>2, <4>3, <4>4, <4>5 DEF OwnedBy
      <4>6. CASE v # w
        BY <4>1, <4>2, <4>3, <4>6 DEF OwnedBy
      <4> QED BY <4>5, <4>6
    <3>3. ASSUME NEW v \in Wallets PROVE (Cardinality(OwnedBy(v)))' <= MaxAgentsPerWallet
      <4>1. CASE v = w
        <5>1. Cardinality(OwnedBy(v)) < MaxAgentsPerWallet
          BY <1>2, <4>1 DEF MayHook
        <5>2. IsFiniteSet(OwnedBy(v)) /\ Cardinality(OwnedBy(v)) \in Nat
          BY OwnedFinite
        <5>3. Cardinality(OwnedBy(v) \cup {a}) = IF a \in OwnedBy(v) THEN Cardinality(OwnedBy(v))
                                                 ELSE Cardinality(OwnedBy(v)) + 1
          BY <5>2, FS_AddElement
        <5>4. Cardinality(OwnedBy(v) \cup {a}) <= MaxAgentsPerWallet
          BY <5>1, <5>2, <5>3
        <5>5. (OwnedBy(v))' = OwnedBy(v) \cup {a}
          BY <3>2, <4>1
        <5> QED BY <5>4, <5>5
      <4>2. CASE v # w
        <5>1. (OwnedBy(v))' = OwnedBy(v)
          BY <3>2, <4>2
        <5> QED BY <1>1, <5>1 DEF HooksInv, FileMatchesEngine
      <4> QED BY <4>1, <4>2
    <3>4. up' => \A b \in Ids : engine'[b] = "hook" <=> (Hooked(b))'
      BY <1>1, <2>1 DEF HooksInv, FileMatchesEngine, Hooked, Stopped
    <3> QED BY <2>1, <3>1, <3>3, <3>4 DEF HooksInv, FileMatchesEngine
  <2>2. CASE files'["hooks"] = files["hooks"] /\ Stopped
    BY <1>1, <2>2, HooksFrame
  <2>3. CASE files'["hooks"] = EmptyFile("hooks") /\ Stopped
    BY <1>1, <2>3, HooksLost
  <2> QED BY <1>5, <2>1, <2>2, <2>3
<1> QED
  BY <1>2, <1>5, <1>6, HookOthers DEF ApiInv
\* Removing a webhook.
LEMMA UnhookInv ==
  ASSUME ApiInv, NEW a \in Ids, Unhook(a)
  PROVE  ApiInv'
<1> USE ApiConstants
<1> DEFINE x == [files["hooks"] EXCEPT ![a] = None]
           one == <<<<"hooks", x>>>>
<1>1. Stores /\ SignInInv /\ RegistryInv /\ KeysInv /\ HooksInv
  BY DEF ApiInv
<1>2. /\ UNCHANGED <<now, strict, issued, tried, applied, forgot>>
      /\ \/ files' = Written(one, 1) /\ engine' = [engine EXCEPT ![a] = None] /\ UNCHANGED <<up, deaths>>
         \/ DiesIn(one)
  BY DEF Unhook
<1>3. "hooks" \in Files /\ Len(one) \in Nat /\ one[1] = <<"hooks", x>>
  BY DEF Files
<1>4. With("hooks", x) = [g \in Files |-> With("hooks", x)[g]] /\ With("hooks", x)["hooks"] = x
      /\ \A g \in Files : g # "hooks" => With("hooks", x)[g] = files[g]
  BY <1>1, <1>3 DEF With, Stores
<1>5. Stores' /\ (\A g \in Files : g # "hooks" => files'[g] = files[g])
      /\ \/ files'["hooks"] = x /\ ((engine' = [engine EXCEPT ![a] = None] /\ up' = up) \/ Stopped)
         \/ files'["hooks"] = files["hooks"] /\ Stopped
         \/ files'["hooks"] = EmptyFile("hooks") /\ Stopped
  <2> HIDE DEF x
  <2>1. CASE files' = Written(one, 1) /\ engine' = [engine EXCEPT ![a] = None] /\ up' = up
    <3>1. files' = With("hooks", x)
      BY <1>1, <1>3, <2>1, WrittenOne
    <3> QED BY <1>4, <2>1, <3>1 DEF Stores
  <2>2. CASE DiesIn(one)
    <3>1. Stopped /\ (files' = files \/ files' = With("hooks", x) \/ files' = With("hooks", EmptyFile("hooks")))
      BY <1>1, <1>3, <2>2, DiesInOne
    <3> QED BY <1>1, <1>3, <1>4, <3>1 DEF Stores, With
  <2> QED BY <1>2, <2>1, <2>2
<1>6. HooksInv'
  <2>1. CASE files'["hooks"] = x /\ ((engine' = [engine EXCEPT ![a] = None] /\ up' = up) \/ Stopped)
    <3>1. x \in [Ids -> Wallets \cup {Anonymous, None}] /\ engine' = [b \in Ids |-> engine'[b]]
      BY <1>1, <2>1 DEF HooksInv, Stopped
    <3>2. ASSUME NEW v \in Wallets PROVE (OwnedBy(v))' \subseteq OwnedBy(v)
      <4>1. (OwnedBy(v))' = {b \in Ids : x[b] = v}
        BY <2>1 DEF OwnedBy
      <4>2. v # None
        OBVIOUS
      <4> QED BY <1>1, <4>1, <4>2 DEF HooksInv, OwnedBy
    <3>3. ASSUME NEW v \in Wallets PROVE (Cardinality(OwnedBy(v)))' <= MaxAgentsPerWallet
      <4> DEFINE o == OwnedBy(v) p == (OwnedBy(v))'
      <4>1. IsFiniteSet(o) /\ Cardinality(o) \in Nat /\ p \subseteq o
        BY <3>2, OwnedFinite
      <4>2. Cardinality(o) <= MaxAgentsPerWallet
        BY <1>1 DEF HooksInv, FileMatchesEngine
      <4> HIDE DEF o, p
      <4>3. IsFiniteSet(p) /\ Cardinality(p) <= Cardinality(o) /\ Cardinality(p) \in Nat
        BY <4>1, FS_Subset, FS_CardinalityType
      <4>4. Cardinality(p) <= MaxAgentsPerWallet
        BY <4>1, <4>2, <4>3
      <4> QED BY <4>4 DEF p
    <3>4. up' => \A b \in Ids : engine'[b] = "hook" <=> (Hooked(b))'
      BY <1>1, <2>1 DEF HooksInv, FileMatchesEngine, Hooked, Stopped, None
    <3> QED BY <2>1, <3>1, <3>3, <3>4 DEF HooksInv, FileMatchesEngine
  <2>2. CASE files'["hooks"] = files["hooks"] /\ Stopped
    BY <1>1, <2>2, HooksFrame
  <2>3. CASE files'["hooks"] = EmptyFile("hooks") /\ Stopped
    BY <1>1, <2>3, HooksLost
  <2> QED BY <1>5, <2>1, <2>2, <2>3
<1> QED
  BY <1>2, <1>5, <1>6, HookOthers DEF ApiInv

\* The engine starts with the registrations of the file.
LEMMA StartInv ==
  ASSUME ApiInv, NEW python \in BOOLEAN, Start(python)
  PROVE  ApiInv'
<1>1. Stores /\ SignInInv /\ RegistryInv /\ KeysInv /\ HooksInv
  BY DEF ApiInv
<1>2. engine' = Roster(python) /\ UNCHANGED <<now, strict, files, issued, tried, applied, forgot>>
  BY DEF Start
<1>3. \A a \in Ids : Configured(python, a) # "hook"
  BY DEF Configured, None
<1>4. \A a \in Ids : engine'[a] = "hook" <=> Hooked(a)
  BY <1>2, <1>3 DEF Roster
<1>5. HooksInv'
  BY <1>1, <1>2, <1>4 DEF HooksInv, FileMatchesEngine, OwnedBy, Hooked, Roster
<1> QED
  BY <1>1, <1>2, <1>5, SignInFrame, RegistryFrame, KeysFrame DEF ApiInv, Stores, SignInInv

\* Time passes.
LEMMA TickInv ==
  ASSUME ApiInv, Tick PROVE ApiInv'
<1>1. Stores /\ SignInInv /\ RegistryInv /\ KeysInv /\ HooksInv
  BY DEF ApiInv
<1>2. now' \in Nat /\ UNCHANGED <<files, up, engine, issued, tried, applied, forgot>>
  BY <1>1 DEF Tick, SignInInv
<1> QED
  BY <1>1, <1>2, SignInFrame, RegistryFrame, KeysFrame, HooksFrame DEF ApiInv, Stores

-----------------------------------------------------------------------------
(* Theorems. *)

\* Every step of the API keeps the invariant.
LEMMA ApiInvNext ==
  ASSUME ApiInv, strict \in BOOLEAN, Next
  PROVE  ApiInv' /\ (\A k \in Keys : applied'[k] > applied[k] /\ applied[k] > 0 => k \in forgot)
<1> DEFINE Once == \A k \in Keys : applied'[k] > applied[k] /\ applied[k] > 0 => k \in forgot
<1>1. applied \in [Keys -> Nat]
  BY DEF ApiInv, KeysInv
<1>2. applied' = applied => Once
  BY <1>1
<1> SUFFICES ApiInv' /\ Once
  OBVIOUS
<1> HIDE DEF Once
<1>3. CASE SignIn
  <2>1. ASSUME NEW w \in Wallets, IssueNonce(w) PROVE ApiInv' /\ Once
    BY <1>2, <2>1, IssueNonceInv DEF IssueNonce
  <2>2. ASSUME NEW w \in Wallets, NEW id \in NonceIds, NEW names \in BOOLEAN, NEW signed \in BOOLEAN,
               Verify(w, id, names, signed)
        PROVE  ApiInv' /\ Once
    <3>1. applied' = applied
      BY <2>2 DEF Verify
    <3> QED BY <1>2, <2>2, <3>1, VerifyInv
  <2> QED BY <1>3, <2>1, <2>2 DEF SignIn
<1>4. CASE RegistryStep
  <2> PICK s \in Sessions, a \in Ids :
        \/ \E enabled \in BOOLEAN :
             UpsertPlain(s, a, enabled) \/ SetEnabled(s, a, enabled) \/ \E k \in Keys : Upsert(s, a, enabled, k)
        \/ RemoveAgent(s, a)
    BY <1>4 DEF RegistryStep
  <2>1. ASSUME NEW enabled \in BOOLEAN, UpsertPlain(s, a, enabled) PROVE ApiInv' /\ Once
    BY <1>2, <2>1, UpsertPlainInv DEF UpsertPlain
  <2>2. ASSUME NEW enabled \in BOOLEAN, SetEnabled(s, a, enabled) PROVE ApiInv' /\ Once
    BY <1>2, <2>2, SetEnabledInv DEF SetEnabled
  <2>3. ASSUME NEW enabled \in BOOLEAN, NEW k \in Keys, Upsert(s, a, enabled, k) PROVE ApiInv' /\ Once
    BY <2>3, UpsertInv DEF Once
  <2>4. CASE RemoveAgent(s, a)
    BY <1>2, <2>4, RemoveAgentInv DEF RemoveAgent
  <2> QED BY <2>1, <2>2, <2>3, <2>4
<1>5. CASE HookStep
  <2>1. ASSUME NEW a \in Ids, Unhook(a) PROVE ApiInv' /\ Once
    BY <1>2, <2>1, UnhookInv DEF Unhook
  <2>2. ASSUME NEW a \in Ids, NEW w \in Wallets \cup {Anonymous}, Hook(a, w) PROVE ApiInv' /\ Once
    BY <1>2, <2>2, HookInv DEF Hook
  <2> QED BY <1>5, <2>1, <2>2 DEF HookStep
<1>6. CASE Tick
  BY <1>2, <1>6, TickInv DEF Tick
<1>7. ASSUME NEW python \in BOOLEAN, Start(python) PROVE ApiInv' /\ Once
  BY <1>2, <1>7, StartInv DEF Start
<1> QED
  BY <1>3, <1>4, <1>5, <1>6, <1>7 DEF Next

\* So does a step that changes nothing.
LEMMA ApiInvStutter == ApiInv /\ UNCHANGED vars => ApiInv'
<1> SUFFICES ASSUME Stores, SignInInv, RegistryInv, KeysInv, HooksInv, UNCHANGED vars PROVE ApiInv'
  BY DEF ApiInv
<1>1. UNCHANGED <<now, files, up, engine, issued, tried, applied, forgot>>
  BY DEF vars
<1>2. SignInInv'
  BY <1>1, SignInFrame DEF SignInInv
<1> QED
  BY <1>1, <1>2, RegistryFrame, KeysFrame, HooksFrame DEF ApiInv, Stores

\* A process reads its environment once.
LEMMA StrictStays == Next => strict' = strict
<1>1. ASSUME NEW w \in Wallets, IssueNonce(w) PROVE strict' = strict
  BY <1>1 DEF IssueNonce
<1>2. ASSUME NEW w, NEW id, NEW names, NEW signed, Verify(w, id, names, signed) PROVE strict' = strict
  BY <1>2 DEF Verify
<1>3. ASSUME NEW s, NEW a, NEW enabled, NEW k,
             UpsertPlain(s, a, enabled) \/ SetEnabled(s, a, enabled) \/ RemoveAgent(s, a) \/ Upsert(s, a, enabled, k)
      PROVE  strict' = strict
  <2>1. CASE UpsertPlain(s, a, enabled)
    BY <2>1 DEF UpsertPlain
  <2>2. CASE SetEnabled(s, a, enabled)
    BY <2>2 DEF SetEnabled
  <2>3. CASE RemoveAgent(s, a)
    BY <2>3 DEF RemoveAgent
  <2>4. CASE Upsert(s, a, enabled, k)
    BY <2>4 DEF Upsert
  <2> QED BY <1>3, <2>1, <2>2, <2>3, <2>4
<1>4. ASSUME NEW a, NEW w, Hook(a, w) \/ Unhook(a) PROVE strict' = strict
  <2>1. CASE Hook(a, w)
    BY <2>1 DEF Hook
  <2>2. CASE Unhook(a)
    BY <2>2 DEF Unhook
  <2> QED BY <1>4, <2>1, <2>2
<1>5. Tick => strict' = strict
  BY DEF Tick
<1>6. ASSUME NEW python, Start(python) PROVE strict' = strict
  BY <1>6 DEF Start
<1> QED
  BY <1>1, <1>2, <1>3, <1>4, <1>5, <1>6 DEF Next, SignIn, RegistryStep, HookStep

\* The invariant holds in every behaviour.
LEMMA ApiInvAlways == Spec => [](ApiInv /\ strict \in BOOLEAN)
<1>1. Init => ApiInv /\ strict \in BOOLEAN
  BY ApiInvInit DEF Init
<1>2. ApiInv /\ strict \in BOOLEAN /\ [Next]_vars => (ApiInv /\ strict \in BOOLEAN)'
  <2> SUFFICES ASSUME ApiInv, strict \in BOOLEAN, [Next]_vars PROVE ApiInv' /\ strict' \in BOOLEAN
    OBVIOUS
  <2>1. CASE Next
    <3>1. strict' = strict
      BY <2>1, StrictStays
    <3> QED BY <2>1, <3>1, ApiInvNext
  <2>2. CASE UNCHANGED vars
    BY <2>2, ApiInvStutter DEF vars
  <2> QED BY <2>1, <2>2
<1> QED
  BY <1>1, <1>2, PTL DEF Spec

\* Nonces, sessions and owners, over deaths and truncated files.
THEOREM SessionsAlwaysEarned == Spec => []SessionsEarned
<1>1. ApiInv => SessionsEarned
  <2> SUFFICES ASSUME SignInInv, RegistryInv PROVE SessionsEarned
    BY DEF ApiInv
  <2>1. \A n \in NonceIds : tried[n] <= 1
    BY DEF SignInInv
  <2> QED BY <2>1 DEF SignInInv, RegistryInv, SessionsEarned
<1> QED
  BY <1>1, ApiInvAlways, PTL

\* The engine and the file of the webhook registrations.
THEOREM FilesAlwaysMatch == Spec => []FileMatchesEngine
<1>1. ApiInv => FileMatchesEngine
  BY DEF ApiInv, HooksInv
<1> QED
  BY <1>1, ApiInvAlways, PTL

\* A key that worked works again only when its record was lost.
THEOREM KeysApplyOnce == Spec => KeyAppliesOnce
<1>1. ApiInv /\ strict \in BOOLEAN /\ [Next]_vars
        => [\A k \in Keys : applied'[k] > applied[k] /\ applied[k] > 0 => k \in forgot]_vars
  BY ApiInvNext
<1> QED
  BY <1>1, ApiInvAlways, PTL DEF Spec, KeyAppliesOnce

-----------------------------------------------------------------------------
(* The pages of the chain log *)

\* A page is a stretch of rows: the client reads all between its ends.
PagesInv ==
  /\ rows \in Nat /\ first \in 0..rows /\ offset \in Nat /\ seen \subseteq Nat
  /\ offset = 0 => seen = {}
  /\ offset > 0 => \A i \in 1..first : i > rows - offset => i \in seen
  /\ PagesLeaveNoGap

\* Limits are positive, whatever the query says.
LEMMA LimitPositive ==
  ASSUME PageLimits, NEW raw \in RawLimits PROVE ParseLimit(raw) \in Nat \ {0}
BY DEF PageLimits, ParseLimit

\* The ends of a page that is not empty.
LEMMA PageEnds ==
  ASSUME NEW total \in Nat, NEW off \in Nat, NEW limit \in Nat \ {0},
         Page(total, off, limit) # {}
  PROVE  LET page == Page(total, off, limit)
         IN  /\ off < total
             /\ (CHOOSE i \in page : \A j \in page : j <= i) = total - off
             /\ (CHOOSE i \in page : \A j \in page : i <= j) = Larger(0, total - off - limit) + 1
<1> DEFINE page == Page(total, off, limit)
           lo == Larger(0, total - off - limit) + 1
           hi == Larger(0, total - off)
<1>1. lo \in Int /\ hi \in Int /\ page = lo..hi /\ lo <= hi
  BY DEF Page, Larger
<1>2. off < total /\ hi = total - off
  BY <1>1 DEF Larger
<1>3. hi \in page /\ \A j \in page : j <= hi
  BY <1>1
<1>4. lo \in page /\ \A j \in page : lo <= j
  BY <1>1
<1> HIDE DEF lo, hi, page
<1>5. \A i \in page : (\A j \in page : j <= i) => i = hi
  BY <1>1, <1>3
<1>6. \A i \in page : (\A j \in page : i <= j) => i = lo
  BY <1>1, <1>4
<1>7. (CHOOSE i \in page : \A j \in page : j <= i) = hi
  BY <1>3, <1>5
<1>8. (CHOOSE i \in page : \A j \in page : i <= j) = lo
  BY <1>4, <1>6
<1> QED
  BY <1>2, <1>7, <1>8 DEF lo, hi, page

\* Before the first page nothing has been read.
LEMMA PagesInvInit == PagesInit => PagesInv
BY DEF PagesInit, PagesInv, PagesLeaveNoGap

\* The rows above what was read move away from the client, never towards it.
LEMMA PagesAppend == PagesInv /\ AppendRow => PagesInv'
BY DEF PagesInv, AppendRow, PagesLeaveNoGap

\* A page is read.
LEMMA PagesRead ==
  ASSUME PageLimits, PagesInv, NEW raw \in RawLimits, ReadPage(raw)
  PROVE  PagesInv'
<1> DEFINE limit == ParseLimit(raw)
           page == Page(rows, offset, limit)
           lo == Larger(0, rows - offset - limit) + 1
<1>1. limit \in Nat \ {0} /\ rows \in Nat /\ offset \in Nat
  BY LimitPositive DEF PagesInv
<1> HIDE DEF limit
<1>2. CASE page = {}
  <2>1. rows <= offset
    <3>1. \A i \in Int : ~(Larger(0, rows - offset - limit) + 1 <= i /\ i <= Larger(0, rows - offset))
      BY <1>1, <1>2 DEF Page, Larger
    <3>2. rows - offset \in Int /\ Larger(0, rows - offset) \in Int
      BY <1>1 DEF Larger
    <3>3. ~(Larger(0, rows - offset - limit) + 1 <= Larger(0, rows - offset))
      BY <3>1, <3>2
    <3> QED BY <1>1, <3>3 DEF Larger
  <2>2. offset' = offset /\ rows' = rows /\ first' \in 0..rows
    BY <1>2 DEF ReadPage, PagesInv, limit
  <2>3. CASE offset = 0
    BY <1>2, <2>1, <2>2, <2>3 DEF ReadPage, PagesInv, PagesLeaveNoGap, limit
  <2>4. CASE offset # 0
    <3>1. first' = first /\ seen' = seen
      BY <1>2, <2>4 DEF ReadPage, limit
    <3> QED BY <2>2, <3>1 DEF PagesInv, PagesLeaveNoGap
  <2> QED BY <2>3, <2>4
<1>3. CASE page # {}
  <2>1. /\ offset < rows
        /\ (CHOOSE i \in page : \A j \in page : j <= i) = rows - offset
        /\ (CHOOSE i \in page : \A j \in page : i <= j) = lo
    BY <1>1, <1>3, PageEnds
  <2>2. lo \in Nat /\ lo > 0 /\ lo <= rows - offset /\ page = lo..(rows - offset)
    BY <1>1, <2>1 DEF Page, Larger
  <2>3. offset' = rows - lo + 1 /\ rows' = rows
    <3>1. offset' = offset + ((CHOOSE i \in page : \A j \in page : j <= i)
                            - (CHOOSE i \in page : \A j \in page : i <= j) + 1)
      BY <1>3 DEF ReadPage, limit
    <3>2. offset' = offset + (rows - offset - lo + 1) /\ rows' = rows
      BY <2>1, <3>1 DEF ReadPage
    <3> HIDE DEF lo
    <3> QED BY <3>2, <2>2, <1>1
  <2>4. CASE offset = 0
    <3>1. first' = rows /\ seen' = page
      BY <2>4 DEF ReadPage, limit
    <3> HIDE DEF lo, page
    <3> QED BY <1>1, <2>2, <2>3, <2>4, <3>1 DEF PagesInv, PagesLeaveNoGap
  <2>5. CASE offset # 0
    <3>1. first' = first /\ seen' = seen \cup page
      BY <2>5 DEF ReadPage, limit
    <3> HIDE DEF lo, page
    <3>2. \A i \in 1..first : i >= lo => i \in seen'
      BY <1>1, <2>2, <2>5, <3>1 DEF PagesInv
    <3>3. PagesLeaveNoGap'
      <4> SUFFICES ASSUME NEW i \in 1..first', NEW j \in seen', j < i PROVE i \in seen'
        BY DEF PagesLeaveNoGap
      <4>1. CASE j \in seen
        BY <3>1, <4>1 DEF PagesInv, PagesLeaveNoGap
      <4>2. CASE j \in page
        BY <1>1, <2>2, <3>1, <3>2, <4>2 DEF PagesInv
      <4> QED BY <3>1, <4>1, <4>2
    <3> QED BY <1>1, <2>2, <2>3, <3>1, <3>2, <3>3 DEF PagesInv
  <2> QED BY <2>4, <2>5
<1> QED
  BY <1>2, <1>3

\* Every behaviour of the pages, whatever the limits and however many rows come in between.
THEOREM PagesNeverSkip == PagesSpec => []PagesLeaveNoGap
<1>1. PagesInit => PagesInv
  BY PagesInvInit
<1>2. PagesInv /\ [PagesNext]_pageVars => PagesInv'
  <2> SUFFICES ASSUME PagesInv, [PagesNext]_pageVars PROVE PagesInv'
    OBVIOUS
  <2>1. CASE AppendRow
    BY <2>1, PagesAppend
  <2>2. ASSUME NEW raw \in RawLimits, ReadPage(raw) PROVE PagesInv'
    BY <2>2, PagesRead, PageLimits
  <2>3. CASE UNCHANGED pageVars
    BY <2>3 DEF PagesInv, PagesLeaveNoGap, pageVars
  <2> QED
    BY <2>1, <2>2, <2>3 DEF PagesNext
<1>3. PagesInv => PagesLeaveNoGap
  BY DEF PagesInv
<1> QED
  BY <1>1, <1>2, <1>3, PTL DEF PagesSpec

-----------------------------------------------------------------------------
(* The leaderboards and their viewers *)

\* The inductive invariant: viewers are what they are declared to be, and what StandingsSound says.
StandingsInv ==
  /\ viewers = [v \in Viewers |-> viewers[v]]
  /\ \A v \in Viewers : viewers[v] = [conn |-> viewers[v].conn, seen |-> viewers[v].seen]
  /\ StandingsSound

\* Down a final leaderboard nobody is paid more than one above, and no one twice.
LEMMA FinalInOrder ==
  ASSUME NEW q \in Rankings, NEW w \in Weighings
  PROVE  FinalBoard(q, w).kind = "final" /\ PaidInOrder(FinalBoard(q, w).rows)
<1>1. /\ q \in [1..Cardinality(Listed) -> Listed] /\ IsInjective(q)
      /\ \A i, j \in DOMAIN q : i < j => roster[q[i]].roi >= roster[q[j]].roi
  BY DEF Rankings
<1>2. \A i, j \in DOMAIN q : q[i] = q[j] => i = j
  BY <1>1 DEF IsInjective
<1>3. /\ \A a \in Listed : ~IsValidAgent(a) => w[a] = 0
      /\ \A a, b \in Listed :
           IsValidAgent(a) /\ IsValidAgent(b) /\ roster[a].roi >= roster[b].roi => w[a] >= w[b]
  BY DEF Weighings
<1> DEFINE entries == FinalBoard(q, w).rows
<1>4. /\ DOMAIN entries = DOMAIN q
      /\ \A k \in DOMAIN q : /\ entries[k].agent = q[k] /\ entries[k].weight = w[q[k]]
                             /\ entries[k].valid = IsValidAgent(q[k]) /\ q[k] \in Listed
  BY <1>1 DEF FinalBoard
<1>5. ASSUME NEW i \in DOMAIN q, NEW j \in DOMAIN q
      PROVE  /\ i < j /\ entries[i].valid /\ entries[j].valid => entries[i].weight >= entries[j].weight
             /\ entries[i].agent = entries[j].agent => i = j
             /\ entries[i].weight > 0 => entries[i].valid
  <2> HIDE DEF entries
  <2>1. i < j /\ entries[i].valid /\ entries[j].valid => entries[i].weight >= entries[j].weight
    BY <1>1, <1>3, <1>4
  <2>2. entries[i].agent = entries[j].agent => i = j
    BY <1>2, <1>4
  <2>3. entries[i].weight > 0 => entries[i].valid
    BY <1>3, <1>4
  <2> QED
    BY <2>1, <2>2, <2>3
<1>6. PaidInOrder(entries)
  <2> HIDE DEF entries
  <2> QED
    BY <1>4, <1>5 DEF PaidInOrder
<1> QED
  BY <1>6 DEF FinalBoard

\* Whoever is told of a leaderboard that is written in the same step knows what the file says.
LEMMA ToldOfFile ==
  ASSUME StandingsInv, NEW b, boardFile' = b, viewers' = Told(b),
         b.kind = "final" => PaidInOrder(b.rows)
  PROVE  StandingsInv'
<1> DEFINE told(v) == IF viewers[v].conn = "open" THEN [viewers[v] EXCEPT !.seen = b] ELSE viewers[v]
<1>1. viewers' = [v \in Viewers |-> told(v)]
  BY DEF Told
<1>2. ASSUME NEW v \in Viewers
      PROVE  /\ told(v) = [conn |-> told(v).conn, seen |-> told(v).seen]
             /\ told(v).seen # NoBoard => told(v).conn = "open" /\ told(v).seen = b
  <2>1. CASE viewers[v].conn = "open"
    <3>1. told(v) = [conn |-> "open", seen |-> b]
      BY <2>1 DEF StandingsInv
    <3> QED
      BY <3>1
  <2>2. CASE viewers[v].conn # "open"
    BY <2>2 DEF StandingsInv, StandingsSound, TellsTheFile
  <2> QED
    BY <2>1, <2>2
<1>3. viewers' = [v \in Viewers |-> viewers'[v]] /\ \A v \in Viewers : viewers'[v] = told(v)
  BY <1>1
<1> HIDE DEF told
<1> QED
  BY <1>2, <1>3 DEF StandingsInv, StandingsSound, TellsTheFile

\* A viewer that comes or goes knows nothing yet.
LEMMA ViewerMoves ==
  ASSUME StandingsInv, UNCHANGED boardFile, NEW v \in Viewers, NEW x,
         x = [conn |-> x.conn, seen |-> NoBoard], viewers' = [viewers EXCEPT ![v] = x]
  PROVE  StandingsInv'
<1>1. viewers' = [u \in Viewers |-> IF u = v THEN x ELSE viewers[u]]
  BY DEF StandingsInv
<1>2. x.seen = NoBoard
  OBVIOUS
<1>3. viewers' = [u \in Viewers |-> viewers'[u]]
  BY <1>1
<1>4. \A u \in Viewers : viewers'[u] = IF u = v THEN x ELSE viewers[u]
  BY <1>1
<1> QED
  BY <1>2, <1>3, <1>4 DEF StandingsInv, StandingsSound, TellsTheFile

\* No step of engine or viewer disturbs it.
LEMMA StandingsInvNext == StandingsInv /\ [StandingsNext]_standingVars => StandingsInv'
<1> SUFFICES ASSUME StandingsInv, [StandingsNext]_standingVars PROVE StandingsInv'
  OBVIOUS
<1>1. CASE UNCHANGED <<boardFile, viewers>>
  BY <1>1 DEF StandingsInv, StandingsSound, TellsTheFile
<1>2. ASSUME NEW c \in Slots, CycleCloses(c) PROVE StandingsInv'
  <2>1. PICK q \in Rankings : boardFile' = LiveBoard(q) /\ viewers' = Told(LiveBoard(q))
    BY <1>2 DEF CycleCloses, SaveLeaderboard, Hooks
  <2>2. LiveBoard(q).kind = "live"
    BY DEF LiveBoard
  <2> QED
    BY <2>1, <2>2, ToldOfFile
<1>3. CASE SeasonSettles
  <2>1. PICK q \in Rankings, w \in Weighings :
          boardFile' = FinalBoard(q, w) /\ viewers' = Told(FinalBoard(q, w))
    BY <1>3 DEF SeasonSettles, SaveLeaderboard, Hooks
  <2> QED
    BY <2>1, FinalInOrder, ToldOfFile
<1>4. CASE ProcessRestarts
  <2>1. viewers' = [v \in Viewers |-> NoViewer] /\ boardFile' = boardFile
    BY <1>4 DEF ProcessRestarts
  <2>2. NoViewer = [conn |-> NoViewer.conn, seen |-> NoViewer.seen] /\ NoViewer.seen = NoBoard
    BY DEF NoViewer
  <2>3. viewers' = [v \in Viewers |-> viewers'[v]] /\ \A v \in Viewers : viewers'[v] = NoViewer
    BY <2>1
  <2> QED
    BY <2>1, <2>2, <2>3 DEF StandingsInv, StandingsSound, TellsTheFile
<1>5. ASSUME NEW v \in Viewers, NEW authorized \in BOOLEAN, Connect(v, authorized) PROVE StandingsInv'
  <2> DEFINE x == [conn |-> IF authorized THEN "open" ELSE "closing", seen |-> NoBoard]
  <2>1. viewers[v].seen = NoBoard
    BY <1>5 DEF Connect, StandingsInv, StandingsSound, TellsTheFile
  <2>2. [viewers[v] EXCEPT !.conn = IF authorized THEN "open" ELSE "closing"] = x
    BY <2>1 DEF StandingsInv
  <2>3. viewers' = [viewers EXCEPT ![v] = x] /\ boardFile' = boardFile
    BY <1>5, <2>2 DEF Connect
  <2>4. x = [conn |-> x.conn, seen |-> NoBoard]
    OBVIOUS
  <2> HIDE DEF x
  <2> QED
    BY <2>3, <2>4, ViewerMoves
<1>6. ASSUME NEW v \in Viewers, Disconnect(v) PROVE StandingsInv'
  <2>1. viewers' = [viewers EXCEPT ![v] = NoViewer] /\ boardFile' = boardFile
    BY <1>6 DEF Disconnect
  <2>2. NoViewer = [conn |-> NoViewer.conn, seen |-> NoBoard]
    BY DEF NoViewer
  <2> QED
    BY <2>1, <2>2, ViewerMoves
<1> QED
  BY <1>1, <1>2, <1>3, <1>4, <1>5, <1>6 DEF StandingsNext, standingVars, RegisterEntrant,
     UnregisterEntrant, StartSeason, CycleOpens, EntrantAnswers

\* For any number of agents, viewers and cycles at once: a viewer was last told what the file
\* says, one turned away nothing, and a final leaderboard pays in its order.
THEOREM StandingsAlwaysSound == StandingsSpec => []StandingsSound
<1>1. StandingsInit => StandingsInv
  BY DEF StandingsInit, StandingsInv, StandingsSound, TellsTheFile, NoViewer, NoBoard
<1>2. StandingsInv => StandingsSound
  BY DEF StandingsInv
<1> QED
  BY <1>1, <1>2, StandingsInvNext, PTL DEF StandingsSpec

-----------------------------------------------------------------------------
(* The commands and their environment *)

\* The parts of the command that is run have been built, and nothing was sent before.
StartupInv ==
  /\ cmd \in Commands
  /\ phase \in {"begun", "refused"} => txs = {}
  /\ phase \in {"registering", "serving", "done"} => "throws" \notin Built /\ ~(cmd = "start" /\ Refused)
  /\ phase = "registering" => cmd # "sync"
  /\ phase = "failed" /\ waiting # <<>> => ~(cmd = "start" /\ Refused)
  /\ phase = "failed" /\ waiting = <<>> => "throws" \in Built /\ ~(cmd = "start" /\ Refused) /\ txs = {}
  /\ \A x \in txs : Equipped(x)

\* A part that uses cast has a node, its contracts and a signer that is complete.
LEMMA CastPartBuilt ==
  ASSUME NEW contracts, CastPart(contracts) = "cast"
  PROVE  /\ Has("rpc") /\ (\A a \in contracts : Given(a))
         /\ \/ CastSigner = "unlocked" /\ Has("unlocked") /\ Has("from")
            \/ CastSigner = "keystore" /\ Has("keystore")
            \/ CastSigner = "key" /\ Has("key") /\ Has("allow")
  BY DEF CastPart, CastSigner

\* What such a part sends is equipped, once cast and a keystore are there.
LEMMA SendsEquipped ==
  ASSUME NEW contracts, CastPart(contracts) = "cast", CastSends, NEW a \in contracts, NEW for,
         cmd = "start" => IsHexAddress(a), for = "mintTo" => IsHexAddress("mintTo")
  PROVE  Equipped(CastSend(a, for))
<1> DEFINE x == CastSend(a, for)
<1>1. x.to = a /\ x.by = CastSigner /\ x.for = for
  BY DEF CastSend
<1> HIDE DEF x
<1>2. Equipped(x)
  BY <1>1, CastPartBuilt DEF CastSends, Equipped
<1> QED
  BY <1>2 DEF x

\* What the preflight has looked at, for the contracts of the parts it lets pass.
LEMMA PreflightChecked ==
  ASSUME ~Refused
  PROVE  /\ Has("onchain") => IsHexAddress("settler") /\ IsHexAddress("oracle")
         /\ Has("registration") => IsHexAddress("nfa") /\ IsHexAddress("registry")
  BY DEF Refused, ChainIssue, RegistrationIssue

\* ensureAgent sends nothing it is not equipped for.
LEMMA EnsureEquipped ==
  ASSUME StartupInv, phase = "registering", Registrar # "none", EnsureSends
  PROVE  \A x \in txs' : Equipped(x)
<1>1. PICK new \in SUBSET Identity :
        Resolves /\ (new # {} => CastSends) /\ txs' = txs \cup new
  BY DEF EnsureSends
<1>2. cmd \in {"start", "bootstrap"} /\ "throws" \notin Built /\ ~(cmd = "start" /\ Refused)
  BY DEF StartupInv, Commands
<1>3. Registrar \in Built
  BY <1>2 DEF Built
<1>4. Has("registration") /\ CastPart({"nfa", "registry"}) = "cast"
  BY <1>2, <1>3 DEF Registrar, CastPart
<1>5. cmd = "start" => IsHexAddress("nfa") /\ IsHexAddress("registry")
  BY <1>2, <1>4, PreflightChecked
<1>6. ResolvedOwner = "mintTo" => IsHexAddress("mintTo")
  BY <1>1 DEF ResolvedOwner, Resolves
<1>7. ASSUME CastSends
      PROVE  Equipped(CastSend("nfa", ResolvedOwner)) /\ Equipped(CastSend("registry", "token"))
  <2>1. Equipped(CastSend("nfa", ResolvedOwner))
    BY <1>4, <1>5, <1>6, <1>7, SendsEquipped
  <2>2. Equipped(CastSend("registry", "token"))
    BY <1>4, <1>5, <1>7, SendsEquipped
  <2> QED
    BY <2>1, <2>2
<1>8. \A x \in new : Equipped(x)
  BY <1>1, <1>7 DEF Identity
<1> QED
  BY <1>1, <1>8 DEF StartupInv

\* A command never changes its environment, and so not what it is equipped for.
LEMMA SameEnvironment ==
  ASSUME UNCHANGED <<env, cmd>>
  PROVE  Built' = Built /\ Refused' = Refused /\ \A x : Equipped(x)' = Equipped(x)
<1> USE DEF Has, Given, IsHexAddress
<1>1. CastSigner' = CastSigner /\ RawKeyBlocked' = RawKeyBlocked /\ SignerConfigured' = SignerConfigured
  BY DEF CastSigner, RawKeyBlocked, SignerConfigured
<1>2. \A c : CastPart(c)' = CastPart(c)
  BY <1>1 DEF CastPart
<1>3. /\ SeasonSubmitter' = SeasonSubmitter /\ LearningRootSubmitter' = LearningRootSubmitter
      /\ Registrar' = Registrar
  BY <1>2 DEF SeasonSubmitter, LearningRootSubmitter, Registrar
<1>4. Built' = Built
  BY <1>3 DEF Built
<1>5. Refused' = Refused
  BY <1>1 DEF Refused, ChainIssue, RegistrationIssue
<1>6. \A x : Equipped(x)' = Equipped(x)
  BY DEF Equipped
<1> QED
  BY <1>4, <1>5, <1>6

\* No step of a command disturbs it.
LEMMA StartupInvNext == StartupInv /\ [StartupNext]_startupVars => StartupInv'
<1> SUFFICES ASSUME StartupInv, [StartupNext]_startupVars PROVE StartupInv'
  OBVIOUS
<1>0. UNCHANGED <<env, cmd>>
  BY DEF StartupNext, startupVars, RunCommand, EnsureNext, EnsureFails, AllEnsured, SubmitTo
<1>1. Built' = Built /\ Refused' = Refused /\ (\A x : Equipped(x)' = Equipped(x)) /\ cmd' = cmd
  BY <1>0, SameEnvironment
<1>2. CASE UNCHANGED startupVars
  BY <1>1, <1>2 DEF startupVars, StartupInv
<1>3. CASE RunCommand
  <2>1. phase = "begun" /\ txs' = txs /\ txs = {}
    BY <1>3 DEF RunCommand, StartupInv
  <2>2. CASE cmd = "start" /\ Refused
    BY <1>1, <1>3, <2>1, <2>2 DEF RunCommand, StartupInv
  <2>3. CASE ~(cmd = "start" /\ Refused) /\ "throws" \in Built
    BY <1>1, <1>3, <2>1, <2>3 DEF RunCommand, StartupInv
  <2>4. CASE ~(cmd = "start" /\ Refused) /\ "throws" \notin Built
    BY <1>1, <1>3, <2>1, <2>4 DEF RunCommand, StartupInv
  <2> QED
    BY <2>2, <2>3, <2>4
<1>4. CASE EnsureNext \/ EnsureFails
  <2>1. phase = "registering" /\ waiting # <<>>
    BY <1>4 DEF EnsureNext, EnsureFails
  <2>2. \A x \in txs' : Equipped(x)
    BY <1>4, <2>1, EnsureEquipped DEF EnsureNext, EnsureFails, StartupInv
  <2>3. phase' = "registering" \/ (phase' = "failed" /\ waiting' = waiting)
    BY <1>4 DEF EnsureNext, EnsureFails
  <2> QED
    BY <1>1, <2>1, <2>2, <2>3 DEF StartupInv
<1>5. CASE AllEnsured
  BY <1>1, <1>5 DEF AllEnsured, StartupInv
<1>6. ASSUME NEW a \in {"oracle", "settler"}, NEW submitter, SubmitTo(a, submitter),
             submitter = IF a = "oracle" THEN LearningRootSubmitter ELSE SeasonSubmitter
      PROVE  StartupInv'
  <2>1. /\ phase = "serving" /\ submitter = "cast" /\ CastSends
        /\ txs' = txs \cup {CastSend(a, "season")}
    BY <1>6 DEF SubmitTo
  <2>2. Has("onchain") /\ CastPart({a}) = "cast"
    BY <1>6, <2>1 DEF SeasonSubmitter, LearningRootSubmitter
  <2>3. cmd = "start" => IsHexAddress(a)
    BY <1>6, <2>1, <2>2, PreflightChecked DEF StartupInv
  <2>4. Equipped(CastSend(a, "season"))
    BY <2>1, <2>2, <2>3, SendsEquipped
  <2> QED
    BY <1>1, <1>6, <2>1, <2>4 DEF StartupInv, SubmitTo
<1> QED
  BY <1>2, <1>3, <1>4, <1>5, <1>6 DEF StartupNext

\* A command that passes the preflight and fails in a constructor is one of those overlooked.
LEMMA BuildFailsOverlooked ==
  ASSUME cmd = "start", ~Refused, "throws" \in Built
  PROVE  Overlooked
<1> USE DEF Has, Given, IsHexAddress
<1>1. "throws" \in {SeasonSubmitter, LearningRootSubmitter, Registrar}
  BY DEF Built
<1>2. CASE SeasonSubmitter = "throws" \/ LearningRootSubmitter = "throws"
  <2>1. Has("onchain") /\ (Has("rpc") => CastPart({"settler"}) = "throws" \/ CastPart({"oracle"}) = "throws")
    BY <1>2 DEF SeasonSubmitter, LearningRootSubmitter
  <2>2. CastSigner = "throws"
    BY <2>1 DEF Refused, ChainIssue, CastPart
  <2> QED
    BY <2>1, <2>2 DEF CastSigner, Refused, ChainIssue, SignerConfigured, RawKeyBlocked, Overlooked
<1>3. CASE Registrar = "throws"
  <2>1. Has("registration") /\ (Has("salt") => CastPart({"nfa", "registry"}) = "throws")
    BY <1>3 DEF Registrar
  <2>2. Has("salt") => CastSigner = "throws"
    BY <2>1 DEF Refused, RegistrationIssue, CastPart
  <2> QED
    BY <2>1, <2>2 DEF CastSigner, Refused, RegistrationIssue, SignerConfigured, RawKeyBlocked, Overlooked
<1> QED
  BY <1>1, <1>2, <1>3

\* In every environment: a start, a bootstrap or a replay sends nothing it is not equipped for, a
\* start that is refused sends nothing, and the preflight overlooks three settings and no other.
THEOREM StartsAlwaysEquipped == StartupSpec => []StartsEquipped
<1>1. StartupInit => StartupInv
  BY DEF StartupInit, StartupInv
<1>2. StartupInv => StartsEquipped
  BY BuildFailsOverlooked DEF StartupInv, StartsEquipped
<1> QED
  BY <1>1, <1>2, StartupInvNext, PTL DEF StartupSpec
===============================================================================
