-------------------------- MODULE ArenaVaultProofs --------------------------
(* Proofs about ArenaVault, for any number of users, agents and seasons    *)
(* and any amounts: the one balance covers what every season still owes.   *)
(* The last part is about SeasonSettlement, which extends the vault with   *)
(* the contract that settles it: the vault stays sound under it, and the   *)
(* records of the two agree.                                               *)
EXTENDS SeasonSettlement, NatSumTheorems, FiniteSetTheorems, SequenceTheorems

\* What a claim of u's adds up, agent by agent, and what was already marked.
Part(s, u, A) ==
  [a \in Agents |-> IF a \in Payable(s, u, A) THEN Payout(s, a, u) ELSE 0]
Marked(s, u) ==
  [a \in Agents |-> IF agentClaimed[s][a][u] THEN Payout(s, a, u) ELSE 0]
Open(s) ==
  [u \in Stakers |-> IF userClaimed[s][u] THEN 0 ELSE ClaimAmount(s, u, Agents)]

\* Before its settlement a season has no weights and nothing was claimed.
Fresh ==
  \A s \in Seasons : ~seasonSettled[s] =>
    /\ \A a \in Agents : seasonWeight[s][a] = 0
    /\ \A u \in Stakers : ~userClaimed[s][u] /\ \A a \in Agents : ~agentClaimed[s][a][u]

\* Weights never exceed the whole; only listed agents have stakes.
Weighed == \A s \in Seasons : SumTo(seasonWeight[s], NumAgents) <= WAD
Listed  ==
  \A s \in Seasons, a \in Agents, u \in Stakers :
    userStake[s][a][u] > 0 => a \in seasonAgents[s]

\* The inductive invariant.
VaultInv == VaultTypeOK /\ Fresh /\ Weighed /\ Listed /\ VaultSound

-----------------------------------------------------------------------------
(* Payouts.                                                                *)

\* Division rounds down.
LEMMA Floor ==
  \A x \in Nat, y \in Nat \ {0} : x \div y \in Nat /\ y * (x \div y) <= x
OBVIOUS

\* A product of naturals is a natural, and is 0 only if a factor is.
LEMMA Product ==
  \A x, y \in Nat : x * y \in Nat /\ (x # 0 /\ y # 0 => x * y # 0)
OBVIOUS

\* A payout is a number, and its agent has a stake and a weight.
LEMMA PayoutType ==
  ASSUME VaultTypeOK, NEW s \in Seasons, NEW a \in Agents, NEW u \in Stakers
  PROVE  /\ Payout(s, a, u) \in Nat
         /\ Payout(s, a, u) > 0 => userStake[s][a][u] > 0 /\ seasonWeight[s][a] # 0
<1>1. /\ userStake[s][a][u] \in Nat /\ totalStake[s][a] \in Nat
      /\ seasonWeight[s][a] \in Nat /\ totalSeasonPool[s] \in Nat /\ WAD \in Nat \ {0}
  BY VaultConstants DEF VaultTypeOK
<1> DEFINE us == userStake[s][a][u]
           ts == totalStake[s][a]
           w == seasonWeight[s][a]
           P == totalSeasonPool[s]
<1>2. CASE us = 0 \/ ts = 0 \/ w = 0
  BY <1>1, <1>2 DEF Payout
<1>3. CASE ~ (us = 0 \/ ts = 0 \/ w = 0)
  <2>1. Payout(s, a, u) = (P * w * us) \div (WAD * ts)
    BY <1>3 DEF Payout
  <2>2. P * w \in Nat /\ WAD * ts \in Nat \ {0}
    BY <1>1, <1>3, Product
  <2>3. (P * w) * us \in Nat
    BY <1>1, <2>2, Product
  <2>4. Payout(s, a, u) \in Nat
    <3> HIDE DEF us, ts, w, P
    <3> QED BY <2>1, <2>2, <2>3, Floor
  <2> QED BY <1>1, <1>3, <2>4
<1> QED
  BY <1>2, <1>3

\* All users together get no more of an agent's part than its weight allows.
LEMMA PayoutsOfAgent ==
  ASSUME VaultTypeOK, BooksAgree, NEW s \in Seasons, NEW a \in Agents,
         NEW pay \in [Stakers -> Nat], \A u \in Stakers : pay[u] = Payout(s, a, u)
  PROVE  WAD * SumTo(pay, NumUsers) <= totalSeasonPool[s] * seasonWeight[s][a]
<1> DEFINE stake == userStake[s][a]
           ts == totalStake[s][a]
           w == seasonWeight[s][a]
           P == totalSeasonPool[s]
           D == WAD * ts
<1>1. /\ stake \in [Stakers -> Nat] /\ ts \in Nat /\ w \in Nat /\ P \in Nat
      /\ WAD \in Nat \ {0} /\ NumUsers \in Nat /\ Stakers = 1..NumUsers
      /\ ts = SumTo(stake, NumUsers)
  BY VaultConstants DEF VaultTypeOK, BooksAgree, Stakers
<1>2. SumTo(pay, NumUsers) \in Nat
  BY <1>1, SumIsNat
<1>3. CASE ts = 0 \/ w = 0
  <2>1. \A u \in Stakers : pay[u] = 0
    BY <1>3 DEF Payout
  <2>2. \A k \in Nat : Summand(pay, k) = 0
    BY <2>1 DEF Summand
  <2>3. SumTo(pay, NumUsers) = 0
    BY <1>1, <2>2, SumOfZeros
  <2>4. P * w \in Nat
    BY <1>1, Product
  <2>5. WAD * SumTo(pay, NumUsers) = 0
    BY <1>1, <2>3
  <2>6. 0 <= P * w
    <3> HIDE DEF P, w
    <3> QED BY <2>4
  <2> QED BY <2>5, <2>6
<1>4. CASE ts # 0 /\ w # 0
  <2>1. D \in Nat \ {0} /\ P * w \in Nat
    BY <1>1, <1>4, Product
  <2> DEFINE left  == [u \in Stakers |-> D * pay[u]]
             right == [u \in Stakers |-> (P * w) * stake[u]]
  <2>2. left \in [1..NumUsers -> Nat] /\ right \in [1..NumUsers -> Nat]
    BY <1>1, <2>1, Product
  <2>3. \A u \in Stakers : left[u] <= right[u]
    <3> TAKE u \in Stakers
    <3>1. stake[u] \in Nat /\ (P * w) * stake[u] \in Nat
      BY <1>1, <2>1, Product
    <3>2. CASE stake[u] = 0
      <4>1. pay[u] = 0
        BY <3>2 DEF Payout
      <4>2. D * 0 = 0
        BY <2>1
      <4> HIDE DEF D, P, w
      <4> QED BY <4>1, <4>2, <3>1
    <3>3. CASE stake[u] # 0
      <4>1. pay[u] = ((P * w) * stake[u]) \div D
        BY <1>4, <3>3 DEF Payout
      <4> HIDE DEF D, P, w, stake
      <4> QED BY <4>1, <2>1, <3>1, Floor
    <3> QED BY <3>2, <3>3
  <2>4. /\ \A u \in 1..NumUsers : left[u] <= right[u]
        /\ \A u \in 1..NumUsers : left[u] = D * pay[u]
        /\ \A u \in 1..NumUsers : right[u] = (P * w) * stake[u]
        /\ pay \in [1..NumUsers -> Nat] /\ stake \in [1..NumUsers -> Nat]
    BY <1>1, <2>3
  <2> HIDE DEF left, right, D, stake, P, w, ts
  <2>5. SumTo(left, NumUsers) = D * SumTo(pay, NumUsers)
    BY <1>1, <2>1, <2>2, <2>4, SumScaled
  <2>6. SumTo(right, NumUsers) = (P * w) * SumTo(stake, NumUsers)
    BY <1>1, <2>1, <2>2, <2>4, SumScaled
  <2>7. SumTo(left, NumUsers) <= SumTo(right, NumUsers)
    BY <1>1, <2>2, <2>4, SumLeq
  <2>8. (WAD * ts) * SumTo(pay, NumUsers) <= (P * w) * ts
    BY <2>5, <2>6, <2>7, <1>1 DEF D
  <2>9. \A x, y, z \in Nat : z # 0 /\ (WAD * z) * x <= y * z => WAD * x <= y
    BY <1>1
  <2>10. WAD * SumTo(pay, NumUsers) <= P * w
    BY <2>8, <2>9, <2>1, <1>1, <1>2, <1>4
  <2> QED BY <2>10 DEF P, w
<1> QED
  BY <1>1, <1>3, <1>4

\* What a claim may add up: a number, part by part.
LEMMA PartType ==
  ASSUME VaultTypeOK, NEW s \in Seasons, NEW u \in Stakers, NEW A
  PROVE  /\ Part(s, u, A) \in [1..NumAgents -> Nat]
         /\ ClaimAmount(s, u, A) = SumTo(Part(s, u, A), NumAgents)
         /\ ClaimAmount(s, u, A) \in Nat
<1>1. Part(s, u, A) \in [1..NumAgents -> Nat] /\ NumAgents \in Nat
  BY PayoutType, VaultConstants DEF Part, Agents
<1>2. ClaimAmount(s, u, A) = SumTo(Part(s, u, A), NumAgents)
  BY DEF ClaimAmount, Part
<1>3. SumTo(Part(s, u, A), NumAgents) \in Nat
  <2> HIDE DEF Part
  <2> QED BY <1>1, SumIsNat
<1> QED
  BY <1>1, <1>2, <1>3

\* The open parts of a season are numbers, and Unclaimed is their sum.
LEMMA OpenType ==
  ASSUME VaultTypeOK, NEW s \in Seasons
  PROVE  /\ Open(s) \in [1..NumUsers -> Nat] /\ NumUsers \in Nat
         /\ Unclaimed(s) = SumTo(Open(s), NumUsers) /\ Unclaimed(s) \in Nat
<1>1. Open(s) \in [1..NumUsers -> Nat] /\ NumUsers \in Nat
  BY PartType, VaultConstants DEF Open, Stakers
<1>2. Unclaimed(s) = SumTo(Open(s), NumUsers)
  BY DEF Unclaimed, Open
<1>3. SumTo(Open(s), NumUsers) \in Nat
  <2> HIDE DEF Open
  <2> QED BY <1>1, SumIsNat
<1> QED
  BY <1>1, <1>2, <1>3

\* All users together get no more than the season's pool, of all its agents.
LEMMA PoolCovers ==
  ASSUME VaultTypeOK, BooksAgree, Weighed, NEW s \in Seasons
  PROVE  Unclaimed(s) <= totalSeasonPool[s]
<1> DEFINE byAgent == [a \in 1..NumAgents |-> [u \in 1..NumUsers |-> Payout(s, a, u)]]
           byUser  == [u \in 1..NumUsers |-> [a \in 1..NumAgents |-> Payout(s, a, u)]]
           ofAgent == [a \in 1..NumAgents |-> SumTo(byAgent[a], NumUsers)]
           ofUser  == [u \in 1..NumUsers |-> SumTo(byUser[u], NumAgents)]
           w == seasonWeight[s]
           P == totalSeasonPool[s]
<1>1. /\ NumUsers \in Nat /\ NumAgents \in Nat /\ WAD \in Nat \ {0}
      /\ Stakers = 1..NumUsers /\ Agents = 1..NumAgents
      /\ w \in [1..NumAgents -> Nat] /\ P \in Nat /\ SumTo(w, NumAgents) <= WAD
  BY VaultConstants DEF VaultTypeOK, Weighed, Agents, Stakers
<1>2. \A a \in 1..NumAgents, u \in 1..NumUsers : Payout(s, a, u) \in Nat
  BY <1>1, PayoutType
<1>3. /\ byAgent \in [1..NumAgents -> [1..NumUsers -> Nat]]
      /\ byUser \in [1..NumUsers -> [1..NumAgents -> Nat]]
      /\ \A i \in 1..NumUsers, j \in 1..NumAgents : byAgent[j][i] = byUser[i][j]
      /\ \A i \in 1..NumUsers, j \in 1..NumAgents : byUser[i][j] = Payout(s, j, i)
  BY <1>2
<1>4. ofAgent \in [1..NumAgents -> Nat]
  <2>1. \A a \in 1..NumAgents : SumTo(byAgent[a], NumUsers) \in Nat
    <3> HIDE DEF byAgent
    <3> TAKE a \in 1..NumAgents
    <3>1. byAgent[a] \in [1..NumUsers -> Nat]
      BY <1>3
    <3> QED BY <1>1, <3>1, SumIsNat
  <2> QED BY <2>1
<1>5. ofUser \in [1..NumUsers -> Nat]
  <2>1. \A u \in 1..NumUsers : SumTo(byUser[u], NumAgents) \in Nat
    <3> HIDE DEF byUser
    <3> TAKE u \in 1..NumUsers
    <3>1. byUser[u] \in [1..NumAgents -> Nat]
      BY <1>3
    <3> QED BY <1>1, <3>1, SumIsNat
  <2> QED BY <2>1
<1>6. /\ \A i \in 1..NumUsers : ofUser[i] = SumTo(byUser[i], NumAgents)
      /\ \A j \in 1..NumAgents : ofAgent[j] = SumTo(byAgent[j], NumUsers)
  OBVIOUS
<1>7. \A a \in 1..NumAgents : WAD * ofAgent[a] <= P * w[a]
  <2> TAKE a \in 1..NumAgents
  <2>1. byAgent[a] \in [Stakers -> Nat] /\ \A u \in Stakers : byAgent[a][u] = Payout(s, a, u)
    BY <1>1, <1>2
  <2>2. ofAgent[a] = SumTo(byAgent[a], NumUsers)
    OBVIOUS
  <2> HIDE DEF byAgent, ofAgent
  <2> QED BY <1>1, <2>1, <2>2, PayoutsOfAgent
<1>8. SumTo(ofUser, NumUsers) = SumTo(ofAgent, NumAgents)
  <2>1. byUser \in [1..NumUsers -> [1..NumAgents -> Nat]]
    BY <1>3
  <2>2. byAgent \in [1..NumAgents -> [1..NumUsers -> Nat]]
    BY <1>3
  <2>3. \A i \in 1..NumUsers, j \in 1..NumAgents : byAgent[j][i] = byUser[i][j]
    BY <1>3
  <2>4. \A i \in 1..NumUsers : ofUser[i] = SumTo(byUser[i], NumAgents)
    BY <1>6
  <2>5. \A j \in 1..NumAgents : ofAgent[j] = SumTo(byAgent[j], NumUsers)
    BY <1>6
  <2>6. NumUsers \in Nat /\ NumAgents \in Nat
    BY <1>1
  <2> HIDE DEF byAgent, byUser, ofAgent, ofUser
  <2> QED BY <1>4, <1>5, <2>1, <2>2, <2>3, <2>4, <2>5, <2>6, SumSwap
<1>9. Unclaimed(s) <= SumTo(ofUser, NumUsers)
  <2>1. \A u \in 1..NumUsers : Open(s)[u] <= ofUser[u]
    <3> TAKE u \in 1..NumUsers
    <3>1. u \in Stakers /\ byUser[u] \in [1..NumAgents -> Nat]
      BY <1>1, <1>3
    <3>2. /\ Part(s, u, Agents) \in [1..NumAgents -> Nat]
          /\ ClaimAmount(s, u, Agents) = SumTo(Part(s, u, Agents), NumAgents)
      BY <3>1, PartType
    <3>3. \A a \in 1..NumAgents : Part(s, u, Agents)[a] <= byUser[u][a]
      BY <1>1, <1>2, <1>3 DEF Part
    <3>4. SumTo(Part(s, u, Agents), NumAgents) <= SumTo(byUser[u], NumAgents)
      <4> HIDE DEF byUser
      <4> QED BY <1>1, <3>1, <3>2, <3>3, SumLeq
    <3>5. Open(s)[u] \in {0, ClaimAmount(s, u, Agents)}
      BY <3>1 DEF Open
    <3>6. ofUser[u] = SumTo(byUser[u], NumAgents) /\ ofUser[u] \in Nat
      BY <1>5
    <3> HIDE DEF ofUser, byUser
    <3> QED BY <3>2, <3>4, <3>5, <3>6
  <2> HIDE DEF ofUser
  <2> QED BY <1>5, <2>1, OpenType, SumLeq
<1> HIDE DEF byAgent, byUser, ofAgent, ofUser
<1> DEFINE left  == [a \in 1..NumAgents |-> WAD * ofAgent[a]]
           right == [a \in 1..NumAgents |-> P * w[a]]
<1>10. left \in [1..NumAgents -> Nat] /\ right \in [1..NumAgents -> Nat]
  <2> HIDE DEF w, P
  <2> QED BY <1>1, <1>4, Product
<1>11. /\ \A a \in 1..NumAgents : left[a] <= right[a]
       /\ \A a \in 1..NumAgents : left[a] = WAD * ofAgent[a]
       /\ \A a \in 1..NumAgents : right[a] = P * w[a]
  BY <1>7
<1> HIDE DEF left, right, w, P
<1>12. SumTo(left, NumAgents) = WAD * SumTo(ofAgent, NumAgents)
  BY <1>1, <1>4, <1>10, <1>11, SumScaled
<1>13. SumTo(right, NumAgents) = P * SumTo(w, NumAgents)
  BY <1>1, <1>10, <1>11, SumScaled
<1>14. SumTo(left, NumAgents) <= SumTo(right, NumAgents)
  BY <1>1, <1>10, <1>11, SumLeq
<1>15. SumTo(ofAgent, NumAgents) \in Nat /\ SumTo(w, NumAgents) \in Nat
  BY <1>1, <1>4, SumIsNat
<1>16. SumTo(ofAgent, NumAgents) <= P
  <2>1. \A x, y, z \in Nat : WAD * x <= y * z /\ z <= WAD => x <= y
    <3> TAKE x, y, z \in Nat
    <3>1. ASSUME z <= WAD PROVE y * z <= y * WAD
      BY <3>1, <1>1
    <3>2. y * WAD = WAD * y
      BY <1>1
    <3>3. ASSUME WAD * x <= WAD * y PROVE x <= y
      <4>1. \A p, q \in Nat : p < q => WAD * p < WAD * q
        BY <1>1
      <4>2. WAD * x \in Nat /\ WAD * y \in Nat
        BY <1>1, Product
      <4> QED BY <3>3, <4>1, <4>2
    <3>4. WAD * x \in Nat /\ WAD * y \in Nat /\ y * z \in Nat
      BY <1>1, Product
    <3> QED BY <3>1, <3>2, <3>3, <3>4
  <2> QED BY <2>1, <1>1, <1>12, <1>13, <1>14, <1>15
<1>17. Unclaimed(s) \in Nat /\ P \in Nat /\ P = totalSeasonPool[s]
  BY <1>1, OpenType DEF P
<1> QED
  BY <1>8, <1>9, <1>16, <1>15, <1>17

-----------------------------------------------------------------------------
(* The weights that a settlement leaves.                                   *)

\* The entry whose weight an agent keeps.
Last(entries, a) ==
  CHOOSE i \in 1..Len(entries) :
    /\ entries[i].agent = a
    /\ \A j \in (i + 1)..Len(entries) : entries[j].agent # a

\* The lists of entries are functions on their indexes.
LEMMA EntriesType ==
  ASSUME NEW entries \in Settlements
  PROVE  /\ Len(entries) \in Nat /\ entries \in [1..Len(entries) -> Entry]
         /\ \A i \in 1..Len(entries) : entries[i].agent \in 1..NumAgents
                                      /\ entries[i].weight \in Nat
<1>1. PICK n \in 0..MaxEntries : entries \in [1..n -> Entry]
  BY DEF Settlements
<1>2. n \in Nat /\ WAD \in Nat
  BY VaultConstants
<1>3. entries \in Seq(Entry)
  BY <1>1, <1>2, SeqDef
<1>4. Len(entries) \in Nat /\ entries \in [1..Len(entries) -> Entry]
  BY <1>3, LenProperties
<1>5. \A i \in 1..Len(entries) : entries[i] \in Entry
  BY <1>4
<1> QED
  BY <1>2, <1>4, <1>5 DEF Entry, Agents

\* An agent that is named has a last entry.
LEMMA LastExists ==
  ASSUME NEW entries \in Settlements, NEW a \in Named(entries)
  PROVE  /\ Last(entries, a) \in 1..Len(entries)
         /\ entries[Last(entries, a)].agent = a
         /\ LastWeight(entries, a) = entries[Last(entries, a)].weight
<1> DEFINE n == Len(entries)
           T == {k \in Nat : k < n /\ entries[n - k].agent = a}
<1>1. n \in Nat
  BY EntriesType
<1>2. PICK i \in 1..n : entries[i].agent = a
  BY DEF Named
<1>3. n - i \in T
  BY <1>1, <1>2
<1>4. PICK m \in T : \A k \in T : m <= k
  <2>1. T \subseteq Nat /\ T # {}
    BY <1>3
  <2> HIDE DEF T
  <2> QED BY <2>1, LeastElement
<1>5. n - m \in 1..n /\ entries[n - m].agent = a
  BY <1>1, <1>4
<1>6. ASSUME NEW j \in (n - m + 1)..n, entries[j].agent = a PROVE FALSE
  <2>1. j \in 1..n /\ n - j \in Nat /\ n - j < m /\ n - (n - j) = j
    BY <1>1, <1>5, <1>6
  <2>2. n - j \in T
    BY <1>1, <1>6, <2>1
  <2> QED BY <1>4, <2>1, <2>2
<1>7. \E l \in 1..Len(entries) : /\ entries[l].agent = a
                                 /\ \A j \in (l + 1)..Len(entries) : entries[j].agent # a
  BY <1>5, <1>6
<1>8. Last(entries, a) \in 1..Len(entries) /\ entries[Last(entries, a)].agent = a
  BY <1>7 DEF Last
<1> QED
  BY <1>8 DEF Last, LastWeight

\* The weights that are kept add up to no more than what was added up: a repeated
\* agent counts in full and keeps its last weight.
LEMMA WeightsWithinTotal ==
  ASSUME NEW entries \in Settlements, NEW w \in [1..NumAgents -> Nat],
         \A a \in 1..NumAgents :
           w[a] = IF a \in Named(entries) THEN LastWeight(entries, a) ELSE 0
  PROVE  SumTo(w, NumAgents) <= EntriesTotal(entries)
<1> DEFINE n == Len(entries)
           all == [i \in 1..n |-> entries[i].weight]
           Kept(k) == [i \in 1..n |->
                         IF entries[i].agent <= k /\ i = Last(entries, entries[i].agent)
                         THEN entries[i].weight ELSE 0]
           T == {k \in Nat : k <= NumAgents => SumTo(w, k) = SumTo(Kept(k), n)}
<1>1. /\ n \in Nat /\ NumAgents \in Nat
      /\ \A i \in 1..n : entries[i].agent \in 1..NumAgents /\ entries[i].weight \in Nat
  BY EntriesType, VaultConstants
<1>2. all \in [1..n -> Nat] /\ \A k \in Nat : Kept(k) \in [1..n -> Nat]
  BY <1>1
<1>3. /\ SumTo(w, 0) = 0
      /\ \A k \in Nat : SumTo(w, k + 1) = SumTo(w, k) + Summand(w, k + 1)
      /\ \A k \in Nat : SumTo(w, k) \in Nat
  <2>1. \A k \in Nat : Summand(w, k) \in Nat
    BY DEF Summand
  <2> QED BY <2>1, SumEquation
<1>4. 0 \in T
  <2>1. \A i \in 1..n : Kept(0)[i] = 0
    BY <1>1
  <2>2. \A k \in Nat : Summand(Kept(0), k) = 0
    BY <2>1 DEF Summand
  <2> HIDE DEF Kept
  <2>3. SumTo(Kept(0), n) = 0
    BY <1>1, <2>2, SumOfZeros
  <2> QED BY <1>3, <2>3
<1>5. ASSUME NEW k \in Nat, k \in T PROVE k + 1 \in T
  <2> SUFFICES ASSUME k + 1 <= NumAgents PROVE SumTo(w, k + 1) = SumTo(Kept(k + 1), n)
    OBVIOUS
  <2>1. k + 1 \in 1..NumAgents /\ k + 1 \in Nat /\ k <= NumAgents
    BY <1>1
  <2>2. SumTo(w, k + 1) = SumTo(w, k) + w[k + 1]
    BY <1>3, <2>1 DEF Summand
  <2>3. SumTo(w, k) = SumTo(Kept(k), n)
    BY <1>5, <2>1
  <2>4. Kept(k) \in [1..n -> Nat] /\ Kept(k + 1) \in [1..n -> Nat]
    BY <1>2, <2>1
  <2>5. CASE k + 1 \in Named(entries)
    <3> DEFINE t == Last(entries, k + 1)
    <3>1. t \in 1..n /\ entries[t].agent = k + 1 /\ w[k + 1] = entries[t].weight
      BY <2>1, <2>5, LastExists
    <3>2. Kept(k)[t] = 0 /\ Kept(k + 1)[t] = w[k + 1]
      BY <1>1, <2>1, <3>1
    <3>3. \A i \in 1..n : i # t => Kept(k)[i] = Kept(k + 1)[i]
      <4> TAKE i \in 1..n
      <4> HAVE i # t
      <4>1. CASE entries[i].agent = k + 1
        BY <4>1, <1>1, <2>1
      <4>2. CASE entries[i].agent # k + 1
        <5>1. entries[i].agent \in Nat
          BY <1>1
        <5>2. (entries[i].agent <= k + 1) <=> (entries[i].agent <= k)
          BY <4>2, <5>1
        <5> QED BY <5>2
      <4> QED BY <4>1, <4>2
    <3> HIDE DEF Kept, t
    <3>4. SumTo(Kept(k + 1), n) + Kept(k)[t] = SumTo(Kept(k), n) + Kept(k + 1)[t]
      BY <1>1, <2>4, <3>1, <3>3, SumChange
    <3>5. SumTo(Kept(k + 1), n) \in Nat
      BY <1>1, <2>4, SumIsNat
    <3> QED BY <2>2, <2>3, <3>2, <3>4, <3>5
  <2>6. CASE k + 1 \notin Named(entries)
    <3>1. w[k + 1] = 0 /\ SumTo(w, k) \in Nat
      BY <2>1, <2>6, <1>3
    <3>2. \A i \in 1..n : entries[i].agent # k + 1
      BY <2>6 DEF Named
    <3>3. \A i \in 1..n : Kept(k)[i] = Kept(k + 1)[i]
      <4> TAKE i \in 1..n
      <4>1. entries[i].agent \in Nat /\ entries[i].agent # k + 1
        BY <1>1, <3>2
      <4>2. (entries[i].agent <= k + 1) <=> (entries[i].agent <= k)
        BY <4>1
      <4> QED BY <4>2
    <3> HIDE DEF Kept
    <3>4. SumTo(Kept(k), n) = SumTo(Kept(k + 1), n)
      BY <1>1, <2>4, <3>3, SumSame
    <3> QED BY <2>2, <2>3, <3>1, <3>4
  <2> QED BY <2>5, <2>6
<1> HIDE DEF T
<1>6. NumAgents \in T
  BY <1>1, <1>4, <1>5, SetInduction
<1>7. SumTo(w, NumAgents) = SumTo(Kept(NumAgents), n)
  BY <1>1, <1>6 DEF T
<1>8. \A i \in 1..n : Kept(NumAgents)[i] <= all[i]
  BY <1>1
<1>9. EntriesTotal(entries) = SumTo(all, n)
  BY DEF EntriesTotal
<1>10. Kept(NumAgents) \in [1..n -> Nat]
  BY <1>1, <1>2
<1> HIDE DEF Kept, all
<1>11. SumTo(Kept(NumAgents), n) <= SumTo(all, n)
  BY <1>1, <1>2, <1>8, <1>10, SumLeq
<1> QED
  BY <1>7, <1>9, <1>11

-----------------------------------------------------------------------------
(* What holds of the sums in every typed state, and so before and after a  *)
(* step.                                                                   *)
Sums ==
  /\ Owed \in [1..NumSeasons -> Nat]
  /\ \A s \in Seasons :
       /\ Open(s) \in [1..NumUsers -> Nat]
       /\ Unclaimed(s) = SumTo(Open(s), NumUsers)
       /\ Unclaimed(s) \in Nat
  /\ \A s \in Seasons, u \in Stakers, A \in SUBSET Agents :
       /\ Part(s, u, A) \in [1..NumAgents -> Nat]
       /\ ClaimAmount(s, u, A) = SumTo(Part(s, u, A), NumAgents)
       /\ ClaimAmount(s, u, A) \in Nat
  /\ \A s \in Seasons, u \in Stakers : Marked(s, u) \in [1..NumAgents -> Nat]
  /\ \A s \in Seasons, a \in Agents, u \in Stakers :
       /\ Payout(s, a, u) \in Nat
       /\ Payout(s, a, u) > 0 => userStake[s][a][u] > 0 /\ seasonWeight[s][a] # 0

\* Types make the sums numbers.
LEMMA SumsHold == VaultTypeOK => Sums
<1> SUFFICES ASSUME VaultTypeOK PROVE Sums
  OBVIOUS
<1>1. \A s \in Seasons : /\ Open(s) \in [1..NumUsers -> Nat]
                         /\ Unclaimed(s) = SumTo(Open(s), NumUsers)
                         /\ Unclaimed(s) \in Nat
  BY OpenType
<1>2. Owed \in [1..NumSeasons -> Nat]
  BY <1>1 DEF Owed, VaultTypeOK, Seasons
<1>3. \A s \in Seasons, u \in Stakers, A \in SUBSET Agents :
        /\ Part(s, u, A) \in [1..NumAgents -> Nat]
        /\ ClaimAmount(s, u, A) = SumTo(Part(s, u, A), NumAgents)
        /\ ClaimAmount(s, u, A) \in Nat
  BY PartType
<1>4. \A s \in Seasons, a \in Agents, u \in Stakers :
        /\ Payout(s, a, u) \in Nat
        /\ Payout(s, a, u) > 0 => userStake[s][a][u] > 0 /\ seasonWeight[s][a] # 0
  BY PayoutType
<1>5. \A s \in Seasons, u \in Stakers : Marked(s, u) \in [1..NumAgents -> Nat]
  BY <1>4 DEF Marked, Agents
<1> QED
  BY <1>1, <1>2, <1>3, <1>4, <1>5 DEF Sums

\* The same of the next state.
LEMMA SumsNext == VaultTypeOK' => Sums'
BY SumsHold, PTL

\* No season's open parts exceed its pool.
PoolsCover == \A s \in Seasons : Unclaimed(s) <= totalSeasonPool[s]

\* Books and weights keep what is open within the pool, after a step as before it.
LEMMA PoolsHold == VaultTypeOK /\ BooksAgree /\ Weighed => PoolsCover
BY PoolCovers DEF PoolsCover

\* The same of the next state.
LEMMA PoolsNext == VaultTypeOK' /\ BooksAgree' /\ Weighed' => PoolsCover'
BY PoolsHold, PTL

\* PaidExactlyClaimed, with its sum named.
Paid ==
  \A s \in Seasons, u \in Stakers : received[s][u] = SumTo(Marked(s, u), NumAgents)

\* It is the same statement, before a step and after it.
LEMMA PaidIsExact == (PaidExactlyClaimed <=> Paid) /\ (PaidExactlyClaimed <=> Paid)'
BY DEF PaidExactlyClaimed, Paid, Marked

\* The storage that a season's payouts are computed from.
SameSeason(s) ==
  /\ userStake'[s] = userStake[s] /\ totalStake'[s] = totalStake[s]
  /\ totalSeasonPool'[s] = totalSeasonPool[s] /\ seasonSettled'[s] = seasonSettled[s]
  /\ seasonWeight'[s] = seasonWeight[s]
  /\ userClaimed'[s] = userClaimed[s] /\ agentClaimed'[s] = agentClaimed[s]

\* Payouts depend on nothing else.
LEMMA PayoutKept ==
  ASSUME NEW s \in Seasons, SameSeason(s)
  PROVE  \A a \in Agents, u \in Stakers : Payout(s, a, u)' = Payout(s, a, u)
BY DEF Payout, SameSeason

\* A season that a call does not touch owes what it owed.
LEMMA SeasonKept ==
  ASSUME VaultTypeOK, VaultTypeOK', NEW s \in Seasons, SameSeason(s)
  PROVE  /\ Owed'[s] = Owed[s]
         /\ \A u \in Stakers :
              SumTo(Marked(s, u)', NumAgents) = SumTo(Marked(s, u), NumAgents)
<1>1. \A a \in Agents, u \in Stakers : Payout(s, a, u)' = Payout(s, a, u)
  BY PayoutKept
<1>2. \A u \in Stakers : Marked(s, u)' = Marked(s, u)
  BY <1>1 DEF Marked, SameSeason
<1>3. \A u \in Stakers : Part(s, u, Agents)' = Part(s, u, Agents)
  BY <1>1 DEF Part, Payable, SameSeason
<1>4. \A u \in Stakers : ClaimAmount(s, u, Agents)' = ClaimAmount(s, u, Agents)
  <2>1. Sums /\ Sums'
    BY SumsHold, SumsNext
  <2>2. \A u \in Stakers :
          /\ ClaimAmount(s, u, Agents) = SumTo(Part(s, u, Agents), NumAgents)
          /\ ClaimAmount(s, u, Agents)' = SumTo(Part(s, u, Agents)', NumAgents)
    BY <2>1 DEF Sums
  <2> QED BY <1>3, <2>2
<1>5. Open(s)' = Open(s)
  BY <1>4 DEF Open, SameSeason
<1>6. Unclaimed(s)' = Unclaimed(s)
  <2>1. Unclaimed(s) = SumTo(Open(s), NumUsers)
    BY SumsHold DEF Sums
  <2>2. Unclaimed(s)' = SumTo(Open(s)', NumUsers)
    BY SumsNext DEF Sums
  <2> QED BY <1>5, <2>1, <2>2
<1> QED
  BY <1>2, <1>6 DEF Owed, SameSeason

\* If one season's debt grows by no more than the balance does, the balance covers.
LEMMA CoversKept ==
  ASSUME VaultTypeOK, VaultTypeOK', VaultCovers, NEW s \in Seasons,
         \A t \in Seasons : t # s => Owed'[t] = Owed[t],
         vaultBal' + Owed[s] >= vaultBal + Owed'[s]
  PROVE  VaultCovers'
<1>1. Owed \in [1..NumSeasons -> Nat] /\ Owed' \in [1..NumSeasons -> Nat]
  BY SumsHold, SumsNext DEF Sums
<1>2. NumSeasons \in Nat /\ Seasons = 1..NumSeasons
  BY VaultConstants DEF Seasons
<1>3. \A t \in 1..NumSeasons : t # s => Owed[t] = Owed'[t]
  BY <1>2
<1> HIDE DEF Owed
<1>4. SumTo(Owed', NumSeasons) + Owed[s] = SumTo(Owed, NumSeasons) + Owed'[s]
  BY <1>1, <1>2, <1>3, SumChange
<1>5. SumTo(Owed, NumSeasons) \in Nat /\ SumTo(Owed', NumSeasons) \in Nat
  BY <1>1, <1>2, SumIsNat
<1>6. Owed[s] \in Nat /\ Owed'[s] \in Nat /\ vaultBal \in Nat /\ vaultBal' \in Nat
  BY <1>1, <1>2 DEF VaultTypeOK
<1>7. vaultBal >= SumTo(Owed, NumSeasons)
  BY DEF VaultCovers
<1>8. vaultBal' >= SumTo(Owed', NumSeasons)
  BY <1>4, <1>5, <1>6, <1>7
<1> QED
  BY <1>8 DEF VaultCovers

-----------------------------------------------------------------------------
(* The calls.                                                              *)

\* Deployment: nothing is staked, owed or paid.
LEMMA VaultInvInit == VaultInit => VaultInv
<1> SUFFICES ASSUME VaultInit PROVE VaultInv
  OBVIOUS
<1>1. VaultTypeOK
  BY VaultConstants DEF VaultInit, VaultTypeOK
<1>2. /\ NumUsers \in Nat /\ NumAgents \in Nat /\ NumSeasons \in Nat
      /\ Stakers = 1..NumUsers /\ Agents = 1..NumAgents /\ Seasons = 1..NumSeasons
      /\ WAD \in Nat /\ MaxAgentsPerSeason \in Nat
  BY VaultConstants DEF Stakers, Agents, Seasons
<1>3. Fresh /\ Listed
  BY DEF VaultInit, Fresh, Listed
<1>4. Weighed
  <2> SUFFICES ASSUME NEW t \in Seasons PROVE SumTo(seasonWeight[t], NumAgents) <= WAD
    BY DEF Weighed
  <2>1. \A k \in Nat : Summand(seasonWeight[t], k) = 0
    BY DEF VaultInit, Summand
  <2>2. SumTo(seasonWeight[t], NumAgents) = 0
    BY <1>2, <2>1, SumOfZeros
  <2> QED BY <1>2, <2>2
<1>5. BooksAgree
  <2> SUFFICES ASSUME NEW t \in Seasons
               PROVE  /\ totalSeasonPool[t] = SumTo(totalStake[t], NumAgents)
                      /\ \A a \in Agents : totalStake[t][a] = SumTo(userStake[t][a], NumUsers)
    BY DEF BooksAgree
  <2>1. \A k \in Nat : Summand(totalStake[t], k) = 0
    BY DEF VaultInit, Summand
  <2>2. \A a \in Agents : \A k \in Nat : Summand(userStake[t][a], k) = 0
    BY DEF VaultInit, Summand
  <2>3. SumTo(totalStake[t], NumAgents) = 0
    BY <1>2, <2>1, SumOfZeros
  <2>4. \A a \in Agents : SumTo(userStake[t][a], NumUsers) = 0
    BY <1>2, <2>2, SumOfZeros
  <2> QED BY <2>3, <2>4 DEF VaultInit
<1>6. VaultCovers
  <2>1. \A k \in Nat : Summand(Owed, k) = 0
    BY DEF VaultInit, Summand, Owed
  <2>2. SumTo(Owed, NumSeasons) = 0
    <3> HIDE DEF Owed
    <3> QED BY <1>2, <2>1, SumOfZeros
  <2> QED BY <2>2 DEF VaultInit, VaultCovers
<1>7. PaidExactlyClaimed
  <2> SUFFICES Paid
    BY PaidIsExact
  <2> SUFFICES ASSUME NEW t \in Seasons, NEW u \in Stakers
               PROVE  received[t][u] = SumTo(Marked(t, u), NumAgents)
    BY DEF Paid
  <2>1. \A k \in Nat : Summand(Marked(t, u), k) = 0
    BY DEF VaultInit, Summand, Marked
  <2>2. SumTo(Marked(t, u), NumAgents) = 0
    <3> HIDE DEF Marked
    <3> QED BY <1>2, <2>1, SumOfZeros
  <2> QED BY <2>2 DEF VaultInit
<1>8. ClaimLeavesNothing
  BY DEF VaultInit, ClaimLeavesNothing
<1>9. AgentListBounded
  BY <1>2, FS_EmptySet DEF VaultInit, AgentListBounded
<1> QED
  BY <1>1, <1>3, <1>4, <1>5, <1>6, <1>7, <1>8, <1>9 DEF VaultInv, VaultSound

\* The list of agents grows only while it has room.
LEMMA ListKept ==
  ASSUME AgentListBounded, NEW s \in Seasons, NEW seen, HasRoom(s, seen),
         seasonAgents \in [Seasons -> SUBSET Agents],
         seasonAgents' = [seasonAgents EXCEPT ![s] = Registered(s, seen)]
  PROVE  AgentListBounded'
<1> SUFFICES ASSUME NEW t \in Seasons
             PROVE  Cardinality(seasonAgents'[t]) <= MaxAgentsPerSeason
  BY DEF AgentListBounded
<1>1. CASE t # s
  BY <1>1 DEF AgentListBounded
<1>2. CASE t = s
  <2>1. seasonAgents'[t] = seasonAgents[s] \cup seen
    BY <1>2 DEF Registered
  <2>2. CASE seen \subseteq seasonAgents[s]
    <3>1. seasonAgents'[t] = seasonAgents[s]
      BY <2>1, <2>2
    <3> QED BY <3>1 DEF AgentListBounded
  <2>3. CASE Cardinality(Registered(s, seen)) <= MaxAgentsPerSeason
    BY <2>1, <2>3 DEF Registered
  <2> QED BY <2>2, <2>3 DEF HasRoom
<1> QED
  BY <1>1, <1>2

\* What stake changes.
LEMMA StakeSteps ==
  ASSUME VaultTypeOK, NEW u \in Stakers, NEW s \in Seasons, NEW a \in Agents,
         NEW amount \in StakeAmounts, Stake(u, s, a, amount)
  PROVE  /\ ~seasonSettled[s] /\ amount \in Nat
         /\ vaultBal' = vaultBal + amount
         /\ totalSeasonPool'[s] = totalSeasonPool[s] + amount
         /\ totalStake'[s][a] = totalStake[s][a] + amount
         /\ userStake'[s][a][u] = userStake[s][a][u] + amount
         /\ a \in seasonAgents'[s] /\ \A t \in Seasons : seasonAgents[t] \subseteq seasonAgents'[t]
         /\ \A b \in Agents : b # a => totalStake'[s][b] = totalStake[s][b]
                                       /\ userStake'[s][b] = userStake[s][b]
         /\ \A v \in Stakers : v # u => userStake'[s][a][v] = userStake[s][a][v]
         /\ \A t \in Seasons : t # s => SameSeason(t)
         /\ UNCHANGED <<seasonSettled, seasonWeight, userClaimed, agentClaimed, roleVars, received>>
         /\ VaultTypeOK'
<1>1. /\ amount \in Nat /\ wallet[u] >= amount /\ wallet[u] \in Nat
      /\ ~seasonSettled[s]
      /\ wallet' = [wallet EXCEPT ![u] = @ - amount]
      /\ vaultBal' = vaultBal + amount
      /\ seasonAgents' = [seasonAgents EXCEPT ![s] = Registered(s, {a})]
      /\ totalStake' = [totalStake EXCEPT ![s][a] = @ + amount]
      /\ userStake' = [userStake EXCEPT ![s][a][u] = @ + amount]
      /\ totalSeasonPool' = [totalSeasonPool EXCEPT ![s] = @ + amount]
      /\ UNCHANGED <<seasonSettled, seasonWeight, userClaimed, agentClaimed, roleVars, received>>
  BY VaultConstants DEF Stake, MayStake, TakesStake, Added, VaultTypeOK
<1>2. wallet' \in [Stakers -> Nat] /\ vaultBal' \in Nat
  BY <1>1 DEF VaultTypeOK
<1>3. seasonAgents' \in [Seasons -> SUBSET Agents] /\ totalSeasonPool' \in [Seasons -> Nat]
  BY <1>1 DEF VaultTypeOK, Registered
<1>4. totalStake' \in [Seasons -> [Agents -> Nat]]
  BY <1>1 DEF VaultTypeOK
<1>5. userStake' \in [Seasons -> [Agents -> [Stakers -> Nat]]]
  BY <1>1 DEF VaultTypeOK
<1>6. VaultTypeOK'
  BY <1>1, <1>2, <1>3, <1>4, <1>5 DEF VaultTypeOK, roleVars
<1>7. /\ totalSeasonPool'[s] = totalSeasonPool[s] + amount
      /\ totalStake'[s][a] = totalStake[s][a] + amount
      /\ userStake'[s][a][u] = userStake[s][a][u] + amount
  BY <1>1 DEF VaultTypeOK
<1>8. a \in seasonAgents'[s] /\ \A t \in Seasons : seasonAgents[t] \subseteq seasonAgents'[t]
  BY <1>1 DEF VaultTypeOK, Registered
<1>9. /\ \A b \in Agents : b # a => totalStake'[s][b] = totalStake[s][b]
                                    /\ userStake'[s][b] = userStake[s][b]
      /\ \A v \in Stakers : v # u => userStake'[s][a][v] = userStake[s][a][v]
  BY <1>1 DEF VaultTypeOK
<1>10. \A t \in Seasons : t # s => SameSeason(t)
  BY <1>1 DEF VaultTypeOK, SameSeason
<1> QED
  BY <1>1, <1>6, <1>7, <1>8, <1>9, <1>10

\* A stake is added at all three levels, and what the season owes grows as the balance.
LEMMA StakeInv ==
  ASSUME VaultInv, NEW u \in Stakers, NEW s \in Seasons, NEW a \in Agents,
         NEW amount \in StakeAmounts, Stake(u, s, a, amount)
  PROVE  VaultInv'
<1> USE DEF VaultInv, VaultSound
<1>1. /\ ~seasonSettled[s] /\ amount \in Nat
      /\ vaultBal' = vaultBal + amount
      /\ totalSeasonPool'[s] = totalSeasonPool[s] + amount
      /\ totalStake'[s][a] = totalStake[s][a] + amount
      /\ userStake'[s][a][u] = userStake[s][a][u] + amount
      /\ a \in seasonAgents'[s] /\ \A t \in Seasons : seasonAgents[t] \subseteq seasonAgents'[t]
      /\ \A b \in Agents : b # a => totalStake'[s][b] = totalStake[s][b]
                                    /\ userStake'[s][b] = userStake[s][b]
      /\ \A v \in Stakers : v # u => userStake'[s][a][v] = userStake[s][a][v]
      /\ \A t \in Seasons : t # s => SameSeason(t)
      /\ UNCHANGED <<seasonSettled, seasonWeight, userClaimed, agentClaimed, roleVars, received>>
      /\ VaultTypeOK'
  BY StakeSteps
<1>2. /\ NumUsers \in Nat /\ NumAgents \in Nat
      /\ Stakers = 1..NumUsers /\ Agents = 1..NumAgents
  BY VaultConstants DEF Stakers, Agents
<1>3. Fresh' /\ Weighed'
  BY <1>1 DEF Fresh, Weighed
<1>4. Listed'
  <2> SUFFICES ASSUME NEW t \in Seasons, NEW b \in Agents, NEW v \in Stakers,
                      userStake'[t][b][v] > 0
               PROVE  b \in seasonAgents'[t]
    BY DEF Listed
  <2>1. CASE t = s /\ b = a
    BY <1>1, <2>1
  <2>2. CASE t # s \/ b # a
    <3>1. userStake'[t][b][v] = userStake[t][b][v]
      BY <1>1, <2>2 DEF SameSeason
    <3> QED BY <1>1, <3>1 DEF Listed
  <2> QED BY <2>1, <2>2
<1>5. BooksAgree'
  <2> SUFFICES ASSUME NEW t \in Seasons
               PROVE  /\ totalSeasonPool'[t] = SumTo(totalStake'[t], NumAgents)
                      /\ \A b \in Agents : totalStake'[t][b] = SumTo(userStake'[t][b], NumUsers)
    BY DEF BooksAgree
  <2>1. CASE t # s
    BY <1>1, <2>1 DEF BooksAgree, SameSeason
  <2>2. CASE t = s
    <3>1. /\ totalStake[s] \in [1..NumAgents -> Nat] /\ totalStake'[s] \in [1..NumAgents -> Nat]
          /\ userStake[s][a] \in [1..NumUsers -> Nat] /\ userStake'[s][a] \in [1..NumUsers -> Nat]
      <4>1. totalStake[s] \in [Agents -> Nat] /\ userStake[s][a] \in [Stakers -> Nat]
        BY DEF VaultTypeOK
      <4>2. totalStake'[s] \in [Agents -> Nat] /\ userStake'[s][a] \in [Stakers -> Nat]
        <5>1. VaultTypeOK'
          BY <1>1
        <5> QED BY <5>1 DEF VaultTypeOK
      <4> QED BY <1>2, <4>1, <4>2
    <3>2. SumTo(totalStake'[s], NumAgents) + totalStake[s][a]
            = SumTo(totalStake[s], NumAgents) + totalStake'[s][a]
      <4>1. a \in 1..NumAgents
            /\ \A k \in 1..NumAgents : k # a => totalStake[s][k] = totalStake'[s][k]
        BY <1>1, <1>2
      <4> QED BY <1>2, <3>1, <4>1, SumChange
    <3>3. SumTo(userStake'[s][a], NumUsers) + userStake[s][a][u]
            = SumTo(userStake[s][a], NumUsers) + userStake'[s][a][u]
      <4>1. u \in 1..NumUsers
            /\ \A k \in 1..NumUsers : k # u => userStake[s][a][k] = userStake'[s][a][k]
        BY <1>1, <1>2
      <4> QED BY <1>2, <3>1, <4>1, SumChange
    <3>4. /\ SumTo(totalStake'[s], NumAgents) \in Nat /\ SumTo(totalStake[s], NumAgents) \in Nat
          /\ SumTo(userStake'[s][a], NumUsers) \in Nat /\ SumTo(userStake[s][a], NumUsers) \in Nat
      BY <1>2, <3>1, SumIsNat
    <3>5. /\ totalSeasonPool[s] = SumTo(totalStake[s], NumAgents)
          /\ totalStake[s][a] = SumTo(userStake[s][a], NumUsers)
          /\ totalStake[s][a] \in Nat /\ userStake[s][a][u] \in Nat
          /\ \A b \in Agents : totalStake[s][b] = SumTo(userStake[s][b], NumUsers)
      BY DEF BooksAgree, VaultTypeOK
    <3>6. totalSeasonPool'[s] = SumTo(totalStake'[s], NumAgents)
      BY <1>1, <3>2, <3>4, <3>5
    <3>7. totalStake'[s][a] = SumTo(userStake'[s][a], NumUsers)
      BY <1>1, <3>3, <3>4, <3>5
    <3>8. \A b \in Agents : totalStake'[s][b] = SumTo(userStake'[s][b], NumUsers)
      <4> TAKE b \in Agents
      <4>1. CASE b = a
        BY <4>1, <3>7
      <4>2. CASE b # a
        BY <4>2, <1>1, <3>5
      <4> QED BY <4>1, <4>2
    <3> QED BY <2>2, <3>6, <3>8
  <2> QED BY <2>1, <2>2
<1>6. \A t \in Seasons : t # s => Owed'[t] = Owed[t]
  BY <1>1, SeasonKept
<1>7. VaultCovers'
  <2>1. Owed[s] = totalSeasonPool[s] /\ Owed'[s] = totalSeasonPool'[s]
    BY <1>1 DEF Owed
  <2>2. vaultBal' + Owed[s] >= vaultBal + Owed'[s]
    BY <1>1, <2>1 DEF VaultTypeOK
  <2> QED BY <1>1, <1>6, <2>2, CoversKept
<1>8. PaidExactlyClaimed'
  <2> SUFFICES ASSUME NEW t \in Seasons, NEW v \in Stakers
               PROVE  received'[t][v] = SumTo(Marked(t, v)', NumAgents)
    BY PaidIsExact DEF Paid
  <2>1. received'[t][v] = SumTo(Marked(t, v), NumAgents)
    BY <1>1, PaidIsExact DEF Paid
  <2>2. CASE t # s
    <3>1. SumTo(Marked(t, v)', NumAgents) = SumTo(Marked(t, v), NumAgents)
      BY <1>1, <2>2, SeasonKept
    <3> QED BY <2>1, <3>1
  <2>3. CASE t = s
    <3>1. \A b \in Agents : ~agentClaimed[s][b][v] /\ ~agentClaimed'[s][b][v]
      BY <1>1 DEF Fresh
    <3>2. Marked(s, v)' = Marked(s, v)
      BY <3>1 DEF Marked
    <3> QED BY <2>1, <2>3, <3>2
  <2> QED BY <2>2, <2>3
<1>9. ClaimLeavesNothing'
  <2> SUFFICES ASSUME NEW t \in Seasons, NEW v \in Stakers, userClaimed'[t][v],
                      NEW b \in Agents, (Payout(t, b, v) > 0)'
               PROVE  agentClaimed'[t][b][v]
    BY DEF ClaimLeavesNothing
  <2>1. t # s
    BY <1>1 DEF Fresh
  <2>2. Payout(t, b, v)' = Payout(t, b, v)
    BY <1>1, <2>1, PayoutKept
  <2> QED BY <1>1, <2>2 DEF ClaimLeavesNothing
<1>10. AgentListBounded'
  BY ListKept DEF Stake, VaultTypeOK
<1> QED
  BY <1>1, <1>3, <1>4, <1>5, <1>7, <1>8, <1>9, <1>10

\* What a settlement changes: the season has weights from then on, and they add up to
\* no more than the whole.
LEMMA SettleSteps ==
  ASSUME VaultTypeOK, Fresh, Weighed, NEW caller, NEW s \in Seasons, NEW entries \in Settlements,
         SetSeasonWeights(caller, s, entries)
  PROVE  /\ ~seasonSettled[s] /\ seasonSettled'[s]
         /\ \A t \in Seasons : seasonAgents[t] \subseteq seasonAgents'[t]
         /\ \A t \in Seasons : t # s => SameSeason(t)
         /\ UNCHANGED <<vaultBal, wallet, userStake, totalStake, totalSeasonPool,
                        userClaimed, agentClaimed, roleVars, received>>
         /\ Weighed' /\ VaultTypeOK'
<1>1. /\ ~seasonSettled[s] /\ EntriesTotal(entries) = WAD
      /\ seasonAgents' = [seasonAgents EXCEPT ![s] = Registered(s, Named(entries))]
      /\ seasonWeight' = [seasonWeight EXCEPT ![s] =
           [a \in Agents |-> IF a \in Named(entries) THEN LastWeight(entries, a)
                                                     ELSE @[a]]]
      /\ seasonSettled' = [seasonSettled EXCEPT ![s] = TRUE]
      /\ UNCHANGED <<vaultBal, wallet, userStake, totalStake, totalSeasonPool,
                     userClaimed, agentClaimed, roleVars, received>>
  BY DEF SetSeasonWeights, MaySetWeights
<1>2. \A i \in 1..Len(entries) : entries[i].agent \in Agents /\ entries[i].weight \in Nat
  BY EntriesType DEF Agents
<1>3. Named(entries) \subseteq Agents
  BY <1>2 DEF Named
<1>4. \A a \in Named(entries) : LastWeight(entries, a) \in Nat
  BY <1>2, LastExists
<1> DEFINE w == [a \in Agents |-> IF a \in Named(entries) THEN LastWeight(entries, a) ELSE 0]
<1>5. \A a \in Agents : seasonWeight[s][a] = 0
  BY <1>1 DEF Fresh
<1>6. seasonWeight'[s] = w
  BY <1>1, <1>5 DEF VaultTypeOK
<1>7. w \in [Agents -> Nat]
  BY <1>4
<1>8. \A t \in Seasons : t # s => seasonWeight'[t] = seasonWeight[t]
  BY <1>1 DEF VaultTypeOK
<1>9. seasonWeight' \in [Seasons -> [Agents -> Nat]]
  <2>1. seasonWeight' = [t \in Seasons |-> IF t = s THEN w ELSE seasonWeight[t]]
    <3>1. seasonWeight' = [t \in Seasons |-> seasonWeight'[t]]
      BY <1>1 DEF VaultTypeOK
    <3> HIDE DEF w
    <3> QED BY <3>1, <1>6, <1>8
  <2> HIDE DEF w
  <2> QED BY <2>1, <1>7 DEF VaultTypeOK
<1>10. seasonAgents' \in [Seasons -> SUBSET Agents]
  BY <1>1, <1>3 DEF VaultTypeOK, Registered
<1>11. seasonSettled' \in [Seasons -> BOOLEAN] /\ seasonSettled'[s]
  BY <1>1 DEF VaultTypeOK
<1>12. VaultTypeOK'
  BY <1>1, <1>9, <1>10, <1>11 DEF VaultTypeOK, roleVars
<1>13. Weighed'
  <2> SUFFICES ASSUME NEW t \in Seasons PROVE SumTo(seasonWeight'[t], NumAgents) <= WAD
    BY DEF Weighed
  <2>1. CASE t # s
    BY <2>1, <1>8 DEF Weighed
  <2>2. CASE t = s
    <3>1. w \in [1..NumAgents -> Nat]
      BY <1>7 DEF Agents
    <3>2. \A a \in 1..NumAgents :
            w[a] = IF a \in Named(entries) THEN LastWeight(entries, a) ELSE 0
      BY DEF Agents
    <3> HIDE DEF w
    <3>3. SumTo(w, NumAgents) <= EntriesTotal(entries)
      BY <3>1, <3>2, WeightsWithinTotal
    <3> QED BY <2>2, <3>3, <1>1, <1>6
  <2> QED BY <2>1, <2>2
<1>14. \A t \in Seasons : seasonAgents[t] \subseteq seasonAgents'[t]
  BY <1>1 DEF VaultTypeOK, Registered
<1>15. \A t \in Seasons : t # s => SameSeason(t)
  BY <1>1, <1>8 DEF VaultTypeOK, SameSeason
<1> QED
  BY <1>1, <1>11, <1>12, <1>13, <1>14, <1>15

\* A settlement turns the pool into what is open, which is no more.
LEMMA SettleInv ==
  ASSUME VaultInv, NEW caller, NEW s \in Seasons, NEW entries \in Settlements,
         SetSeasonWeights(caller, s, entries)
  PROVE  VaultInv'
<1> USE DEF VaultInv, VaultSound
<1>1. /\ ~seasonSettled[s] /\ seasonSettled'[s]
      /\ \A t \in Seasons : seasonAgents[t] \subseteq seasonAgents'[t]
      /\ \A t \in Seasons : t # s => SameSeason(t)
      /\ UNCHANGED <<vaultBal, wallet, userStake, totalStake, totalSeasonPool,
                     userClaimed, agentClaimed, roleVars, received>>
      /\ Weighed' /\ VaultTypeOK'
  BY SettleSteps
<1>2. Fresh'
  <2> SUFFICES ASSUME NEW t \in Seasons, ~seasonSettled'[t]
               PROVE  /\ \A a \in Agents : seasonWeight'[t][a] = 0
                      /\ \A u \in Stakers : ~userClaimed'[t][u]
                                          /\ \A a \in Agents : ~agentClaimed'[t][a][u]
    BY DEF Fresh
  <2>1. t # s /\ SameSeason(t)
    BY <1>1
  <2> QED BY <2>1 DEF SameSeason, Fresh
<1>3. Listed' /\ BooksAgree'
  BY <1>1 DEF Listed, BooksAgree
<1>4. \A t \in Seasons : t # s => Owed'[t] = Owed[t]
  BY <1>1, SeasonKept
<1>5. VaultCovers'
  <2>1. Unclaimed(s)' <= totalSeasonPool'[s]
    <3>1. PoolsCover'
      BY <1>1, <1>3, PoolsNext
    <3> QED BY <3>1 DEF PoolsCover
  <2>2. Owed[s] = totalSeasonPool[s] /\ Owed'[s] = Unclaimed(s)'
    BY <1>1 DEF Owed
  <2>3. Unclaimed(s)' \in Nat /\ totalSeasonPool[s] \in Nat /\ vaultBal \in Nat
    BY <1>1, SumsNext DEF Sums, VaultTypeOK
  <2>4. vaultBal' + Owed[s] >= vaultBal + Owed'[s]
    BY <1>1, <2>1, <2>2, <2>3
  <2> QED BY <1>1, <1>4, <2>4, CoversKept
<1>6. PaidExactlyClaimed'
  <2> SUFFICES ASSUME NEW t \in Seasons, NEW v \in Stakers
               PROVE  received'[t][v] = SumTo(Marked(t, v)', NumAgents)
    BY PaidIsExact DEF Paid
  <2>1. received'[t][v] = SumTo(Marked(t, v), NumAgents)
    BY <1>1, PaidIsExact DEF Paid
  <2>2. CASE t # s
    <3>1. SumTo(Marked(t, v)', NumAgents) = SumTo(Marked(t, v), NumAgents)
      BY <1>1, <2>2, SeasonKept
    <3> QED BY <2>1, <3>1
  <2>3. CASE t = s
    <3>1. \A b \in Agents : ~agentClaimed[s][b][v] /\ ~agentClaimed'[s][b][v]
      BY <1>1 DEF Fresh
    <3>2. Marked(s, v)' = Marked(s, v)
      BY <3>1 DEF Marked
    <3> QED BY <2>1, <2>3, <3>2
  <2> QED BY <2>2, <2>3
<1>7. ClaimLeavesNothing'
  <2> SUFFICES ASSUME NEW t \in Seasons, NEW v \in Stakers, userClaimed'[t][v],
                      NEW b \in Agents, (Payout(t, b, v) > 0)'
               PROVE  agentClaimed'[t][b][v]
    BY DEF ClaimLeavesNothing
  <2>1. t # s
    BY <1>1 DEF Fresh
  <2>2. Payout(t, b, v)' = Payout(t, b, v)
    BY <1>1, <2>1, PayoutKept
  <2> QED BY <1>1, <2>2 DEF ClaimLeavesNothing
<1>8. AgentListBounded'
  BY ListKept DEF SetSeasonWeights, VaultTypeOK
<1> QED
  BY <1>1, <1>2, <1>3, <1>5, <1>6, <1>7, <1>8

\* A claim closes nothing but itself, or closes the season for the user after going
\* through all of the season's agents.
Closes(u, s, A) ==
  \/ userClaimed' = userClaimed
  \/ userClaimed' = [userClaimed EXCEPT ![s][u] = TRUE] /\ A = seasonAgents[s]

\* What the three claims change: the parts they pay are marked.
LEMMA PaySteps ==
  ASSUME VaultTypeOK, NEW u \in Stakers, NEW s \in Seasons, NEW A \in SUBSET Agents,
         MayClaim(s, u), PayFor(s, u, A), Closes(u, s, A)
  PROVE  /\ seasonSettled[s] /\ ~userClaimed[s][u]
         /\ vaultBal' = vaultBal - ClaimAmount(s, u, A)
         /\ vaultBal >= ClaimAmount(s, u, A)
         /\ received'[s][u] = received[s][u] + ClaimAmount(s, u, A)
         /\ \A t \in Seasons, v \in Stakers :
              t # s \/ v # u => /\ received'[t][v] = received[t][v]
                                /\ userClaimed'[t][v] = userClaimed[t][v]
                                /\ \A a \in Agents : agentClaimed'[t][a][v] = agentClaimed[t][a][v]
         /\ \A a \in Payable(s, u, A) : agentClaimed'[s][a][u]
         /\ \A a \in Agents \ Payable(s, u, A) : agentClaimed'[s][a][u] = agentClaimed[s][a][u]
         /\ \A t \in Seasons : t # s => SameSeason(t)
         /\ UNCHANGED <<stakeVars, seasonSettled, seasonWeight, roleVars>>
         /\ VaultTypeOK'
<1>1. /\ seasonSettled[s] /\ ~userClaimed[s][u]
      /\ vaultBal' = vaultBal - ClaimAmount(s, u, A)
      /\ vaultBal >= ClaimAmount(s, u, A)
      /\ agentClaimed' = [agentClaimed EXCEPT ![s] =
           [a \in Agents |-> IF a \in Payable(s, u, A)
                             THEN [agentClaimed[s][a] EXCEPT ![u] = TRUE] ELSE agentClaimed[s][a]]]
      /\ wallet' = [wallet EXCEPT ![u] = @ + ClaimAmount(s, u, A)]
      /\ received' = [received EXCEPT ![s][u] = @ + ClaimAmount(s, u, A)]
      /\ UNCHANGED <<stakeVars, seasonSettled, seasonWeight, roleVars>>
  BY DEF MayClaim, PayFor, VaultTypeOK
<1>2. ClaimAmount(s, u, A) \in Nat
  BY SumsHold DEF Sums
<1>3. vaultBal' \in Nat /\ wallet' \in [Stakers -> Nat]
  BY <1>1, <1>2 DEF VaultTypeOK
<1>4. received' \in [Seasons -> [Stakers -> Nat]]
  BY <1>1, <1>2 DEF VaultTypeOK
<1>5. \A a \in Agents : [agentClaimed[s][a] EXCEPT ![u] = TRUE] \in [Stakers -> BOOLEAN]
  BY DEF VaultTypeOK
<1>6. agentClaimed' \in [Seasons -> [Agents -> [Stakers -> BOOLEAN]]]
  <2> DEFINE row == [a \in Agents |-> IF a \in Payable(s, u, A)
                             THEN [agentClaimed[s][a] EXCEPT ![u] = TRUE] ELSE agentClaimed[s][a]]
  <2>1. row \in [Agents -> [Stakers -> BOOLEAN]]
    BY <1>5 DEF VaultTypeOK
  <2>2. agentClaimed' = [agentClaimed EXCEPT ![s] = row]
    BY <1>1
  <2> HIDE DEF row
  <2> QED BY <2>1, <2>2 DEF VaultTypeOK
<1>7. userClaimed' \in [Seasons -> [Stakers -> BOOLEAN]]
  <2>1. CASE userClaimed' = userClaimed
    BY <2>1 DEF VaultTypeOK
  <2>2. CASE userClaimed' = [userClaimed EXCEPT ![s][u] = TRUE]
    <3> DEFINE line == [userClaimed[s] EXCEPT ![u] = TRUE]
    <3>1. line \in [Stakers -> BOOLEAN]
      BY DEF VaultTypeOK
    <3>2. userClaimed' = [userClaimed EXCEPT ![s] = line]
      BY <2>2
    <3> HIDE DEF line
    <3> QED BY <3>1, <3>2 DEF VaultTypeOK
  <2> QED BY <2>1, <2>2 DEF Closes
<1>8. VaultTypeOK'
  BY <1>1, <1>3, <1>4, <1>6, <1>7 DEF VaultTypeOK, stakeVars, roleVars
<1>9. received'[s][u] = received[s][u] + ClaimAmount(s, u, A)
  BY <1>1 DEF VaultTypeOK
<1>paid. \A a \in Payable(s, u, A) :
           a \in Agents /\ agentClaimed'[s][a] = [agentClaimed[s][a] EXCEPT ![u] = TRUE]
  BY <1>1 DEF VaultTypeOK, Payable
<1>kept. \A a \in Agents \ Payable(s, u, A) : agentClaimed'[s][a] = agentClaimed[s][a]
  BY <1>1 DEF VaultTypeOK
<1>else. \A t \in Seasons : t # s => agentClaimed'[t] = agentClaimed[t]
  BY <1>1 DEF VaultTypeOK
<1>10. /\ \A a \in Payable(s, u, A) : agentClaimed'[s][a][u]
       /\ \A a \in Payable(s, u, A), v \in Stakers :
            v # u => agentClaimed'[s][a][v] = agentClaimed[s][a][v]
  <2> SUFFICES ASSUME NEW a \in Payable(s, u, A)
               PROVE  /\ agentClaimed'[s][a][u]
                      /\ \A v \in Stakers : v # u => agentClaimed'[s][a][v] = agentClaimed[s][a][v]
    OBVIOUS
  <2> DEFINE old == agentClaimed[s][a]
  <2>1. agentClaimed'[s][a] = [old EXCEPT ![u] = TRUE]
    BY <1>paid
  <2>2. old \in [Stakers -> BOOLEAN]
    <3>1. a \in Agents /\ agentClaimed \in [Seasons -> [Agents -> [Stakers -> BOOLEAN]]]
      BY <1>paid DEF VaultTypeOK
    <3> QED BY <3>1, Zenon
  <2>3. DOMAIN old = Stakers
    <3> HIDE DEF old
    <3> QED BY <2>2
  <2>4. agentClaimed'[s][a][u] /\ \A v \in Stakers : v # u => agentClaimed'[s][a][v] = old[v]
    <3> HIDE DEF old
    <3> QED BY <2>1, <2>3
  <2> QED BY <2>4
<1>11. \A t \in Seasons, v \in Stakers :
         t # s \/ v # u => \A a \in Agents : agentClaimed'[t][a][v] = agentClaimed[t][a][v]
  <2> SUFFICES ASSUME NEW t \in Seasons, NEW v \in Stakers, t # s \/ v # u, NEW a \in Agents
               PROVE  agentClaimed'[t][a][v] = agentClaimed[t][a][v]
    OBVIOUS
  <2>1. CASE t # s
    BY <1>else, <2>1
  <2>2. CASE t = s /\ v # u
    BY <1>10, <1>kept, <2>2
  <2> QED BY <2>1, <2>2
<1>12. \A t \in Seasons, v \in Stakers :
         t # s \/ v # u => received'[t][v] = received[t][v] /\ userClaimed'[t][v] = userClaimed[t][v]
  BY <1>1 DEF VaultTypeOK, Closes
<1>13. \A t \in Seasons : t # s => SameSeason(t)
  BY <1>1 DEF VaultTypeOK, Closes, SameSeason, stakeVars
<1> QED
  BY <1>1, <1>8, <1>9, <1>10, <1>11, <1>12, <1>13, <1>kept

\* What a claim pays leaves the season's debt: each part is paid once, and closing the
\* season for the user forgets nothing that is open.
LEMMA PayInv ==
  ASSUME VaultInv, NEW u \in Stakers, NEW s \in Seasons, NEW A \in SUBSET Agents,
         MayClaim(s, u), PayFor(s, u, A), Closes(u, s, A)
  PROVE  VaultInv'
<1> USE DEF VaultInv, VaultSound
<1> DEFINE payout == ClaimAmount(s, u, A)
<1>1. /\ seasonSettled[s] /\ ~userClaimed[s][u]
      /\ vaultBal' = vaultBal - payout /\ vaultBal >= payout
      /\ received'[s][u] = received[s][u] + payout
      /\ UNCHANGED <<stakeVars, seasonSettled, seasonWeight, roleVars>>
  BY PaySteps
<1>2. \A t \in Seasons, v \in Stakers :
        t # s \/ v # u => /\ received'[t][v] = received[t][v]
                          /\ userClaimed'[t][v] = userClaimed[t][v]
                          /\ \A a \in Agents : agentClaimed'[t][a][v] = agentClaimed[t][a][v]
  BY PaySteps
<1>3. /\ \A a \in Payable(s, u, A) : agentClaimed'[s][a][u]
      /\ \A a \in Agents \ Payable(s, u, A) : agentClaimed'[s][a][u] = agentClaimed[s][a][u]
  BY PaySteps
<1>4. VaultTypeOK' /\ \A t \in Seasons : t # s => SameSeason(t)
  BY PaySteps
<1>5. \A t \in Seasons, a \in Agents, v \in Stakers : Payout(t, a, v)' = Payout(t, a, v)
  BY <1>1 DEF Payout, stakeVars
<1>6. Sums /\ Sums'
  BY <1>4, SumsHold, SumsNext
<1>7. /\ NumUsers \in Nat /\ NumAgents \in Nat
      /\ Stakers = 1..NumUsers /\ Agents = 1..NumAgents
  BY VaultConstants DEF Stakers, Agents
<1>8. payout \in Nat /\ payout = SumTo(Part(s, u, A), NumAgents)
      /\ Part(s, u, A) \in [1..NumAgents -> Nat]
  BY <1>6 DEF Sums
<1>9. Fresh'
  <2> SUFFICES ASSUME NEW t \in Seasons, ~seasonSettled'[t]
               PROVE  /\ \A a \in Agents : seasonWeight'[t][a] = 0
                      /\ \A v \in Stakers : ~userClaimed'[t][v]
                                          /\ \A a \in Agents : ~agentClaimed'[t][a][v]
    BY DEF Fresh
  <2>1. t # s /\ ~seasonSettled[t]
    BY <1>1
  <2> QED BY <1>1, <1>2, <2>1 DEF Fresh
<1>10. Weighed' /\ Listed' /\ BooksAgree' /\ AgentListBounded'
  BY <1>1 DEF Weighed, Listed, BooksAgree, AgentListBounded, stakeVars
<1>11. PaidExactlyClaimed'
  <2> SUFFICES ASSUME NEW t \in Seasons, NEW v \in Stakers
               PROVE  received'[t][v] = SumTo(Marked(t, v)', NumAgents)
    BY PaidIsExact DEF Paid
  <2>1. received[t][v] = SumTo(Marked(t, v), NumAgents)
    BY PaidIsExact DEF Paid
  <2>2. CASE t # s \/ v # u
    <3>1. Marked(t, v)' = Marked(t, v)
      BY <1>2, <1>5, <2>2 DEF Marked
    <3> QED BY <1>2, <2>1, <2>2, <3>1
  <2>3. CASE t = s /\ v = u
    <3>1. Marked(s, u) \in [1..NumAgents -> Nat] /\ Marked(s, u)' \in [1..NumAgents -> Nat]
      BY <1>6 DEF Sums
    <3>2. \A a \in 1..NumAgents : Marked(s, u)'[a] = Marked(s, u)[a] + Part(s, u, A)[a]
      <4> TAKE a \in 1..NumAgents
      <4>1. a \in Agents /\ Payout(s, a, u) \in Nat /\ Payout(s, a, u)' = Payout(s, a, u)
        BY <1>5, <1>6, <1>7 DEF Sums
      <4>2. /\ Marked(s, u)[a] = IF agentClaimed[s][a][u] THEN Payout(s, a, u) ELSE 0
            /\ Marked(s, u)'[a] = IF agentClaimed'[s][a][u] THEN Payout(s, a, u) ELSE 0
            /\ Part(s, u, A)[a] = IF a \in Payable(s, u, A) THEN Payout(s, a, u) ELSE 0
        BY <4>1 DEF Marked, Part
      <4>3. a \in Payable(s, u, A) => ~agentClaimed[s][a][u]
        BY DEF Payable
      <4> QED BY <1>3, <4>1, <4>2, <4>3
    <3> HIDE DEF Marked, Part
    <3>3. SumTo(Marked(s, u)', NumAgents) = SumTo(Marked(s, u), NumAgents) + SumTo(Part(s, u, A), NumAgents)
      BY <1>7, <1>8, <3>1, <3>2, SumPlus
    <3> QED BY <1>1, <1>8, <2>1, <2>3, <3>3
  <2> QED BY <2>2, <2>3
<1>12. ClaimLeavesNothing'
  <2> SUFFICES ASSUME NEW t \in Seasons, NEW v \in Stakers, userClaimed'[t][v],
                      NEW b \in Agents, (Payout(t, b, v) > 0)'
               PROVE  agentClaimed'[t][b][v]
    BY DEF ClaimLeavesNothing
  <2>1. Payout(t, b, v) > 0
    BY <1>5
  <2>2. CASE t # s \/ v # u
    BY <1>2, <2>1, <2>2 DEF ClaimLeavesNothing
  <2>3. CASE t = s /\ v = u
    <3>1. A = seasonAgents[s]
      BY <1>1, <2>3 DEF Closes
    <3>2. b \in A
      BY <1>6, <2>1, <2>3, <3>1 DEF Sums, Listed
    <3>3. b \in Payable(s, u, A) \/ agentClaimed[s][b][u]
      BY <2>1, <2>3, <3>2 DEF Payable
    <3> QED BY <1>3, <2>3, <3>3
  <2> QED BY <2>2, <2>3
<1>13. Open(s)'[u] + payout <= Open(s)[u]
  <2>1. /\ Part(s, u, Agents) \in [1..NumAgents -> Nat]
        /\ Part(s, u, Agents)' \in [1..NumAgents -> Nat]
        /\ ClaimAmount(s, u, Agents) = SumTo(Part(s, u, Agents), NumAgents)
        /\ ClaimAmount(s, u, Agents)' = SumTo(Part(s, u, Agents)', NumAgents)
    BY <1>6 DEF Sums
  <2>2. Open(s)[u] = ClaimAmount(s, u, Agents)
    BY <1>1 DEF Open
  <2>3. \A a \in 1..NumAgents : Part(s, u, Agents)[a] = Part(s, u, A)[a] + Part(s, u, Agents)'[a]
    <3> TAKE a \in 1..NumAgents
    <3>1. a \in Agents /\ Payout(s, a, u) \in Nat /\ Payout(s, a, u)' = Payout(s, a, u)
      BY <1>5, <1>6, <1>7 DEF Sums
    <3>2. /\ Part(s, u, Agents)[a] = IF ~agentClaimed[s][a][u] THEN Payout(s, a, u) ELSE 0
          /\ Part(s, u, Agents)'[a] = IF ~agentClaimed'[s][a][u] THEN Payout(s, a, u) ELSE 0
      BY <3>1 DEF Part, Payable
    <3>3. Part(s, u, A)[a] = IF a \in Payable(s, u, A) THEN Payout(s, a, u) ELSE 0
      BY <3>1 DEF Part
    <3>4. a \in Payable(s, u, A) => ~agentClaimed[s][a][u]
      BY DEF Payable
    <3> QED BY <1>3, <3>1, <3>2, <3>3, <3>4
  <2> HIDE DEF Part
  <2>4. SumTo(Part(s, u, Agents), NumAgents)
          = SumTo(Part(s, u, A), NumAgents) + SumTo(Part(s, u, Agents)', NumAgents)
    BY <1>7, <1>8, <2>1, <2>3, SumPlus
  <2>5. Open(s)'[u] \in {0, ClaimAmount(s, u, Agents)'}
    BY DEF Open
  <2>6. SumTo(Part(s, u, Agents)', NumAgents) \in Nat
    BY <1>7, <2>1, SumIsNat
  <2> HIDE DEF payout, Open
  <2> QED BY <1>8, <2>1, <2>2, <2>4, <2>5, <2>6
<1>14. \A v \in 1..NumUsers : v # u => Open(s)[v] = Open(s)'[v]
  <2> TAKE v \in 1..NumUsers
  <2> HAVE v # u
  <2>1. v \in Stakers
    BY <1>7
  <2>2. Part(s, v, Agents)' = Part(s, v, Agents)
    BY <1>2, <1>5, <2>1 DEF Part, Payable
  <2>3. ClaimAmount(s, v, Agents)' = ClaimAmount(s, v, Agents)
    <3>1. /\ ClaimAmount(s, v, Agents) = SumTo(Part(s, v, Agents), NumAgents)
          /\ ClaimAmount(s, v, Agents)' = SumTo(Part(s, v, Agents)', NumAgents)
      BY <1>6, <2>1 DEF Sums
    <3> QED BY <2>2, <3>1
  <2> QED BY <1>2, <2>1, <2>3 DEF Open
<1>15. Unclaimed(s)' + payout <= Unclaimed(s)
  <2>1. /\ Open(s) \in [1..NumUsers -> Nat] /\ Open(s)' \in [1..NumUsers -> Nat]
        /\ Unclaimed(s) = SumTo(Open(s), NumUsers) /\ Unclaimed(s)' = SumTo(Open(s)', NumUsers)
        /\ Unclaimed(s) \in Nat /\ Unclaimed(s)' \in Nat
    BY <1>6 DEF Sums
  <2>2. u \in 1..NumUsers
    BY <1>7
  <2>3. Open(s)[u] \in Nat /\ Open(s)'[u] \in Nat
    BY <2>1, <2>2
  <2> HIDE DEF Open, Unclaimed, payout
  <2>4. SumTo(Open(s)', NumUsers) + Open(s)[u] = SumTo(Open(s), NumUsers) + Open(s)'[u]
    BY <1>7, <1>14, <2>1, <2>2, SumChange
  <2> QED BY <1>8, <1>13, <2>1, <2>3, <2>4
<1>16. VaultCovers'
  <2>1. Owed[s] = Unclaimed(s) /\ Owed'[s] = Unclaimed(s)'
    BY <1>1 DEF Owed
  <2>2. \A t \in Seasons : t # s => Owed'[t] = Owed[t]
    BY <1>4, SeasonKept
  <2>3. Unclaimed(s) \in Nat /\ Unclaimed(s)' \in Nat /\ vaultBal \in Nat
    BY <1>6 DEF Sums, VaultTypeOK
  <2>4. vaultBal' + Owed[s] >= vaultBal + Owed'[s]
    <3> HIDE DEF payout, Owed, Unclaimed
    <3> QED BY <1>1, <1>8, <1>15, <2>1, <2>3
  <2> QED BY <1>4, <2>2, <2>4, CoversKept
<1> QED
  BY <1>4, <1>9, <1>10, <1>11, <1>12, <1>16

\* The owner's functions and steps of nobody touch none of the books.
LEMMA QuietInv ==
  ASSUME VaultInv, VaultTypeOK',
         UNCHANGED <<vaultBal, wallet, stakeVars, seasonSettled, seasonWeight,
                     userClaimed, agentClaimed, received>>
  PROVE  VaultInv'
<1> USE DEF VaultInv, VaultSound, stakeVars
<1>1. \A t \in Seasons : SameSeason(t)
  BY DEF SameSeason
<1>2. Fresh' /\ Weighed' /\ Listed' /\ BooksAgree' /\ AgentListBounded'
  BY DEF Fresh, Weighed, Listed, BooksAgree, AgentListBounded
<1>3. PaidExactlyClaimed' /\ ClaimLeavesNothing'
  BY DEF PaidExactlyClaimed, ClaimLeavesNothing, Payout
<1>4. \A t \in Seasons : Owed'[t] = Owed[t]
  BY <1>1, SeasonKept
<1>5. VaultCovers'
  <2>1. CASE \E t \in Seasons : TRUE
    <3>1. PICK t \in Seasons : TRUE
      BY <2>1
    <3>2. Owed[t] \in Nat /\ vaultBal \in Nat /\ Owed'[t] = Owed[t]
      BY <1>4, SumsHold DEF Sums, VaultTypeOK, Seasons
    <3>3. vaultBal' + Owed[t] >= vaultBal + Owed'[t]
      BY <3>2
    <3> QED BY <1>4, <3>3, CoversKept
  <2>2. CASE ~ \E t \in Seasons : TRUE
    <3>1. Owed' = Owed
      BY <2>2 DEF Owed
    <3> QED BY <3>1 DEF VaultCovers
  <2> QED BY <2>1, <2>2
<1> QED
  BY <1>2, <1>3, <1>5

\* The owner's functions.
LEMMA OwnerInv == ASSUME VaultInv, OwnerStep PROVE VaultInv'
<1>1. UNCHANGED <<vaultBal, wallet, stakeVars, seasonSettled, seasonWeight,
                  userClaimed, agentClaimed, received>>
  BY DEF OwnerStep, SetSettler, LockSettler, SetVaultPaused
<1>2. vaultPaused' \in BOOLEAN
  BY DEF OwnerStep, SetSettler, LockSettler, SetVaultPaused, VaultInv, VaultTypeOK
<1>3. settlerLocked' \in BOOLEAN
  BY DEF OwnerStep, SetSettler, LockSettler, SetVaultPaused, VaultInv, VaultTypeOK
<1>4. settler' \in Settlers \cup {ZeroAddress}
  BY DEF OwnerStep, SetSettler, LockSettler, SetVaultPaused, VaultInv, VaultTypeOK
<1>5. VaultTypeOK'
  BY <1>1, <1>2, <1>3, <1>4 DEF VaultInv, VaultTypeOK, stakeVars
<1> QED
  BY <1>1, <1>5, QuietInv

\* Every call keeps the inductive invariant.
LEMMA VaultInvNext == VaultInv /\ [VaultNext]_vaultVars => VaultInv'
<1> SUFFICES ASSUME VaultInv, [VaultNext]_vaultVars PROVE VaultInv'
  OBVIOUS
<1>1. CASE UNCHANGED vaultVars
  <2>1. VaultTypeOK'
    BY <1>1 DEF VaultInv, VaultTypeOK, vaultVars, stakeVars, roleVars
  <2> QED BY <1>1, <2>1, QuietInv DEF vaultVars
<1>2. CASE UserStep
  <2>1. PICK u \in Stakers, s \in Seasons :
          \/ \E a \in Agents, amount \in StakeAmounts : Stake(u, s, a, amount)
          \/ Claim(u, s)
          \/ \E a \in Agents : ClaimAgent(u, s, a)
          \/ \E A \in SUBSET Agents : ClaimAgents(u, s, A)
    BY <1>2 DEF UserStep
  <2>2. CASE \E a \in Agents, amount \in StakeAmounts : Stake(u, s, a, amount)
    BY <2>2, StakeInv
  <2>3. CASE Claim(u, s)
    <3>1. MayClaim(s, u) /\ PayFor(s, u, seasonAgents[s]) /\ Closes(u, s, seasonAgents[s])
      BY <2>3 DEF Claim, Closes
    <3>2. seasonAgents[s] \in SUBSET Agents
      BY DEF VaultInv, VaultTypeOK
    <3> QED BY <3>1, <3>2, PayInv
  <2>4. CASE \E a \in Agents : ClaimAgent(u, s, a)
    <3>1. PICK a \in Agents : ClaimAgent(u, s, a)
      BY <2>4
    <3>2. MayClaim(s, u) /\ PayFor(s, u, {a}) /\ Closes(u, s, {a}) /\ {a} \in SUBSET Agents
      BY <3>1 DEF ClaimAgent, Closes
    <3> QED BY <3>2, PayInv
  <2>5. CASE \E A \in SUBSET Agents : ClaimAgents(u, s, A)
    <3>1. PICK A \in SUBSET Agents : ClaimAgents(u, s, A)
      BY <2>5
    <3>2. MayClaim(s, u) /\ PayFor(s, u, A) /\ Closes(u, s, A)
      BY <3>1 DEF ClaimAgents, Closes
    <3> QED BY <3>2, PayInv
  <2> QED BY <2>1, <2>2, <2>3, <2>4, <2>5
<1>3. CASE OwnerStep
  BY <1>3, OwnerInv
<1>4. CASE SettlerStep
  BY <1>4, SettleInv DEF SettlerStep
<1> QED
  BY <1>1, <1>2, <1>3, <1>4 DEF VaultNext

\* So it holds of every behaviour.
LEMMA VaultInvAlways == VaultSpec => []VaultInv
BY VaultInvInit, VaultInvNext, PTL DEF VaultSpec

-----------------------------------------------------------------------------
\* The vault is sound, for any number of users, agents and seasons, any stakes and any
\* weights: the sums of stakes agree, the one balance covers what every season still
\* owes, a user has received exactly the parts marked for it, claiming a season leaves
\* none of them behind, and no list of agents outgrows its limit (ArenaVault.sol l.75-220).
THEOREM VaultAlwaysSound == VaultSpec => []VaultSound
<1>1. VaultInv => VaultSound
  BY DEF VaultInv
<1> QED
  BY <1>1, VaultInvAlways, PTL

\* What payouts are computed from does not move after a settlement, and a locked settler
\* stays, whoever calls what (l.63-121).
THEOREM SettledStays == VaultSpec => SettledIsFrozen
<1>1. VaultInv /\ [VaultNext]_vaultVars => [SettledFreezes]_vaultVars
  <2> SUFFICES ASSUME VaultInv, [VaultNext]_vaultVars PROVE [SettledFreezes]_vaultVars
    OBVIOUS
  <2> USE DEF VaultInv
  <2>1. CASE UNCHANGED vaultVars
    BY <2>1
  <2>2. ASSUME NEW u \in Stakers, NEW s \in Seasons, NEW a \in Agents,
               NEW amount \in StakeAmounts, Stake(u, s, a, amount)
        PROVE  SettledFreezes
    <3>1. /\ ~seasonSettled[s] /\ \A t \in Seasons : t # s => SameSeason(t)
          /\ seasonSettled' = seasonSettled /\ UNCHANGED roleVars
      BY <2>2, StakeSteps
    <3> QED BY <3>1 DEF SettledFreezes, SameSeason, roleVars
  <2>3. ASSUME NEW u \in Stakers, NEW s \in Seasons, NEW A, PayFor(s, u, A)
        PROVE  SettledFreezes
    BY <2>3 DEF PayFor, SettledFreezes, stakeVars, roleVars
  <2>4. CASE UserStep
    BY <2>2, <2>3, <2>4 DEF UserStep, Claim, ClaimAgent, ClaimAgents
  <2>5. CASE OwnerStep
    BY <2>5 DEF OwnerStep, SetSettler, LockSettler, SetVaultPaused, SettledFreezes, stakeVars
  <2>6. CASE SettlerStep
    <3>1. PICK caller \in Settlers, s \in Seasons, entries \in Settlements :
            SetSeasonWeights(caller, s, entries)
      BY <2>6 DEF SettlerStep
    <3>2. /\ ~seasonSettled[s] /\ \A t \in Seasons : t # s => SameSeason(t)
          /\ UNCHANGED roleVars
      BY <3>1, SettleSteps
    <3> QED BY <3>2 DEF SettledFreezes, SameSeason, roleVars
  <2> QED BY <2>1, <2>4, <2>5, <2>6 DEF VaultNext
<1> QED
  BY <1>1, VaultInvAlways, PTL DEF VaultSpec, SettledIsFrozen

-----------------------------------------------------------------------------
(* The settler's contract, the vault and the reputation, composed.         *)

\* The types of what the settlement adds to the vault.
SettlerTypeOK ==
  /\ resultExists \in [Seasons -> BOOLEAN]
  /\ vault \in Vaults /\ vaultLocked \in BOOLEAN /\ settlerPaused \in BOOLEAN
  /\ nfaSet \in BOOLEAN /\ nfaAuthorized \in BOOLEAN
  /\ minted \subseteq Agents
  /\ seasonCount \in [Agents -> Nat]
  /\ due \in [Seasons -> SUBSET Agents]

SettlementInv == VaultInv /\ SettlerTypeOK /\ ReputationExact

\* The seasons that scored an agent.
Scores(a) == {s \in Seasons : resultExists[s] /\ a \in due[s]}

\* They are finitely many.
LEMMA ScoresFinite == \A a : IsFiniteSet(Scores(a)) /\ Cardinality(Scores(a)) \in Nat
<1>1. IsFiniteSet(Seasons)
  BY FS_Interval, VaultConstants DEF Seasons
<1>2. \A a : Scores(a) \in SUBSET Seasons
  BY DEF Scores
<1> QED
  BY <1>1, <1>2, FS_Subset, FS_CardinalityType

\* Nothing is recorded and nobody scored at deployment.
LEMMA SettlementInvInit == SettlementInit => SettlementInv
<1> SUFFICES ASSUME SettlementInit PROVE SettlementInv
  OBVIOUS
<1>1. VaultInv
  BY VaultInvInit DEF SettlementInit
<1>2. SettlerTypeOK
  BY SettlementConstants DEF SettlementInit, SettlerTypeOK
<1>3. \A a \in Agents : Scores(a) = {}
  BY DEF SettlementInit, Scores
<1>4. ReputationExact
  BY <1>3, FS_EmptySet DEF SettlementInit, ReputationExact, Scores
<1> QED
  BY <1>1, <1>2, <1>4 DEF SettlementInv

\* What does not touch the settler's storage leaves the counts alone.
LEMMA SettlerQuiet ==
  ASSUME SettlerTypeOK, ReputationExact, UNCHANGED settlerVars
  PROVE  SettlerTypeOK' /\ ReputationExact'
<1>1. SettlerTypeOK'
  BY DEF SettlerTypeOK, settlerVars, nfaVars
<1>2. ReputationExact'
  BY DEF ReputationExact, settlerVars, nfaVars
<1> QED
  BY <1>1, <1>2

\* The vault's own functions, and direct settlements, keep the vault's invariant.
LEMMA VaultStepInv == VaultInv /\ VaultStep => VaultInv'
<1> SUFFICES ASSUME VaultInv, VaultStep PROVE VaultInv'
  OBVIOUS
<1>1. CASE UserStep \/ OwnerStep
  <2>1. [VaultNext]_vaultVars
    BY <1>1 DEF VaultNext
  <2> QED BY <2>1, VaultInvNext
<1>2. ASSUME NEW caller \in Settlers \ {SettlerContract}, NEW s \in Seasons,
             NEW entries \in Leaderboards, SetSeasonWeights(caller, s, entries)
      PROVE  VaultInv'
  <2>1. entries \in Settlements
    BY DEF Leaderboards
  <2> QED BY <1>2, <2>1, SettleInv
<1> QED
  BY <1>1, <1>2 DEF VaultStep

\* A submission records the season, pushes its weights and scores its agents at once.
LEMMA SubmitInv ==
  ASSUME SettlementInv, NEW s \in Seasons, NEW entries \in Leaderboards, NEW deltas \in BOOLEAN,
         SubmitSeasonResult(s, entries, deltas)
  PROVE  SettlementInv'
<1> USE DEF SettlementInv
<1>1. entries \in Settlements
  BY DEF Leaderboards
<1>2. VaultInv'
  <2>1. CASE vault = ThisVault
    BY <1>1, <2>1, SettleInv DEF SubmitSeasonResult, PushWeights
  <2>2. CASE vault # ThisVault
    <3>1. [VaultNext]_vaultVars
      BY <2>2 DEF SubmitSeasonResult, PushWeights
    <3> QED BY <3>1, VaultInvNext
  <2> QED BY <2>1, <2>2
<1> DEFINE scored == Scored(entries, deltas)
<1>3. /\ ~resultExists[s]
      /\ resultExists' = [resultExists EXCEPT ![s] = TRUE]
      /\ due' = [due EXCEPT ![s] = scored]
      /\ seasonCount' = [a \in Agents |-> seasonCount[a] + (IF a \in scored THEN 1 ELSE 0)]
      /\ UNCHANGED <<vault, vaultLocked, settlerPaused, nfaSet, nfaAuthorized, minted>>
  BY DEF SubmitSeasonResult, MaySubmit, Reputation
<1>4. scored \in SUBSET Agents
  BY DEF Scored, SettlerTypeOK
<1> HIDE DEF scored
<1>5. SettlerTypeOK'
  <2>1. resultExists' \in [Seasons -> BOOLEAN]
    BY <1>3 DEF SettlerTypeOK
  <2>2. due' \in [Seasons -> SUBSET Agents] /\ seasonCount' \in [Agents -> Nat]
    BY <1>3, <1>4 DEF SettlerTypeOK
  <2> QED BY <1>3, <2>1, <2>2 DEF SettlerTypeOK
<1>6. \A a \in Agents : seasonCount'[a] = Cardinality(Scores(a)')
  <2> TAKE a \in Agents
  <2>1. seasonCount[a] = Cardinality(Scores(a)) /\ seasonCount[a] \in Nat
    BY DEF ReputationExact, Scores, SettlerTypeOK
  <2>2. IsFiniteSet(Scores(a)) /\ s \notin Scores(a)
    BY <1>3, ScoresFinite DEF Scores
  <2>3. resultExists'[s] /\ due'[s] = scored
    BY <1>3 DEF SettlerTypeOK
  <2>4. \A t \in Seasons : t # s => resultExists'[t] = resultExists[t] /\ due'[t] = due[t]
    BY <1>3 DEF SettlerTypeOK
  <2>5. CASE a \in scored
    <3>1. Scores(a)' = Scores(a) \cup {s}
      BY <2>3, <2>4, <2>5 DEF Scores
    <3>2. Cardinality(Scores(a)') = Cardinality(Scores(a)) + 1
      BY <2>2, <3>1, FS_AddElement
    <3> QED BY <1>3, <2>1, <2>5, <3>2
  <2>6. CASE a \notin scored
    <3>1. Scores(a)' = Scores(a)
      BY <2>2, <2>3, <2>4, <2>6 DEF Scores
    <3> QED BY <1>3, <2>1, <2>6, <3>1
  <2> QED BY <2>5, <2>6
<1>7. ReputationExact'
  BY <1>6 DEF ReputationExact, Scores
<1> QED
  BY <1>2, <1>5, <1>7

\* The owner's functions of settler and NFA touch no count.
LEMMA SettlerOwnerInv ==
  ASSUME SettlementInv,
         \/ \E v \in Vaults : SetVault(v)
         \/ LockVault
         \/ \E b \in BOOLEAN : SetSettlerPaused(b) \/ SetAgentNFA(b) \/ SetAuthorizedSettler(b)
         \/ \E a \in Agents : MintAgent(a)
  PROVE  SettlementInv' /\ UNCHANGED vaultVars
<1> USE DEF SettlementInv
<1>1. /\ UNCHANGED <<vaultVars, resultExists, seasonCount, due>>
      /\ vault' \in Vaults /\ minted' \subseteq Agents
  BY DEF SetVault, LockVault, SetSettlerPaused, SetAgentNFA, SetAuthorizedSettler, MintAgent,
         nfaVars, SettlerTypeOK
<1>2. vaultLocked' \in BOOLEAN
  BY DEF SetVault, LockVault, SetSettlerPaused, SetAgentNFA, SetAuthorizedSettler, MintAgent,
         nfaVars, SettlerTypeOK
<1>3. settlerPaused' \in BOOLEAN
  BY DEF SetVault, LockVault, SetSettlerPaused, SetAgentNFA, SetAuthorizedSettler, MintAgent,
         nfaVars, SettlerTypeOK
<1>4. nfaSet' \in BOOLEAN
  BY DEF SetVault, LockVault, SetSettlerPaused, SetAgentNFA, SetAuthorizedSettler, MintAgent,
         nfaVars, SettlerTypeOK
<1>5. nfaAuthorized' \in BOOLEAN
  BY DEF SetVault, LockVault, SetSettlerPaused, SetAgentNFA, SetAuthorizedSettler, MintAgent,
         nfaVars, SettlerTypeOK
<1>6. SettlerTypeOK' /\ ReputationExact'
  BY <1>1, <1>2, <1>3, <1>4, <1>5 DEF SettlerTypeOK, ReputationExact
<1>7. VaultInv'
  BY <1>1, VaultInvNext
<1> QED
  BY <1>1, <1>6, <1>7

\* Every step of the composition keeps the invariant.
LEMMA SettlementInvNext == SettlementInv /\ [SettlementNext]_allVars => SettlementInv'
<1> SUFFICES ASSUME SettlementInv, [SettlementNext]_allVars PROVE SettlementInv'
  OBVIOUS
<1> USE DEF SettlementInv
<1>1. CASE UNCHANGED allVars
  <2>1. [VaultNext]_vaultVars /\ UNCHANGED settlerVars
    BY <1>1 DEF allVars
  <2> QED BY <2>1, VaultInvNext, SettlerQuiet
<1>2. CASE VaultStep
  <2>1. UNCHANGED settlerVars
    BY <1>2 DEF VaultStep
  <2> QED BY <1>2, <2>1, VaultStepInv, SettlerQuiet
<1>3. CASE \E s \in Seasons, entries \in Leaderboards, deltas \in BOOLEAN :
             SubmitSeasonResult(s, entries, deltas)
  BY <1>3, SubmitInv
<1>4. CASE \/ \E v \in Vaults : SetVault(v)
           \/ LockVault
           \/ \E b \in BOOLEAN : SetSettlerPaused(b) \/ SetAgentNFA(b) \/ SetAuthorizedSettler(b)
           \/ \E a \in Agents : MintAgent(a)
  BY <1>4, SettlerOwnerInv
<1> QED
  BY <1>1, <1>2, <1>3, <1>4 DEF SettlementNext

\* So it holds of every behaviour.
LEMMA SettlementInvAlways == SettlementSpec => []SettlementInv
BY SettlementInvInit, SettlementInvNext, PTL DEF SettlementSpec

\* With the settler's contract in front of it the vault still covers what every season
\* owes, and every agent's reputation counts exactly the recorded seasons that scored it,
\* across changes of vault, of settler and of NFA, and calls that revert inside
\* (SeasonSettler.sol l.133-171).
THEOREM SettlementAlwaysSound == SettlementSpec => []SettlementSound
<1>1. SettlementInv => SettlementSound
  BY DEF SettlementInv, VaultInv, VaultSound, SettlerTypeOK, SettlementTypeOK, SettlementSound
<1> QED
  BY <1>1, SettlementInvAlways, PTL

\* Once both sides are wired and locked, the settler's record of a season and the vault's
\* settlement of it happen in one step or not at all (l.149-157).
THEOREM RecordsStayTogether == SettlementSpec => RecordedWithWeights
<1> DEFINE Together == \A s \in Seasons : (resultExists'[s] # resultExists[s])
                                            <=> (seasonSettled'[s] # seasonSettled[s])
<1>1. SettlementInv /\ [SettlementNext]_allVars => [Sealed => Sealed' /\ Together]_allVars
  <2> SUFFICES ASSUME SettlementInv, SettlementNext, Sealed PROVE Sealed' /\ Together
    OBVIOUS
  <2> USE DEF SettlementInv, VaultInv
  <2>1. /\ vault = ThisVault /\ settler = SettlerContract /\ vaultLocked /\ settlerLocked
        /\ VaultTypeOK /\ SettlerTypeOK
    BY DEF Sealed, Wired
  <2>2. CASE VaultStep
    <3>1. UNCHANGED <<resultExists, vault, vaultLocked>>
      BY <2>2 DEF VaultStep, settlerVars
    <3>2. CASE UserStep
      <4>1. seasonSettled' = seasonSettled /\ UNCHANGED roleVars
        <5>1. \A u, s, a, amount : Stake(u, s, a, amount) => seasonSettled' = seasonSettled
                                                              /\ UNCHANGED roleVars
          BY DEF Stake
        <5>2. \A u, s, A : PayFor(s, u, A) => seasonSettled' = seasonSettled /\ UNCHANGED roleVars
          BY DEF PayFor
        <5> QED BY <3>2, <5>1, <5>2 DEF UserStep, Claim, ClaimAgent, ClaimAgents
      <4> QED BY <3>1, <4>1 DEF Sealed, Wired, roleVars
    <3>3. CASE OwnerStep
      <4>1. seasonSettled' = seasonSettled /\ settler' = settler /\ settlerLocked'
        BY <2>1, <3>3 DEF OwnerStep, SetSettler, LockSettler, SetVaultPaused
      <4> QED BY <2>1, <3>1, <4>1 DEF Sealed, Wired
    <3>4. ASSUME NEW caller \in Settlers \ {SettlerContract}, NEW s \in Seasons,
                 NEW entries \in Leaderboards, SetSeasonWeights(caller, s, entries)
          PROVE  FALSE
      BY <2>1, <3>4 DEF SetSeasonWeights, MaySetWeights
    <3> QED BY <2>2, <3>2, <3>3, <3>4 DEF VaultStep
  <2>3. ASSUME NEW s \in Seasons, NEW entries \in Leaderboards, NEW deltas \in BOOLEAN,
               SubmitSeasonResult(s, entries, deltas)
        PROVE  Sealed' /\ Together
    <3>1. /\ ~resultExists[s] /\ resultExists' = [resultExists EXCEPT ![s] = TRUE]
          /\ SetSeasonWeights(SettlerContract, s, entries)
          /\ UNCHANGED <<vault, vaultLocked>>
      BY <2>1, <2>3 DEF SubmitSeasonResult, MaySubmit, PushWeights
    <3>2. /\ ~seasonSettled[s] /\ seasonSettled' = [seasonSettled EXCEPT ![s] = TRUE]
          /\ UNCHANGED roleVars
      BY <3>1 DEF SetSeasonWeights, MaySetWeights
    <3>3. /\ resultExists'[s] /\ seasonSettled'[s]
          /\ \A t \in Seasons : t # s => /\ resultExists'[t] = resultExists[t]
                                         /\ seasonSettled'[t] = seasonSettled[t]
      BY <3>1, <3>2 DEF VaultTypeOK, SettlerTypeOK
    <3>4. Together
      <4> SUFFICES ASSUME NEW t \in Seasons
                   PROVE  (resultExists'[t] # resultExists[t]) <=> (seasonSettled'[t] # seasonSettled[t])
        OBVIOUS
      <4>1. CASE t = s
        BY <3>1, <3>2, <3>3, <4>1
      <4>2. CASE t # s
        BY <3>3, <4>2
      <4> QED BY <4>1, <4>2
    <3> QED BY <2>1, <3>1, <3>2, <3>4 DEF Sealed, Wired, roleVars
  <2>4. CASE \/ \E v \in Vaults : SetVault(v)
             \/ LockVault
             \/ \E b \in BOOLEAN : SetSettlerPaused(b) \/ SetAgentNFA(b) \/ SetAuthorizedSettler(b)
             \/ \E a \in Agents : MintAgent(a)
    <3>1. UNCHANGED vaultVars
      BY <2>4, SettlerOwnerInv
    <3>2. vault' = vault /\ vaultLocked' /\ resultExists' = resultExists
      BY <2>1, <2>4 DEF SetVault, LockVault, SetSettlerPaused, SetAgentNFA, SetAuthorizedSettler,
                        MintAgent, nfaVars
    <3> QED BY <2>1, <3>1, <3>2 DEF Sealed, Wired, vaultVars, roleVars
  <2> QED BY <2>2, <2>3, <2>4 DEF SettlementNext
<1> QED
  BY <1>1, SettlementInvAlways, PTL DEF SettlementSpec, RecordedWithWeights

=============================================================================
