------------------------- MODULE PairingCodesProofs -------------------------
(***************************************************************************)
(* What holds of pairing codes and joins on either relay, for any number   *)
(* of codes, agents, pairings and clients: a code works once, a join that  *)
(* ended left its parts in agreement, the limiter bounds wrong guesses and *)
(* the sweep never takes a code that still works.                          *)
(***************************************************************************)
EXTENDS PairingCodes, FiniteSetTheorems, SequenceTheorems, TLAPS

----------------------------------------------------------------------------
\* The inductive invariant.

\* A row was minted for an agent that exists.  While a first code waits, its
\* creator is in no pairing, and no two first codes share their creator; an
\* invite is for a pairing that has members.
RowsOK ==
    /\ \A c \in Code : code[c] # NoRow =>
          /\ code[c].creator \in DOMAIN token
          /\ code[c].pairing # NoPairing => members[code[c].pairing] # {}
          /\ code[c].pairing = NoPairing /\ ~code[c].used
                => token[code[c].creator] = NoPairing
    /\ \A c, d \in Code :
          /\ code[c] # NoRow /\ code[c].pairing = NoPairing
          /\ code[d] # NoRow /\ code[d].pairing = NoPairing
          /\ code[c].creator = code[d].creator
          => c = d

\* A code that brought an agent in stays, used, and each names the other.
RedeemedOK ==
    /\ redeemed \subseteq Code \X Agent
    /\ \A c \in Code, a \in Agent : <<c, a>> \in redeemed =>
          /\ code[c] # NoRow /\ code[c].used
          /\ a \in DOMAIN token /\ token[a] # NoPairing
    /\ \A c, d \in Code, a, b \in Agent :
          <<c, a>> \in redeemed /\ <<d, b>> \in redeemed => (c = d <=> a = b)

\* A pairing has one first code, and nothing before it is redeemed.
OriginsOK ==
    /\ \A p \in Pairing : IF origin[p] = Nobody
          THEN /\ members[p] = {}
               /\ \A a \in DOMAIN token : token[a] # p
          ELSE LET row == code[origin[p]] IN
               row # NoRow /\ row.used /\ row.pairing = NoPairing
    /\ \A p, q \in Pairing : origin[p] = origin[q] /\ origin[p] # Nobody => p = q

InvitesOK == \A i \in invites : i[1] \in members[i[2]]

\* The audit log speaks of agents that exist.
AuditOK == \A p \in Pairing : \A i \in DOMAIN audit[p] : audit[p][i].agent \in DOMAIN token

Never(p, action, a) ==
    \A i \in DOMAIN audit[p] : audit[p][i] # [action |-> action, agent |-> a]

Party(h) == {h.agent, h.creator} \ {Nobody}

\* What a join has done when it has come to h.at: its agents hold its pairing's
\* tokens, it consumed one code, the first code of the pairing if it has a creator,
\* they are members and bound as far as it got, and so is the log.
JoinTokens(h) ==
    /\ Party(h) \subseteq DOMAIN token /\ h.agent # h.creator
    /\ \A a \in Party(h) : token[a] = h.pairing
JoinCodes(h) ==
    /\ \E c \in Code : <<c, h.agent>> \in redeemed
    /\ \A c \in Code : <<c, h.creator>> \notin redeemed
    /\ <<origin[h.pairing], h.agent>> \in redeemed <=> h.creator # Nobody
JoinMembers(h) ==
    /\ h.creator = Nobody => h.at \notin {"bind", "pairing.created"} /\ members[h.pairing] # {}
    /\ IF h.at = "room"
       THEN /\ relay = "cloud" /\ h.agent \notin members[h.pairing]
            /\ h.creator # Nobody => members[h.pairing] = {}
       ELSE Party(h) \subseteq members[h.pairing]
JoinBound(h) ==
    /\ h.creator # Nobody /\ h.at # "bind" => bound[h.creator] = h.pairing
    /\ h.at \notin {"bind", "issue"} => bound[h.agent] = h.pairing
JoinLog(h) ==
    /\ Never(h.pairing, "pairing.joined", h.agent)
    /\ IF h.at # "pairing.joined" THEN Never(h.pairing, "pairing.created", h.agent)
       ELSE h.creator # Nobody => Once(h.pairing, "pairing.created", h.agent)
JoinOK(h) == JoinTokens(h) /\ JoinCodes(h) /\ JoinMembers(h) /\ JoinBound(h) /\ JoinLog(h)

JoinsOK ==
    /\ \A h \in joins : JoinOK(h)
    /\ \A g, h \in joins : g.agent = h.agent => g = h

\* The limiter and the history agree on what is recent.
LimiterOK == \A k \in Client :
    /\ IsFiniteSet(failures[k]) /\ Recent(wrong[k]) = Recent(failures[k])
    /\ Cardinality(Recent(failures[k])) <= MaxFailures

IInv ==
    /\ TypeOK /\ \A p \in Pairing : IsFiniteSet(members[p])
    /\ RowsOK /\ RedeemedOK /\ OriginsOK /\ InvitesOK /\ AuditOK /\ JoinsOK
    /\ JoinIsWhole /\ LimiterOK

----------------------------------------------------------------------------
\* A row in the table has a creator.
LEMMA RowOrNot ==
    ASSUME TypeOK, NEW c \in Code
    PROVE  /\ code[c] # NoRow => code[c] \in CodeRow
           /\ code[c] # NoRow <=> code[c].creator # Nobody
  BY PairingCodesAssumption DEF TypeOK, CodeRow, NoRow

LEMMA InitIInv == Init => IInv
<1> SUFFICES ASSUME Init PROVE IInv
  OBVIOUS
<1> USE PairingCodesAssumption
<1>1. DOMAIN token = {}
  BY DEF Init
<1>2. IsFiniteSet({}) /\ Cardinality({}) = 0
  BY FS_EmptySet
<1>3. TypeOK
  <2>1. \A p \in Pairing : Cardinality(members[p]) <= MaxMembers
    BY <1>2 DEF Init
  <2>2. audit \in [Pairing -> Seq(Record)]
    BY EmptySeq DEF Init
  <2> QED  BY <1>1, <2>1, <2>2 DEF Init, TypeOK, CodeRow, NoRow
<1>4. RowsOK /\ RedeemedOK /\ OriginsOK /\ InvitesOK /\ JoinsOK /\ JoinIsWhole
  BY <1>1 DEF Init, RowsOK, RedeemedOK, OriginsOK, InvitesOK, JoinsOK, JoinIsWhole
<1>5. AuditOK
  BY DEF Init, AuditOK
<1>6. LimiterOK
  BY <1>2 DEF Init, LimiterOK, Recent
<1>7. \A p \in Pairing : IsFiniteSet(members[p])
  BY <1>2 DEF Init
<1> QED  BY <1>3, <1>4, <1>5, <1>6, <1>7 DEF IInv

----------------------------------------------------------------------------
\* The limiter.

\* Remembering one more failure.
LEMMA OneMoreFails ==
    ASSUME NEW fails \in SUBSET Failure, IsFiniteSet(fails), now \in Nat
    PROVE  /\ OneMore(fails) \in SUBSET Failure /\ IsFiniteSet(OneMore(fails))
           /\ Recent(OneMore(fails)) \subseteq OneMore(fails)
           /\ Cardinality(Recent(fails)) \in Nat
           /\ Cardinality(Recent(OneMore(fails))) \in Nat
           /\ Cardinality(Recent(OneMore(fails))) <= Cardinality(Recent(fails)) + 1
<1> DEFINE new == [at |-> now, nth |-> Cardinality(Recent(fails))]
<1>1. Recent(fails) \in SUBSET Failure /\ IsFiniteSet(Recent(fails))
  BY FS_Subset DEF Recent
<1>2. Cardinality(Recent(fails)) \in Nat
  BY <1>1, FS_CardinalityType
<1>3. OneMore(fails) \in SUBSET Failure
  BY <1>1, <1>2 DEF OneMore, Failure
<1>4. /\ IsFiniteSet(OneMore(fails))
      /\ Cardinality(OneMore(fails)) <= Cardinality(Recent(fails)) + 1
  <2>1. OneMore(fails) = Recent(fails) \cup {new}
    BY DEF OneMore
  <2> HIDE DEF new
  <2>2. /\ IsFiniteSet(Recent(fails) \cup {new})
        /\ \/ Cardinality(Recent(fails) \cup {new}) = Cardinality(Recent(fails))
           \/ Cardinality(Recent(fails) \cup {new}) = Cardinality(Recent(fails)) + 1
    BY <1>1, FS_AddElement
  <2> QED  BY <1>2, <2>1, <2>2
<1>5. /\ Recent(OneMore(fails)) \subseteq OneMore(fails)
      /\ Cardinality(Recent(OneMore(fails))) <= Cardinality(OneMore(fails))
      /\ Cardinality(Recent(OneMore(fails))) \in Nat
      /\ Cardinality(OneMore(fails)) \in Nat
  BY <1>4, FS_Subset, FS_CardinalityType DEF Recent
<1> QED  BY <1>2, <1>3, <1>4, <1>5

\* Everything but the limiter and the clock.
rest == <<relay, tables, joins, invites, redeemed, cut, turnedAway>>

\* While nothing is recorded, no log changes.
LEMMA LogsKept ==
    ASSUME UNCHANGED audit
    PROVE  \A q, action, x : /\ Never(q, action, x)' <=> Never(q, action, x)
                             /\ Once(q, action, x)' <=> Once(q, action, x)
  BY DEF Never, Once

LEMMA RestKept ==
    ASSUME IInv, UNCHANGED rest, TypeOK', LimiterOK'
    PROVE  IInv'
<1>1. RowsOK' /\ RedeemedOK' /\ OriginsOK'
  BY DEF IInv, rest, tables, RowsOK, RedeemedOK, OriginsOK
<1>2. InvitesOK' /\ AuditOK'
  BY DEF IInv, rest, tables, InvitesOK, AuditOK
<1>4. JoinIsWhole'
  <2>1. UNCHANGED <<relay, code, token, bound, members, origin, audit, joins, redeemed,
                    cut, turnedAway>>
    BY DEF rest, tables
  <2> SUFFICES ASSUME NEW a \in DOMAIN token, token[a] # NoPairing, Settled(a)'
      PROVE  Whole(a)'
    BY <2>1 DEF JoinIsWhole
  <2>2. Whole(a)
    BY <2>1 DEF IInv, JoinIsWhole, Settled
  <2>3. \A q, action : Once(q, action, a)' <=> Once(q, action, a)
    BY <2>1 DEF Once
  <2> QED  BY <2>1, <2>2, <2>3 DEF Whole
<1>3. JoinsOK'
  <2>1. \A h \in joins : JoinOK(h) => JoinOK(h)'
    BY LogsKept DEF rest, tables, JoinOK, JoinTokens, JoinCodes, JoinMembers, JoinBound,
       JoinLog, Party
  <2> QED  BY <2>1 DEF IInv, rest, JoinsOK
<1> QED  BY <1>1, <1>2, <1>3, <1>4 DEF IInv, rest, tables

LEMMA JoinFailsKeepsIInv ==
    ASSUME IInv, NEW k \in Client, NEW c \in Code, JoinFails(k, c)
    PROVE  IInv'
<1> USE PairingCodesAssumption
<1>1. /\ failures \in [Client -> SUBSET Failure] /\ wrong \in [Client -> SUBSET Failure]
      /\ now \in Nat /\ now' = now
  BY DEF IInv, TypeOK, JoinFails
<1>2. \A l \in Client : IsFiniteSet(failures[l]) /\ Recent(wrong[l]) = Recent(failures[l])
  BY DEF IInv, LimiterOK
<1>3. /\ failures' \in [Client -> SUBSET Failure] /\ wrong' \in [Client -> SUBSET Failure]
      /\ LimiterOK'
  <2>1. CASE IsLimited(k)
    <3>1. failures' = [failures EXCEPT ![k] = Recent(@)] /\ wrong' = wrong
      BY <2>1 DEF JoinFails
    <3>2. /\ IsFiniteSet(Recent(failures[k])) /\ Recent(failures[k]) \in SUBSET Failure
          /\ Recent(Recent(failures[k])) = Recent(failures[k])
      BY <1>1, <1>2, FS_Subset DEF Recent
    <3>3. \A l \in Client : /\ IsFiniteSet(failures'[l])
                            /\ Recent(failures'[l]) = Recent(failures[l])
      BY <1>1, <1>2, <3>1, <3>2
    <3>4. \A l \in Client : /\ Recent(failures[l])' = Recent(failures'[l])
                            /\ Recent(wrong[l])' = Recent(wrong[l])
      BY <1>1, <3>1 DEF Recent
    <3>5. LimiterOK'
      BY <1>2, <3>3, <3>4 DEF IInv, LimiterOK
    <3> QED  BY <1>1, <3>1, <3>2, <3>5
  <2>2. CASE ~IsLimited(k)
    <3>1. /\ failures' = [failures EXCEPT ![k] = OneMore(failures[k])]
          /\ wrong' = [wrong EXCEPT ![k] = OneMore(wrong[k])]
      BY <2>2 DEF JoinFails, AfterFailure
    <3>2. /\ OneMore(failures[k]) \in SUBSET Failure /\ IsFiniteSet(OneMore(failures[k]))
          /\ Cardinality(Recent(failures[k])) \in Nat
          /\ Cardinality(Recent(OneMore(failures[k])))
                <= Cardinality(Recent(failures[k])) + 1
          /\ Cardinality(Recent(OneMore(failures[k]))) \in Nat
      <4>1. failures[k] \in SUBSET Failure
        BY <1>1
      <4> QED  BY <1>1, <1>2, <4>1, OneMoreFails
    <3>3. OneMore(wrong[k]) = OneMore(failures[k])
      BY <1>2 DEF OneMore
    <3>4. Cardinality(Recent(OneMore(failures[k]))) <= MaxFailures
      BY <2>2, <3>2 DEF IsLimited
    <3>5. \A l \in Client : /\ IsFiniteSet(failures'[l])
                            /\ Recent(wrong'[l]) = Recent(failures'[l])
                            /\ Cardinality(Recent(failures'[l])) <= MaxFailures
      BY <1>1, <1>2, <3>1, <3>2, <3>3, <3>4 DEF IInv, LimiterOK
    <3>6. \A l \in Client : /\ Recent(failures[l])' = Recent(failures'[l])
                            /\ Recent(wrong[l])' = Recent(wrong'[l])
      BY <1>1 DEF Recent
    <3>7. LimiterOK'
      BY <3>5, <3>6 DEF LimiterOK
    <3> QED  BY <1>1, <3>1, <3>2, <3>3, <3>7
  <2> QED  BY <2>1, <2>2
<1>4. TypeOK'
  BY <1>3 DEF IInv, TypeOK, JoinFails, tables
<1> QED  BY <1>3, <1>4, RestKept DEF rest, tables, JoinFails

LEMMA TickKeepsIInv ==
    ASSUME IInv, Tick
    PROVE  IInv'
<1>1. now \in Nat /\ now' \in 0..MaxTime /\ now' = now + 1
  BY PairingCodesAssumption DEF IInv, TypeOK, Tick
<1>2. TypeOK'
  BY <1>1 DEF IInv, TypeOK, Tick, tables, history
<1>3. LimiterOK'
  <2> SUFFICES ASSUME NEW k \in Client
      PROVE  /\ IsFiniteSet(failures'[k]) /\ Recent(wrong[k])' = Recent(failures[k])'
             /\ Cardinality(Recent(failures[k])') <= MaxFailures
    BY DEF LimiterOK
  <2>1. /\ IsFiniteSet(failures[k]) /\ Recent(wrong[k]) = Recent(failures[k])
        /\ Cardinality(Recent(failures[k])) <= MaxFailures
        /\ failures' = failures /\ wrong' = wrong
        /\ failures[k] \in SUBSET Failure /\ wrong[k] \in SUBSET Failure
    BY DEF IInv, LimiterOK, TypeOK, Tick, history
  <2>2. /\ Recent(failures[k])' = {f \in Recent(failures[k]) : f.at + Window > now'}
        /\ Recent(wrong[k])' = {f \in Recent(wrong[k]) : f.at + Window > now'}
    BY <1>1, <2>1, PairingCodesAssumption DEF Recent, Failure
  <2>3. Recent(failures[k])' \subseteq Recent(failures[k]) /\ IsFiniteSet(Recent(failures[k]))
    BY <2>1, <2>2, FS_Subset DEF Recent
  <2>4. Cardinality(Recent(failures[k])') <= MaxFailures
    BY <2>1, <2>3, FS_Subset, FS_CardinalityType, PairingCodesAssumption
  <2> QED  BY <2>1, <2>2, <2>4
<1> QED  BY <1>2, <1>3, RestKept DEF rest, tables, Tick, history

\* Steps that leave the limiter and the clock alone, or forget a client's failures.
LEMMA LimiterKept ==
    ASSUME IInv, UNCHANGED <<now, failures, wrong>>
    PROVE  LimiterOK'
  BY DEF IInv, LimiterOK, Recent

LEMMA LimiterCleared ==
    ASSUME IInv, now' = now, NEW gone \in SUBSET Client,
           failures' = [k \in Client |-> IF k \in gone THEN {} ELSE failures[k]],
           wrong' = [k \in Client |-> IF k \in gone THEN {} ELSE wrong[k]]
    PROVE  LimiterOK'
<1> SUFFICES ASSUME NEW k \in Client
    PROVE  /\ IsFiniteSet(failures'[k]) /\ Recent(wrong[k])' = Recent(failures[k])'
           /\ Cardinality(Recent(failures[k])') <= MaxFailures
  BY DEF LimiterOK
<1>1. CASE k \in gone
  <2>1. failures'[k] = {} /\ Recent(failures[k])' = {} /\ Recent(wrong[k])' = {}
    BY <1>1 DEF Recent
  <2>2. IsFiniteSet({}) /\ Cardinality({}) <= MaxFailures
    BY FS_EmptySet, PairingCodesAssumption
  <2> QED  BY <2>1, <2>2
<1>2. CASE k \notin gone
  BY <1>2 DEF IInv, LimiterOK, Recent
<1> QED  BY <1>1, <1>2

----------------------------------------------------------------------------
\* Faults: at most one join is forgotten, and its agents are known to be cut.

Forgets(h) == joins' = joins \ {h} /\ cut' = cut \cup Party(h)

LEMMA ForgetsKeepsIInv ==
    ASSUME IInv, UNCHANGED <<relay, tables, redeemed, turnedAway>>,
           invites' \subseteq invites,
           UNCHANGED <<joins, cut>> \/ \E h \in joins : Forgets(h),
           TypeOK', LimiterOK'
    PROVE  IInv'
<1>1. RowsOK' /\ RedeemedOK' /\ OriginsOK' /\ AuditOK'
  BY DEF IInv, tables, RowsOK, RedeemedOK, OriginsOK, AuditOK
<1>2. InvitesOK'
  BY DEF IInv, tables, InvitesOK
<1>3. JoinsOK'
  <2>1. joins' \subseteq joins
    BY DEF Forgets
  <2>2. \A h \in joins : JoinOK(h) => JoinOK(h)'
    BY DEF tables, JoinOK, JoinTokens, JoinCodes, JoinMembers, JoinBound, JoinLog, Party,
       Never, Once
  <2> QED  BY <2>1, <2>2 DEF IInv, JoinsOK
<1>4. JoinIsWhole'
  <2>1. \A a \in Agent : Settled(a)' => Settled(a)
    BY PairingCodesAssumption DEF Forgets, Settled, Party
  <2>2. \A p \in Pairing, action \in Action, a \in Agent :
            Once(p, action, a)' <=> Once(p, action, a)
    BY DEF tables, Once
  <2> QED  BY <2>1, <2>2 DEF IInv, TypeOK, tables, JoinIsWhole, Whole, Action
<1> QED  BY <1>1, <1>2, <1>3, <1>4 DEF IInv, tables

LEMMA RestartKeepsIInv ==
    ASSUME IInv, Restart
    PROVE  IInv'
<1>1. UNCHANGED <<joins, cut>> \/ \E h \in joins : Forgets(h)
  BY DEF Restart, LoseJoin, Forgets, Party
<1>2. TypeOK'
  BY <1>1, PairingCodesAssumption DEF IInv, TypeOK, Restart, tables, Forgets
<1>3. LimiterOK'
  BY LimiterCleared DEF Restart
<1> QED  BY <1>1, <1>2, <1>3, ForgetsKeepsIInv DEF Restart

LEMMA WorkerDiesKeepsIInv ==
    ASSUME IInv, WorkerDies
    PROVE  IInv'
<1>1. UNCHANGED <<joins, cut>> \/ \E h \in joins : Forgets(h)
  BY DEF WorkerDies, LoseJoin, Forgets, Party
<1>2. invites' \subseteq invites
  BY DEF WorkerDies
<1>3. TypeOK'
  BY <1>1, <1>2, PairingCodesAssumption DEF IInv, TypeOK, WorkerDies, tables, Forgets
<1>4. LimiterOK'
  BY LimiterKept DEF WorkerDies
<1> QED  BY <1>1, <1>2, <1>3, <1>4, ForgetsKeepsIInv DEF WorkerDies

----------------------------------------------------------------------------
\* Minting and sweeping.

\* What does not look at the codes or the invitations.
LEMMA MintKept ==
    ASSUME IInv, UNCHANGED <<relay, members, bound, audit, joins, redeemed, cut, turnedAway,
                             origin>>,
           DOMAIN token \subseteq DOMAIN token',
           \A a \in DOMAIN token : token'[a] = token[a],
           \A a \in DOMAIN token' \ DOMAIN token : token'[a] = NoPairing
    PROVE  AuditOK' /\ JoinsOK' /\ JoinIsWhole'
<1>1. AuditOK'
  BY DEF IInv, AuditOK
<1>2. JoinsOK'
  <2>1. \A h \in joins : JoinOK(h) => JoinOK(h)'
    BY DEF JoinOK, JoinTokens, JoinCodes, JoinMembers, JoinBound, JoinLog, Party,
       Never, Once
  <2> QED  BY <2>1 DEF IInv, JoinsOK
<1>3. JoinIsWhole'
  <2>1. \A a : Settled(a)' <=> Settled(a)
    BY DEF Settled
  <2>2. \A p, action, a : Once(p, action, a)' <=> Once(p, action, a)
    BY DEF Once
  <2> QED  BY <2>1, <2>2 DEF IInv, JoinIsWhole, Whole
<1> QED  BY <1>1, <1>2, <1>3

LEMMA CreatePairingCodeKeepsIInv ==
    ASSUME IInv, NEW c \in Code, NEW a \in Agent, CreatePairingCode(c, a)
    PROVE  IInv'
<1> USE PairingCodesAssumption
<1>1. /\ token' = [b \in DOMAIN token \cup {a} |-> IF b = a THEN NoPairing ELSE token[b]]
      /\ a \notin DOMAIN token /\ DOMAIN token' = DOMAIN token \cup {a}
      /\ \A b \in DOMAIN token : token'[b] = token[b]
      /\ token'[a] = NoPairing
  BY DEF CreatePairingCode, GiveToken, NewAgent
<1>2. /\ code \in [Code -> CodeRow \cup {NoRow}] /\ code[c] = NoRow
      /\ code' = [code EXCEPT ![c] = NewRow(a, NoPairing)]
      /\ NewRow(a, NoPairing) \in CodeRow /\ NewRow(a, NoPairing) # NoRow
      /\ NewRow(a, NoPairing).creator = a /\ NewRow(a, NoPairing).pairing = NoPairing
  BY DEF IInv, TypeOK, CreatePairingCode, Drawn, NewRow, CodeRow, NoRow
<1>3. UNCHANGED <<relay, now, bound, members, origin, audit, joins, invites, failures,
                  crashes, redeemed, wrong, cut, turnedAway>>
  BY DEF CreatePairingCode, history
<1>4. TypeOK'
  <2>1. members' \in [Pairing -> SUBSET DOMAIN token']
    BY <1>1, <1>3 DEF IInv, TypeOK
  <2> QED  BY <1>1, <1>2, <1>3, <2>1 DEF IInv, TypeOK
<1>5. RowsOK'
  BY <1>1, <1>2, <1>3 DEF IInv, RowsOK
<1>6. RedeemedOK' /\ OriginsOK'
  BY <1>1, <1>2, <1>3 DEF IInv, RedeemedOK, OriginsOK, TypeOK
<1>7. InvitesOK' /\ LimiterOK'
  BY <1>3, LimiterKept DEF IInv, InvitesOK
<1> QED  BY <1>1, <1>3, <1>4, <1>5, <1>6, <1>7, MintKept DEF IInv

LEMMA CreateInviteCodeKeepsIInv ==
    ASSUME IInv, NEW c \in Code, NEW a \in Agent, NEW p \in Pairing, CreateInviteCode(c, a, p)
    PROVE  IInv'
<1> USE PairingCodesAssumption
<1>1. a \in members[p] /\ a \in DOMAIN token /\ invites' \subseteq invites
  BY DEF IInv, TypeOK, InvitesOK, CreateInviteCode, MayInvite
<1>2. /\ code \in [Code -> CodeRow \cup {NoRow}] /\ code[c] = NoRow
      /\ code' = [code EXCEPT ![c] = NewRow(a, p)]
      /\ NewRow(a, p) \in CodeRow /\ NewRow(a, p) # NoRow
      /\ NewRow(a, p).creator = a /\ NewRow(a, p).pairing = p /\ p # NoPairing
  BY DEF IInv, TypeOK, CreateInviteCode, Drawn, NewRow, CodeRow, NoRow
<1>3. UNCHANGED <<relay, now, token, bound, members, origin, audit, joins, failures,
                  crashes, redeemed, wrong, cut, turnedAway>>
  BY DEF CreateInviteCode, history
<1>4. TypeOK'
  BY <1>1, <1>2, <1>3 DEF IInv, TypeOK
<1>5. RowsOK'
  BY <1>1, <1>2, <1>3 DEF IInv, RowsOK
<1>6. RedeemedOK' /\ OriginsOK'
  BY <1>1, <1>2, <1>3 DEF IInv, RedeemedOK, OriginsOK, TypeOK
<1>7. InvitesOK' /\ LimiterOK'
  BY <1>1, <1>3, LimiterKept DEF IInv, InvitesOK
<1> QED  BY <1>3, <1>4, <1>5, <1>6, <1>7, MintKept DEF IInv

LEMMA CheckInviteKeepsIInv ==
    ASSUME IInv, NEW a \in Agent, NEW p \in Pairing, CheckInvite(a, p)
    PROVE  IInv'
<1>1. TypeOK' /\ InvitesOK'
  BY DEF IInv, TypeOK, InvitesOK, CheckInvite, MayInvite, tables, history
<1>2. RowsOK' /\ RedeemedOK' /\ OriginsOK'
  BY DEF IInv, RowsOK, RedeemedOK, OriginsOK, CheckInvite, tables, history
<1>3. LimiterOK'
  BY LimiterKept DEF CheckInvite, history
<1> QED  BY <1>1, <1>2, <1>3, MintKept DEF IInv, CheckInvite, tables, history

LEMMA PurgeKeepsIInv ==
    ASSUME IInv, PurgeExpiredCodes
    PROVE  IInv'
<1>1. /\ code' \in [Code -> CodeRow \cup {NoRow}]
      /\ \A c \in Code : code'[c] = NoRow \/ code'[c] = code[c]
      /\ \A c \in Code : code[c] # NoRow /\ code[c].used => code'[c] = code[c]
  BY DEF IInv, TypeOK, PurgeExpiredCodes, Abandoned
<1>2. UNCHANGED <<relay, now, token, bound, members, origin, audit, joins, invites,
                  failures, crashes, redeemed, wrong, cut, turnedAway>>
  BY DEF PurgeExpiredCodes, history
<1>3. TypeOK' /\ InvitesOK' /\ LimiterOK'
  BY <1>1, <1>2, LimiterKept DEF IInv, TypeOK, InvitesOK
<1>4. RowsOK'
  BY <1>1, <1>2 DEF IInv, RowsOK
<1>5. RedeemedOK' /\ OriginsOK'
  BY <1>1, <1>2 DEF IInv, RedeemedOK, OriginsOK, TypeOK
<1> QED  BY <1>2, <1>3, <1>4, <1>5, MintKept DEF IInv

----------------------------------------------------------------------------
\* Joining.

\* A client that succeeds starts over.
LEMMA Cleared ==
    ASSUME IInv, NEW k \in Client, Clear(k), now' = now
    PROVE  /\ LimiterOK'
           /\ failures' \in [Client -> SUBSET Failure] /\ wrong' \in [Client -> SUBSET Failure]
<1>1. /\ failures' = [l \in Client |-> IF l \in {k} THEN {} ELSE failures[l]]
      /\ wrong' = [l \in Client |-> IF l \in {k} THEN {} ELSE wrong[l]]
      /\ failures \in [Client -> SUBSET Failure] /\ wrong \in [Client -> SUBSET Failure]
  BY DEF Clear, IInv, TypeOK
<1>2. {k} \in SUBSET Client
  OBVIOUS
<1> QED  BY <1>1, <1>2, LimiterCleared

\* The agent a code brings in is new to everything.
LEMMA NewcomerIsUnknown ==
    ASSUME IInv, NEW a \in Agent, NewAgent(a)
    PROVE  /\ \A c \in Code : <<c, a>> \notin redeemed
           /\ \A h \in joins : a \notin Party(h)
           /\ \A p \in Pairing : a \notin members[p]
           /\ \A p \in Pairing, action \in Action : Never(p, action, a)
<1>1. a \notin DOMAIN token
  BY DEF NewAgent
<1>2. \A p \in Pairing, action \in Action : Never(p, action, a)
  <2> SUFFICES ASSUME NEW p \in Pairing, NEW action \in Action, NEW i \in DOMAIN audit[p]
      PROVE audit[p][i] # [action |-> action, agent |-> a]
    BY DEF Never
  <2> QED  BY <1>1 DEF IInv, AuditOK
<1>3. \A p \in Pairing : a \notin members[p]
  BY <1>1 DEF IInv, TypeOK
<1>4. \A c \in Code : <<c, a>> \notin redeemed
  BY <1>1 DEF IInv, RedeemedOK
<1>5. \A h \in joins : a \notin Party(h)
  BY <1>1 DEF IInv, JoinsOK, JoinOK, JoinTokens
<1> QED  BY <1>2, <1>3, <1>4, <1>5

\* A first code that was not used: its creator waits, in no pairing.
LEMMA CreatorWaits ==
    ASSUME IInv, NEW c \in Code, code[c] # NoRow, ~code[c].used, code[c].pairing = NoPairing
    PROVE  LET b == code[c].creator IN
           /\ b \in DOMAIN token /\ b \in Agent /\ token[b] = NoPairing
           /\ \A d \in Code : <<d, b>> \notin redeemed
           /\ \A h \in joins : b \notin Party(h)
<1> DEFINE b == code[c].creator
<1>1. b \in DOMAIN token /\ b \in Agent /\ token[b] = NoPairing
  BY DEF IInv, RowsOK, TypeOK
<1>2. \A d \in Code : <<d, b>> \notin redeemed
  BY <1>1 DEF IInv, RedeemedOK
<1>3. \A h \in joins : b \notin Party(h)
  <2> SUFFICES ASSUME NEW h \in joins, b \in Party(h) PROVE FALSE
    OBVIOUS
  <2>1. token[b] = h.pairing /\ h.pairing \in Pairing
    BY DEF IInv, TypeOK, JoinsOK, JoinOK, JoinTokens, JoinInProgress
  <2> QED  BY <1>1, <2>1, PairingCodesAssumption
<1> QED  BY <1>1, <1>2, <1>3

LEMMA JoinPairingKeepsIInv ==
    ASSUME IInv, NEW k \in Client, NEW c \in Code, NEW a \in Agent, NEW p \in Pairing,
           JoinPairing(k, c, a, p)
    PROVE  IInv'
<1> USE PairingCodesAssumption
<1>0. PICK b \in Agent : b = code[c].creator
  BY RowOrNot DEF IInv, JoinPairing, Redeemable, CodeRow
<1>j. PICK j \in JoinInProgress :
          j = [at |-> FirstStage, agent |-> a, pairing |-> p, creator |-> b]
  <2>1. [at |-> FirstStage, agent |-> a, pairing |-> p, creator |-> b] \in JoinInProgress
    BY DEF JoinInProgress, Stage, FirstStage
  <2> QED  BY <2>1
\* What the step reads and writes.
<1>1. /\ code[c] # NoRow /\ ~code[c].used /\ code[c].pairing = NoPairing
      /\ code[c] \in CodeRow /\ NewAgent(a) /\ origin[p] = Nobody /\ a \notin DOMAIN token
  BY RowOrNot DEF JoinPairing, Redeemable, NewAgent, IInv
<1>2. /\ b \in DOMAIN token /\ token[b] = NoPairing
      /\ \A d \in Code : <<d, b>> \notin redeemed
      /\ \A h \in joins : b \notin Party(h)
  BY <1>0, <1>1, CreatorWaits
<1>3. /\ \A d \in Code : <<d, a>> \notin redeemed
      /\ \A h \in joins : a \notin Party(h)
      /\ \A q \in Pairing, action \in Action : Never(q, action, a)
  BY <1>1, NewcomerIsUnknown
<1>4. /\ members[p] = {} /\ \A x \in DOMAIN token : token[x] # p
  BY <1>1 DEF IInv, OriginsOK
<1>5. a # b /\ a # Nobody /\ b # Nobody /\ p # NoPairing
  BY <1>1, <1>2
<1>6. /\ DOMAIN token' = DOMAIN token \cup {a}
      /\ token'[a] = p /\ token'[b] = p
      /\ \A x \in DOMAIN token \ {b} : token'[x] = token[x]
  <2>1. token' = [GiveToken(a, p) EXCEPT ![b] = p]
    BY <1>0 DEF JoinPairing
  <2> QED  BY <1>1, <1>2, <1>5, <2>1 DEF GiveToken
<1>7. /\ code' = [code EXCEPT ![c].used = TRUE]
      /\ redeemed' = redeemed \cup {<<c, a>>}
      /\ origin' = [origin EXCEPT ![p] = c]
      /\ joins' = joins \cup {j}
      /\ Clear(k)
      /\ UNCHANGED <<relay, now, audit, invites, crashes, cut, turnedAway>>
  BY <1>0, <1>j DEF JoinPairing, Consume
<1>8. /\ \A q \in Pairing \ {p} : members'[q] = members[q] /\ origin'[q] = origin[q]
      /\ \A x \in Agent \ {a, b} : bound'[x] = bound[x]
      /\ \A q \in Pairing : members[q] \subseteq members'[q]
      /\ members'[p] = IF relay = "node" THEN {b, a} ELSE {}
      /\ relay # "node" => bound'[a] = p /\ bound'[b] = p
      /\ bound' \in [Agent -> Pairing \cup {NoPairing}]
      /\ members' \in [Pairing -> SUBSET DOMAIN token']
  <2>1. /\ members \in [Pairing -> SUBSET DOMAIN token]
        /\ bound \in [Agent -> Pairing \cup {NoPairing}]
        /\ origin \in [Pairing -> Code \cup {Nobody}]
    BY DEF IInv, TypeOK
  <2>2. IF relay = "node"
        THEN members' = [members EXCEPT ![p] = {b, a}] /\ bound' = bound
        ELSE bound' = [bound EXCEPT ![b] = p, ![a] = p] /\ members' = members
    BY <1>0 DEF JoinPairing
  <2>3. b \in DOMAIN token' /\ a \in DOMAIN token' /\ DOMAIN token \subseteq DOMAIN token'
    BY <1>2, <1>6
  <2>4. CASE relay = "node"
    <3>1. members' = [members EXCEPT ![p] = {b, a}] /\ bound' = bound
      BY <2>2, <2>4
    <3>2. members' \in [Pairing -> SUBSET DOMAIN token']
      BY <2>1, <2>3, <3>1
    <3> QED  BY <1>4, <1>7, <2>1, <2>4, <3>1, <3>2
  <2>5. CASE relay # "node"
    <3>1. members' = members /\ bound' = [bound EXCEPT ![b] = p, ![a] = p]
      BY <2>2, <2>5
    <3>2. members' \in [Pairing -> SUBSET DOMAIN token']
      BY <2>1, <2>3, <3>1
    <3>3. /\ bound' \in [Agent -> Pairing \cup {NoPairing}]
          /\ bound'[a] = p /\ bound'[b] = p
          /\ \A x \in Agent \ {a, b} : bound'[x] = bound[x]
      BY <2>1, <3>1
    <3> QED  BY <1>4, <1>7, <2>1, <2>5, <3>1, <3>2, <3>3
  <2> QED  BY <2>4, <2>5
<1>9. /\ code' \in [Code -> CodeRow \cup {NoRow}]
      /\ \A d \in Code \ {c} : code'[d] = code[d]
      /\ code'[c] # NoRow /\ code'[c].used
      /\ code'[c].pairing = NoPairing /\ code'[c].creator = b
  BY <1>0, <1>1, <1>7 DEF IInv, TypeOK, CodeRow, NoRow
\* What that keeps.
<1>10. TypeOK' /\ \A q \in Pairing : IsFiniteSet(members'[q])
  <2>1. IsFiniteSet({b, a}) /\ Cardinality({b, a}) \in {1, 2} /\ IsFiniteSet({}) /\ Cardinality({}) = 0
    <3>1. IsFiniteSet({b}) /\ Cardinality({b}) = 1 /\ {b, a} = {b} \cup {a}
      BY FS_Singleton
    <3>2. /\ IsFiniteSet({b} \cup {a})
          /\ \/ Cardinality({b} \cup {a}) = Cardinality({b})
             \/ Cardinality({b} \cup {a}) = Cardinality({b}) + 1
      BY <3>1, FS_AddElement
    <3>3. IsFiniteSet({}) /\ Cardinality({}) = 0
      BY FS_EmptySet
    <3> QED  BY <3>1, <3>2, <3>3
  <2>2. \A q \in Pairing : /\ IsFiniteSet(members'[q])
                           /\ Cardinality(members'[q]) <= MaxMembers
    <3>1. \A q \in Pairing : IsFiniteSet(members[q]) /\ Cardinality(members[q]) <= MaxMembers
      BY DEF IInv, TypeOK
    <3>2. members'[p] = {b, a} \/ members'[p] = {}
      BY <1>8
    <3>3. IsFiniteSet(members'[p]) /\ Cardinality(members'[p]) <= MaxMembers
      BY <2>1, <3>2
    <3> QED  BY <1>8, <3>1, <3>3
  <2>3. /\ origin' \in [Pairing -> Code \cup {Nobody}]
        /\ joins' \subseteq JoinInProgress
    BY <1>7 DEF IInv, TypeOK
  <2>5. /\ \A x \in DOMAIN token' : token'[x] \in Pairing \cup {NoPairing}
        /\ DOMAIN token' \subseteq Agent
    <3> QED  BY <1>6 DEF IInv, TypeOK
  <2>4. failures' \in [Client -> SUBSET Failure] /\ wrong' \in [Client -> SUBSET Failure]
    BY <1>7, Cleared
  <2> QED  BY <1>7, <1>8, <1>9, <2>2, <2>3, <2>4, <2>5 DEF IInv, TypeOK
<1>11. RowsOK'
  <2>1. \A d \in Code : code[d] # NoRow => code[d] \in CodeRow
    BY RowOrNot DEF IInv
  <2>2. \A d \in Code : code'[d] # NoRow => code[d] # NoRow
    BY <1>1, <1>9
  <2>3. \A d \in Code : /\ code'[d].creator = code[d].creator
                         /\ code'[d].pairing = code[d].pairing
    BY <1>0, <1>1, <1>9
  <2>7. \A d \in Code : ~code'[d].used => ~code[d].used /\ d # c
    BY <1>9
  <2>4. \A d \in Code \ {c} : code[d] # NoRow /\ code[d].pairing = NoPairing
            => code[d].creator # b
    BY <1>0, <1>1 DEF IInv, RowsOK
  <2>5. ASSUME NEW d \in Code, code'[d] # NoRow
        PROVE  /\ code'[d].creator \in DOMAIN token'
               /\ code'[d].pairing # NoPairing => members'[code'[d].pairing] # {}
               /\ code'[d].pairing = NoPairing /\ ~code'[d].used
                     => token'[code'[d].creator] = NoPairing
    <3>1. /\ code[d] # NoRow /\ code[d] \in CodeRow /\ code[d].creator \in DOMAIN token
          /\ code[d].pairing # NoPairing => members[code[d].pairing] # {}
          /\ code[d].pairing = NoPairing /\ ~code[d].used
                => token[code[d].creator] = NoPairing
      BY <2>1, <2>2, <2>5 DEF IInv, RowsOK
    <3>2. code[d].pairing # NoPairing => code[d].pairing \in Pairing
      BY <3>1 DEF CodeRow
    <3>3. code'[d].creator = code[d].creator /\ code'[d].pairing = code[d].pairing
      BY <2>3
    <3>4. code'[d].pairing # NoPairing => members'[code'[d].pairing] # {}
      BY <1>8, <3>1, <3>2, <3>3
    <3>5. code'[d].pairing = NoPairing /\ ~code'[d].used
             => token'[code'[d].creator] = NoPairing
      BY <1>6, <2>4, <2>7, <3>1, <3>3
    <3> QED  BY <1>6, <3>1, <3>3, <3>4, <3>5
  <2>6. ASSUME NEW d \in Code, NEW e \in Code,
               code'[d] # NoRow, code'[d].pairing = NoPairing,
               code'[e] # NoRow, code'[e].pairing = NoPairing,
               code'[d].creator = code'[e].creator
        PROVE  d = e
    <3>1. /\ code[d] # NoRow /\ code[d].pairing = NoPairing
          /\ code[e] # NoRow /\ code[e].pairing = NoPairing
          /\ code[d].creator = code[e].creator
      <4>1. code[d] # NoRow /\ code[e] # NoRow
        BY <2>2, <2>6
      <4>2. /\ code'[d].creator = code[d].creator /\ code'[d].pairing = code[d].pairing
            /\ code'[e].creator = code[e].creator /\ code'[e].pairing = code[e].pairing
        BY <2>3
      <4> QED  BY <2>6, <4>1, <4>2
    <3> QED  BY <3>1 DEF IInv, RowsOK
  <2> QED  BY <2>5, <2>6 DEF RowsOK
<1>12. RedeemedOK'
  <2>1. \A d \in Code, x \in Agent :
            <<d, x>> \in redeemed' <=> <<d, x>> \in redeemed \/ (d = c /\ x = a)
    BY <1>7
  <2>2. \A x \in Agent : <<c, x>> \notin redeemed
    BY <1>1 DEF IInv, RedeemedOK
  <2>3. /\ redeemed' \subseteq Code \X Agent
        /\ \A d, e \in Code, x, y \in Agent :
              <<d, x>> \in redeemed' /\ <<e, y>> \in redeemed' => (d = e <=> x = y)
    BY <1>3, <1>7, <2>1, <2>2 DEF IInv, RedeemedOK
  <2>4. \A d \in Code, x \in Agent : <<d, x>> \in redeemed' =>
            /\ code'[d] # NoRow /\ code'[d].used
            /\ x \in DOMAIN token' /\ token'[x] # NoPairing
    BY <1>5, <1>6, <1>9, <2>1 DEF IInv, RedeemedOK
  <2> QED  BY <2>3, <2>4 DEF RedeemedOK
<1>13. OriginsOK'
  <2>1. \A q \in Pairing : origin[q] # c
    BY <1>1, <1>5 DEF IInv, OriginsOK
  <2>2. \A q \in Pairing \ {p} : origin[q] # Nobody => origin[q] \in Code \ {c}
    BY <2>1 DEF IInv, TypeOK
  <2>3. origin'[p] = c /\ c # Nobody
    BY <1>7 DEF IInv, TypeOK
  <2> QED  BY <1>6, <1>8, <1>9, <2>1, <2>2, <2>3 DEF IInv, OriginsOK
<1>14. InvitesOK' /\ AuditOK' /\ LimiterOK'
  BY <1>6, <1>7, <1>8, Cleared DEF IInv, TypeOK, InvitesOK, AuditOK
<1>15. JoinsOK'
  <2>1. JoinOK(j)'
    <3>1. /\ j.agent = a /\ j.creator = b /\ j.pairing = p /\ Party(j)' = {a, b}
          /\ j.at \in {"bind", "room"} /\ (j.at = "bind" <=> relay = "node")
      BY <1>j, <1>5 DEF Party, FirstStage
    <3>2. \A action \in Action : Never(p, action, a)'
      BY <1>3, <1>7 DEF Never
    <3>3. \A d \in Code : <<d, b>> \notin redeemed'
      BY <1>2, <1>5, <1>7
    <3>4. origin'[p] = c /\ <<c, a>> \in redeemed'
      BY <1>7 DEF IInv, TypeOK
    <3>5. JoinTokens(j)'
      BY <1>2, <1>5, <1>6, <3>1 DEF JoinTokens
    <3>8. JoinCodes(j)'
      BY <1>5, <3>1, <3>3, <3>4 DEF JoinCodes
    <3>6. JoinMembers(j)' /\ JoinBound(j)'
      <4>1. relay' = relay /\ relay \in {"node", "cloud"}
        BY <1>7 DEF IInv, TypeOK
      <4>2. members'[p] = IF j.at = "room" THEN {} ELSE {a, b}
        BY <1>8, <3>1
      <4> QED  BY <1>5, <1>8, <3>1, <4>1, <4>2 DEF JoinMembers, JoinBound
    <3>7. JoinLog(j)'
      BY <3>1, <3>2 DEF JoinLog, Action
    <3> QED  BY <3>5, <3>6, <3>7, <3>8 DEF JoinOK
  <2>2. ASSUME NEW h \in joins PROVE JoinOK(h)'
    <3>1. /\ JoinOK(h) /\ a \notin Party(h) /\ b \notin Party(h)
          /\ h \in JoinInProgress
      BY <1>2, <1>3 DEF IInv, JoinsOK, TypeOK
    <3>2. /\ h.pairing \in Pairing /\ h.agent \in Agent /\ h.agent # a /\ h.creator # a
          /\ Party(h) \subseteq Agent /\ Party(h) \subseteq DOMAIN token
          /\ h.agent \in Party(h) /\ (h.creator # Nobody => h.creator \in Party(h))
      BY <1>5, <3>1 DEF JoinOK, JoinTokens, Party, JoinInProgress
    <3>3. h.pairing # p
      BY <1>4, <3>1, <3>2 DEF JoinOK, JoinTokens
    <3>4. JoinTokens(h)'
      BY <1>6, <3>1, <3>2 DEF JoinOK, JoinTokens, Party
    <3>5. JoinCodes(h)'
      <4>1. origin'[h.pairing] = origin[h.pairing]
        BY <1>8, <3>2, <3>3
      <4>2. \A d : /\ <<d, h.agent>> \in redeemed' <=> <<d, h.agent>> \in redeemed
                   /\ <<d, h.creator>> \in redeemed' <=> <<d, h.creator>> \in redeemed
        BY <1>7, <3>2
      <4> QED  BY <3>1, <4>1, <4>2 DEF JoinOK, JoinCodes
    <3>6. JoinMembers(h)' /\ JoinBound(h)'
      <4>1. /\ members'[h.pairing] = members[h.pairing]
            /\ bound'[h.agent] = bound[h.agent]
            /\ h.creator # Nobody => bound'[h.creator] = bound[h.creator]
            /\ relay' = relay
        BY <1>7, <1>8, <3>1, <3>2, <3>3
      <4> QED  BY <3>1, <4>1 DEF JoinOK, JoinMembers, JoinBound, Party
    <3>7. JoinLog(h)'
      BY <1>7, <3>1 DEF JoinOK, JoinLog, Never, Once
    <3> QED  BY <3>4, <3>5, <3>6, <3>7 DEF JoinOK
  <2>3. \A h \in joins : h.agent # a
    BY <1>3, <1>5 DEF Party
  <2>4. j.agent = a
    BY <1>j
  <2> QED  BY <1>7, <2>1, <2>2, <2>3, <2>4 DEF IInv, JoinsOK
<1>16. JoinIsWhole'
  <2> SUFFICES ASSUME NEW x \in DOMAIN token', token'[x] # NoPairing, Settled(x)'
      PROVE  Whole(x)'
    BY DEF JoinIsWhole
  <2>1. x \notin {a, b}
    <3>1. j \in joins' /\ j.agent = a /\ j.creator = b
      BY <1>j, <1>7
    <3> QED  BY <3>1 DEF Settled
  <2>2. x \in DOMAIN token /\ token'[x] = token[x] /\ Settled(x) /\ x \in Agent
    BY <1>6, <1>7, <2>1 DEF Settled, IInv, TypeOK
  <2>3. token[x] \in Pairing /\ token[x] # p
    BY <1>4, <2>2 DEF IInv, TypeOK
  <2>4. /\ members'[token[x]] = members[token[x]] /\ origin'[token[x]] = origin[token[x]]
        /\ bound'[x] = bound[x] /\ \A d : <<d, x>> \in redeemed' <=> <<d, x>> \in redeemed
    BY <1>7, <1>8, <2>1, <2>2, <2>3
  <2>5. Whole(x)
    BY <2>2 DEF IInv, JoinIsWhole
  <2> QED  BY <1>7, <2>2, <2>4, <2>5 DEF Whole, Once
<1> QED
  BY <1>10, <1>11, <1>12, <1>13, <1>14, <1>15, <1>16 DEF IInv

LEMMA JoinExistingPairingKeepsIInv ==
    ASSUME IInv, NEW k \in Client, NEW c \in Code, NEW a \in Agent,
           JoinExistingPairing(k, c, a)
    PROVE  IInv'
<1> USE PairingCodesAssumption
\* What the step reads and writes.
<1>1. /\ code[c] # NoRow /\ ~code[c].used /\ code[c].pairing # NoPairing
      /\ code[c] \in CodeRow /\ NewAgent(a) /\ a \notin DOMAIN token
  BY RowOrNot DEF JoinExistingPairing, Redeemable, NewAgent, IInv
<1>2. PICK p \in Pairing : p = code[c].pairing
  BY <1>1 DEF CodeRow
<1>j. PICK j \in JoinInProgress :
          j = [at |-> IF relay = "node" THEN "issue" ELSE "room",
               agent |-> a, pairing |-> p, creator |-> Nobody]
  <2>1. [at |-> IF relay = "node" THEN "issue" ELSE "room",
         agent |-> a, pairing |-> p, creator |-> Nobody] \in JoinInProgress
    BY DEF JoinInProgress, Stage
  <2> QED  BY <2>1
<1>3. /\ \A d \in Code : <<d, a>> \notin redeemed
      /\ \A h \in joins : a \notin Party(h)
      /\ \A q \in Pairing : a \notin members[q]
      /\ \A q \in Pairing, action \in Action : Never(q, action, a)
  BY <1>1, NewcomerIsUnknown
<1>4. members[p] # {} /\ origin[p] # Nobody /\ origin[p] # c
  BY <1>1, <1>2 DEF IInv, RowsOK, OriginsOK
<1>5. a # Nobody /\ p # NoPairing
  OBVIOUS
<1>6. /\ DOMAIN token' = DOMAIN token \cup {a} /\ token'[a] = p
      /\ \A x \in DOMAIN token : token'[x] = token[x]
  BY <1>1, <1>2 DEF JoinExistingPairing, GiveToken
<1>7. /\ code' = [code EXCEPT ![c].used = TRUE]
      /\ redeemed' = redeemed \cup {<<c, a>>}
      /\ joins' = joins \cup {j}
      /\ Clear(k)
      /\ UNCHANGED <<relay, now, origin, audit, invites, crashes, cut, turnedAway>>
  BY <1>2, <1>j DEF JoinExistingPairing, Consume
<1>8. /\ \A q \in Pairing \ {p} : members'[q] = members[q]
      /\ \A x \in Agent \ {a} : bound'[x] = bound[x]
      /\ members'[p] = IF relay = "node" THEN members[p] \cup {a} ELSE members[p]
      /\ relay # "node" => bound'[a] = p
      /\ bound' \in [Agent -> Pairing \cup {NoPairing}]
      /\ members' \in [Pairing -> SUBSET DOMAIN token']
  <2>1. /\ members \in [Pairing -> SUBSET DOMAIN token]
        /\ bound \in [Agent -> Pairing \cup {NoPairing}]
    BY DEF IInv, TypeOK
  <2>2. a \in DOMAIN token' /\ DOMAIN token \subseteq DOMAIN token'
    BY <1>6
  <2>3. CASE relay = "node"
    <3>1. members' = [members EXCEPT ![p] = @ \cup {a}] /\ bound' = bound
      BY <1>2, <2>3 DEF JoinExistingPairing
    <3>2. members' \in [Pairing -> SUBSET DOMAIN token']
      BY <2>1, <2>2, <3>1
    <3> QED  BY <2>1, <2>3, <3>1, <3>2
  <2>4. CASE relay # "node"
    <3>1. members' = members /\ bound' = [bound EXCEPT ![a] = p]
      BY <1>2, <2>4 DEF JoinExistingPairing
    <3>2. members' \in [Pairing -> SUBSET DOMAIN token']
      BY <2>1, <2>2, <3>1
    <3> QED  BY <2>1, <2>4, <3>1, <3>2
  <2> QED  BY <2>3, <2>4
<1>9. /\ code' \in [Code -> CodeRow \cup {NoRow}]
      /\ \A d \in Code \ {c} : code'[d] = code[d]
      /\ code'[c] # NoRow /\ code'[c].used
      /\ code'[c].pairing = p /\ code'[c].creator = code[c].creator
  BY <1>1, <1>2, <1>7 DEF IInv, TypeOK, CodeRow, NoRow
<1>17. \A q \in Pairing : members[q] \subseteq members'[q]
  BY <1>8
\* What that keeps.
<1>10. TypeOK' /\ \A q \in Pairing : IsFiniteSet(members'[q])
  <2>1. \A q \in Pairing : IsFiniteSet(members[q]) /\ Cardinality(members[q]) <= MaxMembers
    BY DEF IInv, TypeOK
  <2>2. IsFiniteSet(members'[p]) /\ Cardinality(members'[p]) <= MaxMembers
    <3>1. CASE relay = "node"
      <4>1. Cardinality(members[p]) < MaxMembers /\ Cardinality(members[p]) \in Nat
        BY <1>2, <1>5, <2>1, <3>1, FS_CardinalityType DEF JoinExistingPairing, HasRoom, Full
      <4>2. /\ IsFiniteSet(members[p] \cup {a})
            /\ \/ Cardinality(members[p] \cup {a}) = Cardinality(members[p])
               \/ Cardinality(members[p] \cup {a}) = Cardinality(members[p]) + 1
        BY <2>1, FS_AddElement
      <4>3. members'[p] = members[p] \cup {a}
        BY <1>8, <3>1
      <4> QED  BY <4>1, <4>2, <4>3
    <3>2. CASE relay # "node"
      BY <1>8, <2>1, <3>2
    <3> QED  BY <3>1, <3>2
  <2>3. joins' \subseteq JoinInProgress
    BY <1>7 DEF IInv, TypeOK
  <2>5. /\ \A x \in DOMAIN token' : token'[x] \in Pairing \cup {NoPairing}
        /\ DOMAIN token' \subseteq Agent
    BY <1>6 DEF IInv, TypeOK
  <2>4. failures' \in [Client -> SUBSET Failure] /\ wrong' \in [Client -> SUBSET Failure]
    BY <1>7, Cleared
  <2>6. \A q \in Pairing : IsFiniteSet(members'[q]) /\ Cardinality(members'[q]) <= MaxMembers
    BY <1>8, <2>1, <2>2
  <2> QED  BY <1>7, <1>8, <1>9, <2>3, <2>4, <2>5, <2>6 DEF IInv, TypeOK
<1>11. RowsOK'
  <2>1. \A d \in Code : code[d] # NoRow => code[d] \in CodeRow
    BY RowOrNot DEF IInv
  <2>2. \A d \in Code : code'[d] # NoRow => code[d] # NoRow
    BY <1>1, <1>9
  <2>3. \A d \in Code : /\ code'[d].creator = code[d].creator
                         /\ code'[d].pairing = code[d].pairing
    BY <1>1, <1>2, <1>9
  <2>4. \A d \in Code : ~code'[d].used => ~code[d].used
    BY <1>9
  <2>5. ASSUME NEW d \in Code, code'[d] # NoRow
        PROVE  /\ code'[d].creator \in DOMAIN token'
               /\ code'[d].pairing # NoPairing => members'[code'[d].pairing] # {}
               /\ code'[d].pairing = NoPairing /\ ~code'[d].used
                     => token'[code'[d].creator] = NoPairing
    <3>1. /\ code[d] # NoRow /\ code[d] \in CodeRow /\ code[d].creator \in DOMAIN token
          /\ code[d].pairing # NoPairing => members[code[d].pairing] # {}
          /\ code[d].pairing = NoPairing /\ ~code[d].used
                => token[code[d].creator] = NoPairing
      BY <2>1, <2>2, <2>5 DEF IInv, RowsOK
    <3>2. code[d].pairing # NoPairing => code[d].pairing \in Pairing
      BY <3>1 DEF CodeRow
    <3>3. code'[d].creator = code[d].creator /\ code'[d].pairing = code[d].pairing
      BY <2>3
    <3>4. code'[d].pairing # NoPairing => members'[code'[d].pairing] # {}
      BY <1>17, <3>1, <3>2, <3>3
    <3>5. code'[d].pairing = NoPairing /\ ~code'[d].used
             => token'[code'[d].creator] = NoPairing
      BY <1>6, <2>4, <3>1, <3>3
    <3> QED  BY <1>6, <3>1, <3>3, <3>4, <3>5
  <2>6. ASSUME NEW d \in Code, NEW e \in Code,
               code'[d] # NoRow, code'[d].pairing = NoPairing,
               code'[e] # NoRow, code'[e].pairing = NoPairing,
               code'[d].creator = code'[e].creator
        PROVE  d = e
    <3>1. code[d] # NoRow /\ code[e] # NoRow
      BY <2>2, <2>6
    <3>2. /\ code'[d].creator = code[d].creator /\ code'[d].pairing = code[d].pairing
          /\ code'[e].creator = code[e].creator /\ code'[e].pairing = code[e].pairing
      BY <2>3
    <3> QED  BY <2>6, <3>1, <3>2 DEF IInv, RowsOK
  <2> QED  BY <2>5, <2>6 DEF RowsOK
<1>12. RedeemedOK'
  <2>1. \A d \in Code, x \in Agent :
            <<d, x>> \in redeemed' <=> <<d, x>> \in redeemed \/ (d = c /\ x = a)
    BY <1>7
  <2>2. \A x \in Agent : <<c, x>> \notin redeemed
    BY <1>1 DEF IInv, RedeemedOK
  <2>3. /\ redeemed' \subseteq Code \X Agent
        /\ \A d, e \in Code, x, y \in Agent :
              <<d, x>> \in redeemed' /\ <<e, y>> \in redeemed' => (d = e <=> x = y)
    BY <1>3, <1>7, <2>1, <2>2 DEF IInv, RedeemedOK
  <2>4. \A d \in Code, x \in Agent : <<d, x>> \in redeemed' =>
            /\ code'[d] # NoRow /\ code'[d].used
            /\ x \in DOMAIN token' /\ token'[x] # NoPairing
    BY <1>5, <1>6, <1>9, <2>1 DEF IInv, RedeemedOK
  <2> QED  BY <2>3, <2>4 DEF RedeemedOK
<1>13. OriginsOK'
  <2>1. \A q \in Pairing : origin[q] # c
    BY <1>1, <1>5 DEF IInv, OriginsOK
  <2>2. \A q \in Pairing : origin[q] # Nobody => origin[q] \in Code \ {c}
    BY <2>1 DEF IInv, TypeOK
  <2> QED  BY <1>4, <1>6, <1>7, <1>8, <1>9, <2>2 DEF IInv, OriginsOK
<1>14. InvitesOK' /\ AuditOK' /\ LimiterOK'
  BY <1>6, <1>7, <1>17, Cleared DEF IInv, TypeOK, InvitesOK, AuditOK
<1>15. JoinsOK'
  <2>1. JoinOK(j)'
    <3>1. /\ j.agent = a /\ j.creator = Nobody /\ j.pairing = p /\ Party(j)' = {a}
          /\ j.at \in {"issue", "room"} /\ (j.at = "issue" <=> relay = "node")
      BY <1>j, <1>5 DEF Party
    <3>2. \A action \in Action : Never(p, action, a)'
      BY <1>3, <1>7 DEF Never
    <3>3. \A d \in Code : <<d, Nobody>> \notin redeemed'
      BY <1>7 DEF IInv, RedeemedOK
    <3>4. <<origin'[p], a>> \notin redeemed' /\ <<c, a>> \in redeemed'
      BY <1>3, <1>4, <1>7 DEF IInv, TypeOK
    <3>5. JoinTokens(j)'
      BY <1>5, <1>6, <3>1 DEF JoinTokens
    <3>6. JoinCodes(j)'
      BY <3>1, <3>3, <3>4 DEF JoinCodes
    <3>7. JoinMembers(j)' /\ JoinBound(j)'
      <4>1. relay' = relay /\ relay \in {"node", "cloud"}
        BY <1>7 DEF IInv, TypeOK
      <4>2. members'[p] = IF j.at = "room" THEN members[p] ELSE members[p] \cup {a}
        BY <1>8, <3>1
      <4> QED  BY <1>3, <1>4, <1>8, <3>1, <4>1, <4>2 DEF JoinMembers, JoinBound
    <3>8. JoinLog(j)'
      BY <3>1, <3>2 DEF JoinLog, Action
    <3> QED  BY <3>5, <3>6, <3>7, <3>8 DEF JoinOK
  <2>2. ASSUME NEW h \in joins PROVE JoinOK(h)'
    <3>1. JoinOK(h) /\ a \notin Party(h) /\ h \in JoinInProgress
      BY <1>3 DEF IInv, JoinsOK, TypeOK
    <3>2. /\ h.pairing \in Pairing /\ h.agent \in Agent /\ h.agent # a /\ h.creator # a
          /\ Party(h) \subseteq Agent /\ Party(h) \subseteq DOMAIN token
          /\ h.agent \in Party(h) /\ (h.creator # Nobody => h.creator \in Party(h))
      BY <1>5, <3>1 DEF JoinOK, JoinTokens, Party, JoinInProgress
    <3>4. JoinTokens(h)'
      BY <1>6, <3>1, <3>2 DEF JoinOK, JoinTokens, Party
    <3>5. JoinCodes(h)'
      <4>1. \A d : /\ <<d, h.agent>> \in redeemed' <=> <<d, h.agent>> \in redeemed
                   /\ <<d, h.creator>> \in redeemed' <=> <<d, h.creator>> \in redeemed
        BY <1>7, <3>2
      <4> QED  BY <1>7, <3>1, <4>1 DEF JoinOK, JoinCodes
    <3>6. JoinBound(h)'
      <4>1. /\ bound'[h.agent] = bound[h.agent]
            /\ h.creator # Nobody => bound'[h.creator] = bound[h.creator]
        BY <1>8, <3>2
      <4> QED  BY <3>1, <4>1 DEF JoinOK, JoinBound
    <3>7. JoinMembers(h)'
      <4>1. /\ members[h.pairing] \subseteq members'[h.pairing]
            /\ members'[h.pairing] \subseteq members[h.pairing] \cup {a}
            /\ members[h.pairing] = {} => members'[h.pairing] = {}
            /\ relay' = relay
        BY <1>4, <1>7, <1>8, <3>2
      <4> QED  BY <3>1, <3>2, <4>1 DEF JoinOK, JoinMembers, Party
    <3>8. JoinLog(h)'
      BY <1>7, <3>1 DEF JoinOK, JoinLog, Never, Once
    <3> QED  BY <3>4, <3>5, <3>6, <3>7, <3>8 DEF JoinOK
  <2>3. \A h \in joins : h.agent # a
    BY <1>3, <1>5 DEF Party
  <2>4. j.agent = a
    BY <1>j
  <2> QED  BY <1>7, <2>1, <2>2, <2>3, <2>4 DEF IInv, JoinsOK
<1>16. JoinIsWhole'
  <2> SUFFICES ASSUME NEW x \in DOMAIN token', token'[x] # NoPairing, Settled(x)'
      PROVE  Whole(x)'
    BY DEF JoinIsWhole
  <2>1. x # a
    <3>1. j \in joins' /\ j.agent = a
      BY <1>j, <1>7
    <3> QED  BY <3>1 DEF Settled
  <2>2. x \in DOMAIN token /\ token'[x] = token[x] /\ Settled(x) /\ x \in Agent
    BY <1>6, <1>7, <2>1 DEF Settled, IInv, TypeOK
  <2>3. token[x] \in Pairing
    BY <2>2 DEF IInv, TypeOK
  <2>4. /\ x \in members'[token[x]] <=> x \in members[token[x]]
        /\ bound'[x] = bound[x] /\ \A d : <<d, x>> \in redeemed' <=> <<d, x>> \in redeemed
    BY <1>7, <1>8, <2>1, <2>2, <2>3
  <2>5. Whole(x)
    BY <2>2 DEF IInv, JoinIsWhole
  <2>6. \A q, action : Once(q, action, x)' <=> Once(q, action, x)
    BY <1>7 DEF Once
  <2>7. UNCHANGED <<relay, turnedAway, origin>>
    BY <1>7
  <2> QED  BY <2>2, <2>4, <2>5, <2>6, <2>7 DEF Whole
<1> QED
  BY <1>10, <1>11, <1>12, <1>13, <1>14, <1>15, <1>16 DEF IInv

----------------------------------------------------------------------------
\* The rest of a join.

\* Two joins under way have no agent in common, and a pairing has one first join.
LEMMA JoinsApart ==
    ASSUME IInv, NEW g \in joins, NEW h \in joins, g # h
    PROVE  /\ Party(g) \cap Party(h) = {}
           /\ g.pairing = h.pairing => g.creator = Nobody \/ h.creator = Nobody
<1> USE PairingCodesAssumption
<1>1. /\ g \in JoinInProgress /\ h \in JoinInProgress /\ g.agent # h.agent
      /\ JoinTokens(g) /\ JoinTokens(h) /\ JoinCodes(g) /\ JoinCodes(h)
  BY DEF IInv, TypeOK, JoinsOK, JoinOK
<1>2. g.agent # h.creator /\ h.agent # g.creator
  BY <1>1 DEF JoinCodes
<1>3. g.pairing = h.pairing => g.creator = Nobody \/ h.creator = Nobody
  <2> SUFFICES ASSUME g.pairing = h.pairing, g.creator # Nobody, h.creator # Nobody
      PROVE FALSE
    OBVIOUS
  <2>1. /\ <<origin[g.pairing], g.agent>> \in redeemed
        /\ <<origin[g.pairing], h.agent>> \in redeemed
    BY <1>1 DEF JoinCodes
  <2>2. origin[g.pairing] \in Code /\ g.agent \in Agent /\ h.agent \in Agent
    BY <1>1, <2>1 DEF IInv, RedeemedOK, JoinInProgress
  <2> QED  BY <1>1, <2>1, <2>2 DEF IInv, RedeemedOK
<1>4. ASSUME g.creator # Nobody, g.creator = h.creator PROVE FALSE
  <2>1. g.pairing = h.pairing
    BY <1>1, <1>4 DEF JoinTokens, Party
  <2> QED  BY <1>3, <1>4, <2>1
<1> QED  BY <1>1, <1>2, <1>3, <1>4 DEF Party

\* h goes one call further, or ends, and only its own agents and records change.
Moves(h) ==
    /\ joins \ {h} \subseteq joins' /\ \A f, g \in joins' \ (joins \ {h}) : f = g
    /\ UNCHANGED <<relay, now, code, token, origin, invites, failures, wrong,
                   redeemed, cut>>
    /\ turnedAway \subseteq turnedAway'
    /\ \A q \in Pairing : /\ members[q] \subseteq members'[q]
                          /\ members'[q] \subseteq members[q] \cup Party(h)
                          /\ q # h.pairing => members'[q] = members[q]
                          /\ IsFiniteSet(members'[q])
    /\ \A x \in Agent \ Party(h) : bound'[x] = bound[x]
    /\ \A q \in Pairing, action \in Action, x \in Agent \ {h.agent} :
          /\ Never(q, action, x) => Never(q, action, x)'
          /\ Once(q, action, x) => Once(q, action, x)'

\* It is then where its new call says, or its parts agree.
LEMMA JoinMoves ==
    ASSUME IInv, NEW h \in joins, Moves(h),
           \A g \in joins' \ (joins \ {h}) :
                 JoinOK(g)' /\ g.agent = h.agent /\ g.creator = h.creator,
           joins' = joins \ {h} => \A x \in Party(h) : Whole(x)',
           AuditOK', TypeOK'
    PROVE  IInv'
<1> USE PairingCodesAssumption DEF Moves
<1>1. h \in JoinInProgress /\ JoinOK(h) /\ Party(h) \subseteq Agent /\ h.agent \in Party(h)
  BY DEF IInv, TypeOK, JoinsOK, Party, JoinInProgress
<1>2. RowsOK'
  <2>1. \A c \in Code : code[c].pairing # NoPairing /\ code[c] # NoRow
            => members'[code[c].pairing] # {}
    <3> SUFFICES ASSUME NEW c \in Code, code[c].pairing # NoPairing, code[c] # NoRow
        PROVE members'[code[c].pairing] # {}
      OBVIOUS
    <3>1. code[c].pairing \in Pairing
      BY RowOrNot DEF IInv, CodeRow
    <3> QED  BY <3>1 DEF IInv, RowsOK
  <2> QED  BY <2>1 DEF IInv, RowsOK
<1>3. RedeemedOK' /\ LimiterOK'
  BY LimiterKept DEF IInv, RedeemedOK
<1>4. OriginsOK'
  <2>1. \A q \in Pairing : origin[q] = Nobody => q # h.pairing
    <3>1. token[h.agent] = h.pairing /\ h.agent \in DOMAIN token
      BY <1>1 DEF JoinOK, JoinTokens
    <3> QED  BY <3>1 DEF IInv, OriginsOK
  <2> QED  BY <2>1 DEF IInv, OriginsOK
<1>5. InvitesOK'
  BY DEF IInv, InvitesOK, TypeOK
<1>6. JoinsOK'
  <2>1. ASSUME NEW f \in joins \ {h}
        PROVE  JoinOK(f)' /\ f.agent # h.agent
    <3>1. /\ f \in JoinInProgress /\ JoinOK(f) /\ Party(f) \cap Party(h) = {}
          /\ f.pairing = h.pairing => f.creator = Nobody \/ h.creator = Nobody
          /\ f.agent \in Agent /\ f.pairing \in Pairing
      BY JoinsApart DEF IInv, TypeOK, JoinsOK, JoinInProgress
    <3>2. /\ f.agent \in Party(f) /\ f.agent \in Agent \ Party(h) /\ f.agent # h.agent
          /\ f.creator # Nobody => f.creator \in Party(f) /\ f.creator \in Agent \ Party(h)
      BY <1>1, <3>1 DEF Party, JoinInProgress
    <3>3. JoinTokens(f)' /\ JoinCodes(f)'
      BY <3>1 DEF JoinOK, JoinTokens, JoinCodes, Party
    <3>4. JoinBound(f)'
      BY <3>1, <3>2 DEF JoinOK, JoinBound
    <3>5. JoinMembers(f)'
      <4>1. h.creator = Nobody => members[h.pairing] # {}
        BY <1>1 DEF JoinOK, JoinMembers
      <4>2. f.at = "room" /\ f.creator # Nobody => members'[f.pairing] = {}
        BY <3>1, <4>1 DEF JoinOK, JoinMembers
      <4>3. /\ members[f.pairing] \subseteq members'[f.pairing]
            /\ f.agent \in members'[f.pairing] => f.agent \in members[f.pairing]
        BY <3>1, <3>2
      <4> QED  BY <3>1, <4>2, <4>3 DEF JoinOK, JoinMembers, Party
    <3>6. JoinLog(f)'
      BY <3>1, <3>2 DEF JoinOK, JoinLog, Action
    <3> QED  BY <3>2, <3>3, <3>4, <3>5, <3>6 DEF JoinOK
  <2>2. \A f, g \in joins \ {h} : f.agent = g.agent => f = g
    BY DEF IInv, JoinsOK
  <2> QED  BY <2>1, <2>2 DEF JoinsOK
<1>7. JoinIsWhole'
  <2> SUFFICES ASSUME NEW x \in DOMAIN token, token[x] # NoPairing, Settled(x)'
      PROVE  Whole(x)'
    BY DEF JoinIsWhole
  <2>1. x \in Agent /\ token[x] \in Pairing
    BY DEF IInv, TypeOK
  <2>2. CASE x \in Party(h)
    <3>1. joins' = joins \ {h}
      BY <2>2 DEF Settled, Party
    <3> QED  BY <2>2, <3>1
  <2>3. CASE x \notin Party(h)
    <3>1. Settled(x)
      BY <2>1, <2>3 DEF Settled, Party
    <3>2. Whole(x)
      BY <3>1 DEF IInv, JoinIsWhole
    <3>3. /\ x \in members'[token[x]] <=> x \in members[token[x]]
          /\ bound'[x] = bound[x] /\ x # h.agent
      BY <1>1, <2>1, <2>3
    <3> QED  BY <2>1, <3>2, <3>3 DEF Whole, Action
  <2> QED  BY <2>2, <2>3
<1> QED  BY <1>2, <1>3, <1>4, <1>5, <1>6, <1>7 DEF IInv

\* h with its next call.
LEMMA Advanced ==
    ASSUME TypeOK, NEW h \in joins, NEW at \in Stage
    PROVE  LET g == [h EXCEPT !.at = at] IN
           /\ g \in JoinInProgress /\ g.at = at
           /\ g.agent = h.agent /\ g.pairing = h.pairing /\ g.creator = h.creator
  BY DEF TypeOK, JoinInProgress

LEMMA BindPairingKeepsIInv ==
    ASSUME IInv, NEW h \in joins, BindPairing(h)
    PROVE  IInv'
<1> USE PairingCodesAssumption
<1>1. PICK g \in JoinInProgress :
          /\ g = [h EXCEPT !.at = "issue"] /\ g.at = "issue"
          /\ g.agent = h.agent /\ g.pairing = h.pairing /\ g.creator = h.creator
  BY Advanced DEF IInv, Stage
<1>2. /\ h \in JoinInProgress /\ JoinOK(h) /\ h.creator # Nobody /\ h.at = "bind"
      /\ h.creator \in Agent /\ h.pairing \in Pairing
  BY DEF IInv, TypeOK, JoinsOK, JoinOK, JoinMembers, BindPairing, JoinInProgress
<1>3. /\ joins' = (joins \ {h}) \cup {g} /\ bound' = [bound EXCEPT ![h.creator] = h.pairing]
      /\ UNCHANGED <<relay, now, code, token, members, origin, audit, invites, failures,
                     crashes, redeemed, wrong, cut, turnedAway>>
  BY <1>1 DEF BindPairing, Advance, BindCreator, history
<1>4. TypeOK' /\ AuditOK'
  BY <1>2, <1>3 DEF IInv, TypeOK, AuditOK
<1>5. JoinOK(g)'
  <2>1. JoinTokens(g)' /\ JoinCodes(g)'
    BY <1>1, <1>2, <1>3 DEF JoinOK, JoinTokens, JoinCodes, Party
  <2>2. JoinMembers(g)'
    BY <1>1, <1>2, <1>3 DEF JoinOK, JoinMembers, Party
  <2>3. JoinBound(g)'
    BY <1>1, <1>2, <1>3 DEF JoinBound, IInv, TypeOK
  <2>4. JoinLog(g)'
    BY <1>1, <1>2, <1>3, LogsKept DEF JoinOK, JoinLog
  <2> QED  BY <2>1, <2>2, <2>3, <2>4 DEF JoinOK
<1>6. \A x \in Agent \ Party(h) : bound'[x] = bound[x]
  BY <1>2, <1>3 DEF Party, IInv, TypeOK
<1>7. \A q \in Pairing : /\ members[q] \subseteq members'[q]
                         /\ members'[q] \subseteq members[q] \cup Party(h)
                         /\ q # h.pairing => members'[q] = members[q]
                         /\ IsFiniteSet(members'[q])
  BY <1>3 DEF IInv
<1>8. Moves(h)
  BY <1>3, <1>6, <1>7, LogsKept DEF Moves
<1>9. \A f \in joins' \ (joins \ {h}) : f = g
  BY <1>3
<1>10. joins' # joins \ {h}
  BY <1>1, <1>2, <1>3 DEF IInv, JoinsOK
<1> QED
  BY <1>1, <1>4, <1>5, <1>8, <1>9, <1>10, JoinMoves

LEMMA IssueRootKeepsIInv ==
    ASSUME IInv, NEW h \in joins, IssueRoot(h)
    PROVE  IInv'
<1> USE PairingCodesAssumption
<1>0. Records(h) \in Stage
  BY DEF Records, Stage
<1>1. PICK g \in JoinInProgress :
          /\ g = [h EXCEPT !.at = Records(h)] /\ g.at = Records(h)
          /\ g.agent = h.agent /\ g.pairing = h.pairing /\ g.creator = h.creator
  BY <1>0, Advanced DEF IInv
<1>2. /\ h \in JoinInProgress /\ JoinOK(h) /\ h.at = "issue"
      /\ h.agent \in Agent /\ h.pairing \in Pairing
  BY DEF IInv, TypeOK, JoinsOK, IssueRoot, JoinInProgress
<1>3. /\ joins' = (joins \ {h}) \cup {g} /\ bound' = [bound EXCEPT ![h.agent] = h.pairing]
      /\ UNCHANGED <<relay, now, code, token, members, origin, audit, invites, failures,
                     crashes, redeemed, wrong, cut, turnedAway>>
  BY <1>1 DEF IssueRoot, Advance, history
<1>4. TypeOK' /\ AuditOK'
  BY <1>2, <1>3 DEF IInv, TypeOK, AuditOK
<1>5. JoinOK(g)'
  <2>1. JoinTokens(g)' /\ JoinCodes(g)'
    BY <1>1, <1>2, <1>3 DEF JoinOK, JoinTokens, JoinCodes, Party
  <2>2. JoinMembers(g)'
    BY <1>1, <1>2, <1>3 DEF JoinOK, JoinMembers, Party, Records
  <2>3. JoinBound(g)'
    BY <1>1, <1>2, <1>3 DEF JoinOK, JoinBound, IInv, TypeOK
  <2>4. JoinLog(g)'
    BY <1>1, <1>2, <1>3, LogsKept DEF JoinOK, JoinLog, Records
  <2> QED  BY <2>1, <2>2, <2>3, <2>4 DEF JoinOK
<1>6. \A x \in Agent \ Party(h) : bound'[x] = bound[x]
  BY <1>2, <1>3 DEF Party, IInv, TypeOK
<1>7. \A q \in Pairing : /\ members[q] \subseteq members'[q]
                         /\ members'[q] \subseteq members[q] \cup Party(h)
                         /\ q # h.pairing => members'[q] = members[q]
                         /\ IsFiniteSet(members'[q])
  BY <1>3 DEF IInv
<1>8. Moves(h)
  BY <1>3, <1>6, <1>7, LogsKept DEF Moves
<1>9. \A f \in joins' \ (joins \ {h}) : f = g
  BY <1>3
<1>10. joins' # joins \ {h}
  BY <1>1, <1>2, <1>3 DEF IInv, JoinsOK
<1> QED
  BY <1>1, <1>4, <1>5, <1>8, <1>9, <1>10, JoinMoves

LEMMA EnterRoomKeepsIInv ==
    ASSUME IInv, NEW h \in joins, EnterRoom(h)
    PROVE  IInv'
<1> USE PairingCodesAssumption
<1> DEFINE p == h.pairing
<1>1. /\ h \in JoinInProgress /\ JoinOK(h) /\ h.at = "room" /\ p \in Pairing
      /\ members \in [Pairing -> SUBSET DOMAIN token]
      /\ relay = "cloud" /\ h.agent \notin members[p] /\ bound[h.agent] = p
      /\ h.creator # Nobody => members[p] = {} /\ bound[h.creator] = p
  BY DEF IInv, TypeOK, JoinsOK, EnterRoom, JoinInProgress, JoinOK, JoinMembers, JoinBound
<1>2. /\ token[h.agent] = p /\ Party(h) \subseteq DOMAIN token
      /\ h.agent \in Agent /\ h.agent # Nobody
  BY <1>1 DEF JoinOK, JoinTokens, Party, JoinInProgress
<1>3. UNCHANGED <<relay, now, code, token, bound, origin, audit, invites, failures,
                  crashes, redeemed, wrong, cut>>
  BY DEF EnterRoom
<1>4. \A q \in Pairing : IsFiniteSet(members[q]) /\ Cardinality(members[q]) <= MaxMembers
  BY DEF IInv, TypeOK
<1>5. CASE h.creator = Nobody /\ Full(p)
  <2>1. /\ joins' = joins \ {h} /\ members' = members
        /\ turnedAway' = turnedAway \cup {h.agent}
    BY <1>5 DEF EnterRoom, Finish
  <2>2. TypeOK' /\ AuditOK'
    BY <1>3, <2>1 DEF IInv, TypeOK, AuditOK
  <2>3. \A x \in Party(h) : Whole(x)'
    <3>1. Party(h) = {h.agent}
      BY <1>5, <1>2 DEF Party
    <3>2. Whole(h.agent)'
      BY <1>1, <1>2, <1>3, <2>1 DEF Whole
    <3> QED  BY <3>1, <3>2
  <2>4. \A q \in Pairing : /\ members[q] \subseteq members'[q]
                           /\ members'[q] \subseteq members[q] \cup Party(h)
                           /\ q # h.pairing => members'[q] = members[q]
                           /\ IsFiniteSet(members'[q])
    BY <1>4, <2>1
  <2>5. Moves(h)
    BY <1>3, <2>1, <2>4, LogsKept DEF Moves
  <2> QED  BY <2>1, <2>2, <2>3, <2>5, JoinMoves
<1>6. CASE ~(h.creator = Nobody /\ Full(p))
  <2>0. Records(h) \in Stage
    BY DEF Records, Stage
  <2>1. PICK g \in JoinInProgress :
            /\ g = [h EXCEPT !.at = Records(h)] /\ g.at = Records(h)
            /\ g.agent = h.agent /\ g.pairing = h.pairing /\ g.creator = h.creator
    BY <2>0, Advanced DEF IInv
  <2>2. /\ joins' = (joins \ {h}) \cup {g} /\ turnedAway' = turnedAway
        /\ members' = [members EXCEPT ![p] = @ \cup Party(h)]
    BY <1>6, <2>1 DEF EnterRoom, Advance, Party
  <2>3. /\ members'[p] = members[p] \cup Party(h)
        /\ \A q \in Pairing \ {p} : members'[q] = members[q]
        /\ members' \in [Pairing -> SUBSET DOMAIN token]
    BY <1>1, <1>2, <2>2
  <2>4. IsFiniteSet(members'[p]) /\ Cardinality(members'[p]) <= MaxMembers
    <3>1. CASE h.creator = Nobody
      <4>1. Cardinality(members[p]) < MaxMembers /\ Cardinality(members[p]) \in Nat
        BY <1>1, <1>4, <1>6, <3>1, FS_CardinalityType DEF Full
      <4>0. PICK m : m = members[p] /\ IsFiniteSet(m)
        BY <1>1, <1>4
      <4>2. /\ IsFiniteSet(m \cup {h.agent})
            /\ \/ Cardinality(m \cup {h.agent}) = Cardinality(m)
               \/ Cardinality(m \cup {h.agent}) = Cardinality(m) + 1
        BY <4>0, FS_AddElement
      <4>3. members'[p] = members[p] \cup {h.agent}
        BY <1>2, <2>3, <3>1 DEF Party
      <4> QED  BY <4>0, <4>1, <4>2, <4>3
    <3>2. CASE h.creator # Nobody
      <4>1. members'[p] = {h.creator} \cup {h.agent}
        BY <1>1, <1>2, <2>3, <3>2 DEF Party
      <4>2. IsFiniteSet({h.creator}) /\ Cardinality({h.creator}) = 1
        BY FS_Singleton
      <4>3. /\ IsFiniteSet({h.creator} \cup {h.agent})
            /\ \/ Cardinality({h.creator} \cup {h.agent}) = Cardinality({h.creator})
               \/ Cardinality({h.creator} \cup {h.agent}) = Cardinality({h.creator}) + 1
        BY <4>2, FS_AddElement
      <4> QED  BY <4>1, <4>2, <4>3
    <3> QED  BY <3>1, <3>2
  <2>5. TypeOK'
    BY <1>3, <1>4, <2>2, <2>3, <2>4 DEF IInv, TypeOK
  <2>6. AuditOK'
    BY <1>3 DEF IInv, AuditOK
  <2>7. JoinOK(g)'
    <3>1. JoinTokens(g)' /\ JoinCodes(g)'
      BY <1>1, <1>3, <2>1 DEF JoinOK, JoinTokens, JoinCodes, Party
    <3>2. JoinMembers(g)'
      BY <1>1, <1>2, <2>1, <2>3 DEF JoinMembers, Party, Records
    <3>3. JoinBound(g)'
      BY <1>1, <1>3, <2>1 DEF JoinBound
    <3>4. JoinLog(g)'
      BY <1>1, <1>3, <2>1, LogsKept DEF JoinOK, JoinLog, Records
    <3> QED  BY <3>1, <3>2, <3>3, <3>4 DEF JoinOK
  <2>8. \A q \in Pairing : /\ members[q] \subseteq members'[q]
                           /\ members'[q] \subseteq members[q] \cup Party(h)
                           /\ q # h.pairing => members'[q] = members[q]
                           /\ IsFiniteSet(members'[q])
    BY <1>1, <1>4, <2>3, <2>4
  <2>9. Moves(h)
    BY <1>3, <2>2, <2>8, LogsKept DEF Moves
  <2>10. \A f \in joins' \ (joins \ {h}) : f = g
    BY <2>2
  <2>11. joins' # joins \ {h}
    BY <1>1, <2>1, <2>2 DEF IInv, JoinsOK
  <2> QED
    BY <2>1, <2>5, <2>6, <2>7, <2>9, <2>10, <2>11, JoinMoves
<1> QED  BY <1>5, <1>6

\* One more record in p's log: what it says had not been said if it was never said
\* before, and nothing else the logs say changes.
LEMMA Logged ==
    ASSUME TypeOK, NEW p \in Pairing, NEW action \in Action, NEW a \in Agent,
           audit' = [audit EXCEPT ![p] = Append(@, [action |-> action, agent |-> a])]
    PROVE  /\ audit' \in [Pairing -> Seq(Record)]
           /\ \A q \in Pairing : \A i \in DOMAIN audit'[q] :
                 \/ i \in DOMAIN audit[q] /\ audit'[q][i] = audit[q][i]
                 \/ audit'[q][i] = [action |-> action, agent |-> a]
           /\ \A q \in Pairing, d \in Action, x \in Agent :
                 q # p \/ d # action \/ x # a => /\ Never(q, d, x) => Never(q, d, x)'
                                                 /\ Once(q, d, x) => Once(q, d, x)'
           /\ Never(p, action, a) => Once(p, action, a)'
<1>1. PICK e \in Record : e = [action |-> action, agent |-> a]
  BY DEF Record
<1>2. PICK log \in Seq(Record) : log = audit[p]
  BY DEF TypeOK
<1>3. audit'[p] = Append(log, e) /\ \A q \in Pairing \ {p} : audit'[q] = audit[q]
  BY <1>1, <1>2 DEF TypeOK
<1>4. /\ Append(log, e) \in Seq(Record) /\ Len(log) \in Nat
      /\ DOMAIN log = 1..Len(log) /\ DOMAIN Append(log, e) = 1..(Len(log) + 1)
      /\ \A i \in 1..Len(log) : Append(log, e)[i] = log[i]
      /\ Append(log, e)[Len(log) + 1] = e
  BY AppendProperties, LenProperties
<1>5. PICK n \in Nat, l \in Seq(Record) :
          /\ n = Len(log) /\ l = audit'[p]
          /\ DOMAIN log = 1..n /\ DOMAIN l = 1..(n + 1)
          /\ \A i \in 1..n : l[i] = log[i]
          /\ l[n + 1] = e
  BY <1>3, <1>4
<1>6. audit' \in [Pairing -> Seq(Record)]
  BY <1>3, <1>4 DEF TypeOK
<1>7. \A i \in DOMAIN l : (i \in DOMAIN log /\ l[i] = log[i]) \/ (i = n + 1 /\ l[i] = e)
  <2>1. \A i \in 1..(n + 1) : i \in 1..n \/ i = n + 1
    BY <1>5
  <2>2. \A i \in 1..n : i \in DOMAIN log /\ l[i] = log[i]
    BY <1>5
  <2>3. DOMAIN l = 1..(n + 1) /\ l[n + 1] = e
    BY <1>5
  <2> SUFFICES ASSUME NEW i \in DOMAIN l
      PROVE  (i \in DOMAIN log /\ l[i] = log[i]) \/ (i = n + 1 /\ l[i] = e)
    OBVIOUS
  <2>4. i \in 1..n \/ i = n + 1
    BY <2>1, <2>3
  <2> QED  BY <2>2, <2>3, <2>4
<1>8. \A q \in Pairing : \A i \in DOMAIN audit'[q] :
          (i \in DOMAIN audit[q] /\ audit'[q][i] = audit[q][i]) \/ audit'[q][i] = e
  BY <1>2, <1>3, <1>5, <1>7
<1>9. ASSUME NEW d \in Action, NEW x \in Agent, d # action \/ x # a
      PROVE  /\ Never(p, d, x) => Never(p, d, x)'
             /\ Once(p, d, x) => Once(p, d, x)'
  <2>1. e # [action |-> d, agent |-> x]
    <3>1. e.action = action /\ e.agent = a
      BY <1>1
    <3>2. [action |-> d, agent |-> x].action = d /\ [action |-> d, agent |-> x].agent = x
      OBVIOUS
    <3> QED  BY <1>9, <3>1, <3>2
  <2>2. PICK f : f = [action |-> d, agent |-> x] /\ e # f
    BY <2>1
  <2>3. (\A i \in DOMAIN log : log[i] # f) => \A i \in DOMAIN l : l[i] # f
    BY <1>7, <2>2
  <2>4. ASSUME NEW i \in DOMAIN log, \A j \in DOMAIN log : log[j] = f <=> j = i
        PROVE  i \in DOMAIN l /\ \A j \in DOMAIN l : l[j] = f <=> j = i
    <3>1. i \in 1..n /\ i \in 1..(n + 1) /\ i # n + 1
      BY <1>5
    <3>2. ASSUME NEW j \in DOMAIN l PROVE l[j] = f <=> j = i
      BY <1>7, <2>2, <2>4, <3>1
    <3> QED  BY <1>5, <3>1, <3>2
  <2>5. Never(p, d, x) => Never(p, d, x)'
    BY <1>2, <1>5, <2>2, <2>3 DEF Never
  <2>6. Once(p, d, x) => Once(p, d, x)'
    BY <1>2, <1>5, <2>2, <2>4 DEF Once
  <2> QED  BY <2>5, <2>6
<1>10. ASSUME NEW q \in Pairing \ {p}, NEW d, NEW x
       PROVE  (Never(q, d, x) => Never(q, d, x)') /\ (Once(q, d, x) => Once(q, d, x)')
  BY <1>3 DEF Never, Once
<1>11. ASSUME Never(p, action, a) PROVE Once(p, action, a)'
  <2>1. \A i \in DOMAIN log : log[i] # e
    BY <1>1, <1>2, <1>11 DEF Never
  <2>2. n + 1 \in DOMAIN l /\ n + 1 \notin DOMAIN log
    BY <1>5
  <2>3. \A j \in DOMAIN l : l[j] = e <=> j = n + 1
    BY <1>5, <1>7, <2>1, <2>2
  <2>4. \E i \in DOMAIN audit'[p] : \A j \in DOMAIN audit'[p] : audit'[p][j] = e <=> j = i
    BY <1>5, <2>2, <2>3
  <2> QED  BY <1>1, <2>4 DEF Once
<1> QED  BY <1>1, <1>6, <1>8, <1>9, <1>10, <1>11

LEMMA AppendAuditKeepsIInv ==
    ASSUME IInv, NEW h \in joins, AppendAudit(h)
    PROVE  IInv'
<1> USE PairingCodesAssumption
<1>1. /\ h \in JoinInProgress /\ JoinOK(h) /\ h.at \in Action
      /\ h.agent \in Agent /\ h.pairing \in Pairing /\ h.agent \in Party(h)
  BY DEF IInv, TypeOK, JoinsOK, AppendAudit, JoinInProgress, Party
<1>2. /\ audit' = [audit EXCEPT ![h.pairing] =
                       Append(@, [action |-> h.at, agent |-> h.agent])]
      /\ UNCHANGED <<relay, now, code, token, bound, members, origin, invites, failures,
                     crashes, redeemed, wrong, cut, turnedAway>>
  BY DEF AppendAudit, history
<1>3. /\ audit' \in [Pairing -> Seq(Record)]
      /\ \A q \in Pairing : \A i \in DOMAIN audit'[q] :
            \/ i \in DOMAIN audit[q] /\ audit'[q][i] = audit[q][i]
            \/ audit'[q][i] = [action |-> h.at, agent |-> h.agent]
      /\ \A q \in Pairing, d \in Action, x \in Agent :
            d # h.at \/ x # h.agent => /\ Never(q, d, x) => Never(q, d, x)'
                                       /\ Once(q, d, x) => Once(q, d, x)'
      /\ Never(h.pairing, h.at, h.agent) => Once(h.pairing, h.at, h.agent)'
  <2>1. PICK p \in Pairing, action \in Action, a \in Agent :
            p = h.pairing /\ action = h.at /\ a = h.agent
    BY <1>1
  <2>2. /\ audit' = [audit EXCEPT ![p] = Append(@, [action |-> action, agent |-> a])]
        /\ TypeOK
    BY <1>2, <2>1 DEF IInv
  <2>3. /\ audit' \in [Pairing -> Seq(Record)]
        /\ \A q \in Pairing : \A i \in DOMAIN audit'[q] :
              \/ i \in DOMAIN audit[q] /\ audit'[q][i] = audit[q][i]
              \/ audit'[q][i] = [action |-> action, agent |-> a]
        /\ \A q \in Pairing, d \in Action, x \in Agent :
              q # p \/ d # action \/ x # a => /\ Never(q, d, x) => Never(q, d, x)'
                                              /\ Once(q, d, x) => Once(q, d, x)'
        /\ Never(p, action, a) => Once(p, action, a)'
    BY <2>2, Logged
  <2> QED  BY <2>1, <2>3
<1>4. AuditOK'
  <2>1. h.agent \in DOMAIN token
    BY <1>1 DEF JoinOK, JoinTokens
  <2> QED  BY <1>2, <1>3, <2>1 DEF IInv, AuditOK
<1>5. \A q \in Pairing : /\ members[q] \subseteq members'[q]
                         /\ members'[q] \subseteq members[q] \cup Party(h)
                         /\ q # h.pairing => members'[q] = members[q]
                         /\ IsFiniteSet(members'[q])
  BY <1>2 DEF IInv
<1>6. CASE h.at = "pairing.created"
  <2>1. PICK g \in JoinInProgress :
            /\ g = [h EXCEPT !.at = "pairing.joined"] /\ g.at = "pairing.joined"
            /\ g.agent = h.agent /\ g.pairing = h.pairing /\ g.creator = h.creator
    BY Advanced DEF IInv, Stage
  <2>2. joins' = (joins \ {h}) \cup {g}
    BY <1>6, <2>1 DEF AppendAudit, Advance
  <2>3. TypeOK'
    BY <1>2, <1>3, <2>2 DEF IInv, TypeOK
  <2>4. JoinOK(g)'
    <3>1. JoinTokens(g)' /\ JoinCodes(g)'
      BY <1>1, <1>2, <2>1 DEF JoinOK, JoinTokens, JoinCodes, Party
    <3>2. JoinMembers(g)' /\ JoinBound(g)'
      BY <1>1, <1>2, <1>6, <2>1 DEF JoinOK, JoinMembers, JoinBound, Party
    <3>3. JoinLog(g)'
      BY <1>1, <1>3, <1>6, <2>1 DEF JoinOK, JoinLog, Action
    <3> QED  BY <3>1, <3>2, <3>3 DEF JoinOK
  <2>5. Moves(h)
    BY <1>2, <1>3, <1>5, <2>2 DEF Moves
  <2>6. \A f \in joins' \ (joins \ {h}) : f = g
    BY <2>2
  <2>7. joins' # joins \ {h}
    BY <1>1, <2>1, <2>2 DEF IInv, JoinsOK
  <2> QED  BY <1>4, <2>1, <2>3, <2>4, <2>5, <2>6, <2>7, JoinMoves
<1>7. CASE h.at = "pairing.joined"
  <2>1. joins' = joins \ {h}
    BY <1>7 DEF AppendAudit, Finish
  <2>2. TypeOK'
    BY <1>2, <1>3, <2>1 DEF IInv, TypeOK
  <2>3. ASSUME NEW x \in Party(h) PROVE Whole(x)'
    <3>1. /\ token[x] = h.pairing /\ bound[x] = h.pairing /\ x \in members[h.pairing]
          /\ x = h.creator \/ x = h.agent
      BY <1>1, <1>7, <2>3 DEF JoinOK, JoinTokens, JoinMembers, JoinBound, Party
    <3>2. Once(h.pairing, "pairing.joined", h.agent)'
      BY <1>1, <1>3, <1>7 DEF JoinOK, JoinLog
    <3>3. <<origin[h.pairing], h.agent>> \in redeemed
              => Once(h.pairing, "pairing.created", h.agent)'
      BY <1>1, <1>3, <1>7 DEF JoinOK, JoinCodes, JoinLog, Action
    <3>4. \A c \in Code : <<c, h.creator>> \notin redeemed
      BY <1>1 DEF JoinOK, JoinCodes
    <3> QED  BY <1>2, <3>1, <3>2, <3>3, <3>4 DEF Whole
  <2>4. Moves(h)
    BY <1>2, <1>3, <1>5, <2>1 DEF Moves
  <2> QED  BY <1>4, <2>1, <2>2, <2>3, <2>4, JoinMoves
<1> QED  BY <1>1, <1>6, <1>7 DEF Action

----------------------------------------------------------------------------
LEMMA NextKeepsIInv ==
    ASSUME IInv, [Next]_vars
    PROVE  IInv'
<1>1. CASE Next
  BY <1>1, CreatePairingCodeKeepsIInv, CreateInviteCodeKeepsIInv, CheckInviteKeepsIInv,
     JoinFailsKeepsIInv, JoinPairingKeepsIInv, JoinExistingPairingKeepsIInv,
     BindPairingKeepsIInv, IssueRootKeepsIInv, EnterRoomKeepsIInv, AppendAuditKeepsIInv,
     PurgeKeepsIInv, TickKeepsIInv, RestartKeepsIInv, WorkerDiesKeepsIInv
  DEF Next
<1>2. CASE UNCHANGED vars
  <2>1. UNCHANGED rest /\ UNCHANGED <<now, failures, wrong>> /\ TypeOK'
    BY <1>2 DEF vars, rest, tables, IInv, TypeOK
  <2> QED  BY <2>1, LimiterKept, RestKept
<1> QED  BY <1>1, <1>2

LEMMA Invariance == Spec => []IInv
  BY InitIInv, NextKeepsIInv, PTL DEF Spec

----------------------------------------------------------------------------
\* Every reachable state is well formed; the part a test would miss is that no
\* interleaving of joins takes a pairing past its member cap, although the cloud
\* consumes the code of an invite before its room has looked at the cap.
THEOREM TypeCorrect == Spec => []TypeOK
  BY Invariance, PTL DEF IInv

\* A code brings in one agent and makes one pairing, through every restart and sweep
\* and whatever is drawn later.
THEOREM CodesAreOneShot == Spec => []OneShot
<1>1. IInv => OneShot
  <2> SUFFICES ASSUME IInv, NEW c \in Code, NEW Joined,
                      Joined = {a \in Agent : <<c, a>> \in redeemed}
      PROVE  Cardinality(Joined) <= 1
    BY DEF OneShot, IInv, OriginsOK
  <2>1. CASE Joined = {}
    <3>1. Cardinality({}) = 0
      BY FS_EmptySet
    <3>2. Cardinality(Joined) = 0
      BY <2>1, <3>1, Zenon
    <3> QED  BY <3>2
  <2>2. ASSUME NEW a \in Joined PROVE Cardinality(Joined) <= 1
    <3>1. Joined = {a}
      BY DEF IInv, RedeemedOK
    <3>2. Cardinality({a}) = 1
      BY FS_Singleton
    <3>3. Cardinality(Joined) = 1
      BY <3>1, <3>2, Zenon
    <3> QED  BY <3>3
  <2> QED  BY <2>1, <2>2
<1> QED  BY <1>1, Invariance, PTL

\* Once a join is over its membership, its credential and its audit records agree, on
\* both relays, however joins, invitations and the room's refusals interleave; a crash
\* spoils only the joins it cut short.
THEOREM JoinsAreWhole == Spec => []JoinIsWhole
  BY Invariance, PTL DEF IInv

\* However a client spreads its guesses, and whatever else the relay does in between,
\* the limiter lets at most MaxFailures wrong ones through in a window.
THEOREM GuessesBounded == Spec => []GuessesAreBounded
<1>1. IInv => GuessesAreBounded
  BY DEF IInv, LimiterOK, GuessesAreBounded
<1> QED  BY <1>1, Invariance, PTL

\* The numbers tell the remembered failures of one instant apart, so a set of them
\* counts like the list in the code: every wrong guess the relay looks at is one more
\* recent failure of its client.
EveryFailureCounts ==
    [][\A k \in Client, c \in Code : JoinFails(k, c) /\ ~IsLimited(k) =>
          Cardinality(Recent(failures[k])') = Cardinality(Recent(failures[k])) + 1]_vars

NumberedOK == \A k \in Client : \A f \in failures[k] :
    f.at <= now /\ (f.at = now => f.nth < Cardinality(Recent(failures[k])))

LEMMA OneMoreCounts ==
    ASSUME IInv, NumberedOK, Window > 0, NEW k \in Client
    PROVE  /\ Recent(OneMore(failures[k])) = OneMore(failures[k])
           /\ Cardinality(OneMore(failures[k])) = Cardinality(Recent(failures[k])) + 1
           /\ Cardinality(Recent(failures[k])) \in Nat
<1>1. /\ failures[k] \in SUBSET Failure /\ now \in Nat /\ Window \in Nat
      /\ IsFiniteSet(failures[k])
  BY PairingCodesAssumption DEF IInv, TypeOK, LimiterOK
<1>2. PICK recent : recent = Recent(failures[k])
  OBVIOUS
<1>3. recent \subseteq failures[k] /\ IsFiniteSet(recent) /\ Cardinality(recent) \in Nat
  BY <1>1, <1>2, FS_Subset, FS_CardinalityType DEF Recent
<1>4. PICK new : new = [at |-> now, nth |-> Cardinality(recent)]
  OBVIOUS
<1>5. new \notin recent
  <2>1. \A f \in recent : f.at = now => f.nth < Cardinality(recent)
    BY <1>2, <1>3 DEF NumberedOK
  <2>2. new.at = now /\ new.nth = Cardinality(recent)
    BY <1>4
  <2> QED  BY <1>3, <2>1, <2>2
<1>6. Cardinality(recent \cup {new}) = Cardinality(recent) + 1
  BY <1>3, <1>5, FS_AddElement
<1>7. OneMore(failures[k]) = recent \cup {new}
  BY <1>2, <1>4 DEF OneMore
<1>8. Recent(recent \cup {new}) = recent \cup {new}
  BY <1>1, <1>2, <1>4 DEF Recent
<1> QED  BY <1>2, <1>3, <1>6, <1>7, <1>8

LEMMA NextKeepsNumbers ==
    ASSUME IInv, NumberedOK, Window > 0, [Next]_vars
    PROVE  NumberedOK'
<1>1. ASSUME NEW k \in Client, NEW f \in failures'[k], now' = now,
             failures'[k] = failures[k] \/ failures'[k] = {}
      PROVE  f.at <= now' /\ (f.at = now' => f.nth < Cardinality(Recent(failures[k])'))
  BY <1>1 DEF NumberedOK, Recent
<1>2. ASSUME now' = now, \A k \in Client : failures'[k] = failures[k] \/ failures'[k] = {}
      PROVE  NumberedOK'
  BY <1>1, <1>2 DEF NumberedOK
<1>3. ASSUME NEW l \in Client, NEW c \in Code, JoinFails(l, c) PROVE NumberedOK'
  <2>1. /\ failures \in [Client -> SUBSET Failure] /\ now \in Nat /\ now' = now
        /\ \A k \in Client \ {l} : failures'[k] = failures[k]
    BY <1>3, PairingCodesAssumption DEF IInv, TypeOK, JoinFails
  <2>2. \A f \in failures'[l] :
            f.at <= now /\ (f.at = now => f.nth < Cardinality(Recent(failures[l])'))
    <3>1. CASE IsLimited(l)
      <4>1. failures'[l] = Recent(failures[l]) /\ Recent(failures[l])' = Recent(failures[l])
        BY <1>3, <2>1, <3>1 DEF JoinFails, Recent
      <4> QED  BY <4>1 DEF NumberedOK, Recent
    <3>2. CASE ~IsLimited(l)
      <4>1. failures'[l] = OneMore(failures[l]) /\ Recent(failures[l])' = OneMore(failures[l])
        <5>1. failures'[l] = OneMore(failures[l])
          BY <1>3, <2>1, <3>2 DEF JoinFails, AfterFailure
        <5>2. Recent(failures[l])' = Recent(failures'[l])
          BY <2>1 DEF Recent
        <5> QED  BY <5>1, <5>2, OneMoreCounts
      <4>2. PICK n \in Nat : /\ n = Cardinality(Recent(failures[l]))
                             /\ Cardinality(Recent(failures[l])') = n + 1
        BY <4>1, OneMoreCounts
      <4>3. ASSUME NEW f \in OneMore(failures[l])
            PROVE  f.at <= now /\ (f.at = now => f.nth < n + 1)
        <5>1. CASE f \in Recent(failures[l])
          <6>1. f \in failures[l] /\ f \in Failure
            BY <2>1, <5>1 DEF Recent
          <6>2. f.at <= now /\ (f.at = now => f.nth < n)
            BY <4>2, <6>1 DEF NumberedOK
          <6> QED  BY <6>1, <6>2 DEF Failure
        <5>2. CASE f = [at |-> now, nth |-> n]
          BY <2>1, <5>2
        <5> QED  BY <4>2, <4>3, <5>1, <5>2 DEF OneMore
      <4> QED  BY <4>1, <4>2, <4>3
    <3> QED  BY <3>1, <3>2
  <2>3. \A k \in Client \ {l} : Recent(failures[k])' = Recent(failures[k])
    BY <2>1 DEF Recent
  <2> QED  BY <2>1, <2>2, <2>3 DEF NumberedOK
<1>4. CASE Tick
  <2>1. now \in Nat /\ now' = now + 1 /\ failures' = failures
    BY <1>4, PairingCodesAssumption DEF IInv, TypeOK, Tick
  <2>2. \A k \in Client : \A f \in failures[k] : f.at \in Nat
    BY DEF IInv, TypeOK, Failure
  <2> QED  BY <2>1, <2>2 DEF NumberedOK
<1>5. CASE \/ \E k \in Client : now' = now /\ Clear(k)
           \/ now' = now /\ failures' = failures
           \/ now' = now /\ failures' = [k \in Client |-> {}]
  BY <1>2, <1>5 DEF Clear, IInv, TypeOK
<1> QED
  BY <1>3, <1>4, <1>5
  DEF Next, vars, tables, history, CreatePairingCode, CreateInviteCode, CheckInvite,
      JoinPairing, JoinExistingPairing, BindPairing, IssueRoot, EnterRoom, AppendAudit,
      PurgeExpiredCodes, Restart, WorkerDies

\* While the window is not empty, no wrong guess hides another: each one the relay looks
\* at brings its client one closer to the limit.
THEOREM FailuresCount == Window > 0 => (Spec => EveryFailureCounts)
<1> SUFFICES ASSUME Window > 0 PROVE Spec => EveryFailureCounts
  OBVIOUS
<1>1. Init => NumberedOK
  BY DEF Init, NumberedOK
<1>2. IInv /\ NumberedOK /\ [Next]_vars => NumberedOK'
  BY NextKeepsNumbers
<1>3. ASSUME IInv, NumberedOK, NEW k \in Client, NEW c \in Code, JoinFails(k, c), ~IsLimited(k)
      PROVE  Cardinality(Recent(failures[k])') = Cardinality(Recent(failures[k])) + 1
  <2>1. failures'[k] = OneMore(failures[k]) /\ now' = now
    BY <1>3 DEF IInv, TypeOK, JoinFails, AfterFailure
  <2>2. Recent(failures[k])' = Recent(OneMore(failures[k]))
    BY <2>1 DEF Recent
  <2> QED  BY <1>3, <2>2, OneMoreCounts
<1>4. IInv /\ NumberedOK => \A k \in Client, c \in Code : JoinFails(k, c) /\ ~IsLimited(k) =>
          Cardinality(Recent(failures[k])') = Cardinality(Recent(failures[k])) + 1
  BY <1>3
<1> QED  BY <1>1, <1>2, <1>4, Invariance, PTL DEF Spec, EveryFailureCounts

\* No step takes a code out of the table that a join at that instant would accept.
THEOREM SweepSparesLive == Spec => SweepKeepsLive
<1>1. ASSUME IInv, Next, NEW c \in Code, Redeemable(c)
      PROVE  code'[c] # NoRow
  <2>1. /\ code \in [Code -> CodeRow \cup {NoRow}] /\ code[c] # NoRow
        /\ \A d \in Code : code[d] # NoRow => code[d] \in CodeRow
        /\ now \in Nat
    BY <1>1, RowOrNot, PairingCodesAssumption DEF IInv, TypeOK, Redeemable
  <2>2. ~Abandoned(c)
    BY <1>1, <2>1 DEF Abandoned, Redeemable, CodeRow
  <2>3. ASSUME NEW d \in Code, NEW row, code' = [code EXCEPT ![d] = row], row # NoRow
        PROVE  code'[c] # NoRow
    BY <2>1, <2>3
  <2>4. ASSUME NEW a \in Agent, NEW p \in Pairing \cup {NoPairing}
        PROVE  NewRow(a, p) # NoRow
    BY PairingCodesAssumption DEF NewRow, NoRow
  <2>5. ASSUME NEW d \in Code, NEW a \in Agent, Redeemable(d), Consume(d, a)
        PROVE  code'[c] # NoRow
    <3>1. code[d] \in CodeRow /\ code' = [code EXCEPT ![d] = [code[d] EXCEPT !.used = TRUE]]
      BY <2>1, <2>5 DEF Redeemable, Consume
    <3>2. [code[d] EXCEPT !.used = TRUE] # NoRow
      BY <3>1 DEF CodeRow, NoRow
    <3> QED  BY <2>3, <3>1, <3>2
  <2>6. ASSUME NEW d \in Code, NEW a \in Agent, CreatePairingCode(d, a)
        PROVE  code'[c] # NoRow
    BY <2>3, <2>4, <2>6 DEF CreatePairingCode
  <2>7. ASSUME NEW d \in Code, NEW a \in Agent, NEW p \in Pairing, CreateInviteCode(d, a, p)
        PROVE  code'[c] # NoRow
    BY <2>3, <2>4, <2>7 DEF CreateInviteCode
  <2>8. ASSUME NEW k \in Client, NEW d \in Code, NEW a \in Agent,
               JoinExistingPairing(k, d, a) \/ \E p \in Pairing : JoinPairing(k, d, a, p)
        PROVE  code'[c] # NoRow
    BY <2>5, <2>8 DEF JoinPairing, JoinExistingPairing
  <2>9. CASE PurgeExpiredCodes
    BY <2>1, <2>2, <2>9 DEF PurgeExpiredCodes
  <2>10. CASE code' = code
    BY <2>1, <2>10
  <2> QED
    BY <1>1, <2>6, <2>7, <2>8, <2>9, <2>10
    DEF Next, tables, CheckInvite, JoinFails, BindPairing, IssueRoot, EnterRoom,
        AppendAudit, Tick, Restart, WorkerDies
<1>2. ASSUME IInv, Next
      PROVE  \A c \in Code : Redeemable(c) => code'[c] # NoRow
  BY <1>1, <1>2
<1> QED  BY <1>2, Invariance, PTL DEF Spec, SweepKeepsLive
=============================================================================
