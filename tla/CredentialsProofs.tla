------------------------- MODULE CredentialsProofs -------------------------
(***************************************************************************)
(* What holds of credentials and issuer keys for any number of agents,     *)
(* keys and credentials, any lifetimes and any depth, on both hosts.       *)
(***************************************************************************)
EXTENDS Credentials, TLAPS

----------------------------------------------------------------------------
\* The inductive invariant.

\* What ties the memory of the server to its database.  A key leaves the
\* verification set only by being pruned, and the cloud relay, which rotates in
\* the object that signs, always signs with the active key.
KeysOK ==
    /\ refused = revoked
    /\ \A k \in Key : keys[k].state = "pruned" => keys[k].at + MaxTtl < now
    /\ \A k \in known \cup {signing} : keys[k].state # "unused"
    /\ signing \in known \/ keys[signing].state = "pruned"
    /\ host = "cloud" => keys[signing].state = "active"

\* What a signature implies: a generated key, a lifetime under the ceiling.
SignatureOK(j) ==
    /\ keys[creds[j].kid].state # "unused"
    /\ creds[j].kid \in known \/ keys[creds[j].kid].state = "pruned"
    /\ creds[j].iat <= now
    /\ creds[j].exp <= creds[j].iat + MaxTtl
    /\ creds[j].depth <= MaxDepth
    /\ host = "cloud" => SignedInTime(j)

SignaturesOK == \A j \in Issued : SignatureOK(j)

IInv == TypeOK /\ KeysOK /\ SignaturesOK /\ Narrowing

USE CredentialsAssumption, PayloadAssumption
USE DEF databaseVars, memoryVars

----------------------------------------------------------------------------
\* The floor and the two ceilings of a child's lifetime.
LEMMA LifetimeBounds ==
    ASSUME now \in Nat, NEW p, creds[p].exp \in Nat, NEW ttl \in 1..MaxTtl
    PROVE  /\ Lifetime(p, ttl) \in 1..MaxTtl
           /\ \/ now + Lifetime(p, ttl) <= creds[p].exp
              \/ Lifetime(p, ttl) = 1 /\ now >= creds[p].exp
  BY DEF Lifetime, Least

\* Replacing the active key retires it and leaves exactly the new one active.
LEMMA ReplacedFacts ==
    ASSUME TypeOK, NEW k \in Key, keys[k].state = "unused"
    PROVE  /\ Replaced(k) \in [Key -> KeyRow]
           /\ Replaced(k)[k].state = "active"
           /\ \A i \in Key : Replaced(k)[i].state = "active" <=> i = k
           /\ \A i \in Key \ {k} : keys[i].state = "active" =>
                 Replaced(k)[i].state = "retired" /\ Replaced(k)[i].at = now
           /\ \A i \in Key \ {k} : keys[i].state # "active" => Replaced(k)[i] = keys[i]
  BY DEF Replaced, TypeOK, KeyRow

LEMMA InitIInv == Init => IInv
<1> SUFFICES ASSUME Init PROVE IInv
  OBVIOUS
<1>1. Issued = {}
  BY DEF Init, Issued
<1>2. TypeOK
  BY <1>1 DEF Init, TypeOK, KeyRow
<1>3. KeysOK
  BY DEF Init, KeysOK
<1> QED  BY <1>1, <1>2, <1>3 DEF IInv, SignaturesOK, Narrowing

----------------------------------------------------------------------------
\* A step that issues: what is new of the tables.
Issues(j, p) ==
    /\ j \in Jti \ Issued
    /\ p \in Payload /\ p.kid = signing /\ p.iat = now
    /\ creds' = [creds EXCEPT ![j] = p]

LEMMA IssuedGrows ==
    ASSUME TypeOK, NEW j, NEW p, Issues(j, p)
    PROVE  /\ Issued' = Issued \cup {j}
           /\ creds'[j] = p
           /\ \A i \in Issued : creds'[i] = creds[i]
           /\ creds' \in [Jti -> Payload \cup {NoPayload}]
<1>1. creds'[j] = p /\ \A i \in Jti \ {j} : creds'[i] = creds[i]
  BY DEF TypeOK, Issues
<1>2. creds' \in [Jti -> Payload \cup {NoPayload}]
  BY DEF TypeOK, Issues
<1>3. p # NoPayload
  BY DEF Issues
<1> QED  BY <1>1, <1>2, <1>3 DEF Issues, Issued

\* Issuing keeps the types, given those of what else the step writes.
LEMMA IssueType ==
    ASSUME TypeOK, NEW j, NEW p, Issues(j, p),
           UNCHANGED <<host, now, keys, revoked, memoryVars, pruneDue>>,
           parked' \in SUBSET parked,
           session' \in [Agent -> Issued \cup {NoJti, j}]
    PROVE  TypeOK'
<1>1. Issued' = Issued \cup {j} /\ creds' \in [Jti -> Payload \cup {NoPayload}]
  BY IssuedGrows
<1> QED  BY <1>1 DEF TypeOK

\* Issuing with a lifetime under the ceiling keeps what signatures imply.
LEMMA IssueSignatures ==
    ASSUME TypeOK, KeysOK, SignaturesOK, NEW j, NEW p, Issues(j, p),
           UNCHANGED <<host, now, keys, known>>,
           p.exp <= now + MaxTtl, p.depth <= MaxDepth
    PROVE  SignaturesOK'
<1> SUFFICES ASSUME NEW i \in Issued' PROVE SignatureOK(i)'
  BY DEF SignaturesOK
<1>1. Issued' = Issued \cup {j} /\ creds'[j] = p /\ \A k \in Issued : creds'[k] = creds[k]
  BY IssuedGrows
<1>2. CASE i = j
  BY <1>1, <1>2 DEF Issues, KeysOK, SignatureOK, SignedInTime, TypeOK
<1>3. CASE i \in Issued
  BY <1>1, <1>3 DEF SignaturesOK, SignatureOK, SignedInTime
<1> QED  BY <1>1, <1>2, <1>3

----------------------------------------------------------------------------
LEMMA IssueRootStep ==
    ASSUME IInv, NEW a \in Agent, NEW j \in Jti, IssueRoot(a, j)
    PROVE  IInv'
<1> DEFINE p == [sub |-> a, kid |-> signing, cap |-> Scope, chain |-> {}, depth |-> 0,
                 iat |-> now, exp |-> now + DefaultTtl]
<1>1. Issues(j, p)
  BY DEF IInv, TypeOK, IssueRoot, Issues, Payload
<1>2. Issued' = Issued \cup {j} /\ creds'[j] = p /\ \A i \in Issued : creds'[i] = creds[i]
  BY <1>1, IssuedGrows DEF IInv
<1>3. TypeOK'
  <2>1. session' \in [Agent -> Issued \cup {NoJti, j}]
    BY DEF IInv, TypeOK, IssueRoot
  <2> QED  BY <1>1, <2>1, IssueType DEF IInv, IssueRoot
<1>4. KeysOK'
  BY DEF IInv, KeysOK, IssueRoot
<1>5. SignaturesOK'
  <2>1. p.exp <= now + MaxTtl /\ p.depth <= MaxDepth
    BY DEF IInv, TypeOK
  <2> QED  BY <1>1, <2>1, IssueSignatures DEF IInv, IssueRoot
<1>6. Narrowing'
  BY <1>2 DEF IInv, Narrowing, BornLate
<1> QED  BY <1>3, <1>4, <1>5, <1>6 DEF IInv

\* Narrowing is inductive along a chain: a child of a credential that was issued
\* late either expires with it, and then was issued in the same second, or was
\* issued later still.
LEMMA AttenuateStep ==
    ASSUME IInv, NEW j \in Jti, Attenuate(j)
    PROVE  IInv'
<1>0. PICK h \in parked : Attenuate(j)!(h)
  BY DEF Attenuate
<1> DEFINE parent == creds[h.parent]
           p == [sub |-> parent.sub, kid |-> signing, cap |-> h.cap,
                 chain |-> parent.chain \cup {h.parent}, depth |-> parent.depth + 1,
                 iat |-> now, exp |-> now + Lifetime(h.parent, h.ttl)]
<1>1. h \in Attenuation /\ h.parent \in Issued /\ parent \in Payload
  BY DEF IInv, TypeOK, Issued
<1>2. Lifetime(h.parent, h.ttl) \in 1..MaxTtl
      /\ (p.exp <= parent.exp \/ (p.exp = p.iat + 1 /\ p.iat >= parent.exp))
  BY <1>1, LifetimeBounds DEF IInv, TypeOK, Attenuation, Payload
<1>3. CASE MayNarrow(h.parent, h.cap) /\ parent.depth + 1 <= MaxDepth
  <2>1. p \in Payload
    BY <1>1, <1>2 DEF IInv, TypeOK, Attenuation, Payload, Issued
  <2>2. Issues(j, p) /\ UNCHANGED <<host, now, keys, revoked, memoryVars, pruneDue>>
        /\ parked' = {} /\ session' \in [Agent -> Issued \cup {NoJti, j}]
    BY <1>0, <1>1, <1>3, <2>1 DEF Issues, IInv, TypeOK, Payload
  <2>3. Issued' = Issued \cup {j} /\ creds'[j] = p /\ \A i \in Issued : creds'[i] = creds[i]
    BY <2>2, IssuedGrows DEF IInv
  <2>4. TypeOK'
    BY <2>2, IssueType DEF IInv
  <2>5. KeysOK'
    BY <2>2 DEF IInv, KeysOK
  <2>6. SignaturesOK'
    <3>1. p.exp <= now + MaxTtl /\ p.depth <= MaxDepth
      BY <1>2, <1>3 DEF IInv, TypeOK
    <3> QED  BY <2>2, <3>1, IssueSignatures DEF IInv
  <2>7. Narrowing'
    <3> SUFFICES ASSUME NEW i \in Issued', NEW q \in creds'[i].chain
                 PROVE  /\ q \in Issued' /\ creds'[i].sub = creds'[q].sub
                        /\ creds'[i].cap \subseteq creds'[q].cap
                        /\ creds'[q].depth < creds'[i].depth /\ creds'[i].depth <= MaxDepth
                        /\ creds'[i].exp <= creds'[q].exp \/ BornLate(i, q)'
      BY DEF Narrowing
    <3>1. CASE i \in Issued
      BY <2>3, <3>1 DEF IInv, Narrowing, BornLate
    <3>2. CASE i = j /\ q = h.parent
      BY <1>1, <1>2, <1>3, <2>3, <3>2 DEF MayNarrow, Payload, BornLate
    <3>3. CASE i = j /\ q \in parent.chain
      <4>1. q \in Issued /\ q \in Jti /\ creds'[q] = creds[q] /\ creds[q] \in Payload
        BY <1>1, <2>3, <3>3 DEF IInv, TypeOK, Narrowing, Issued
      <4>2. /\ parent.sub = creds[q].sub /\ parent.cap \subseteq creds[q].cap
            /\ creds[q].depth < parent.depth
            /\ parent.exp <= creds[q].exp \/ BornLate(h.parent, q)
        BY <1>1, <3>3 DEF IInv, Narrowing
      <4>3. parent.iat <= now
        BY <1>1 DEF IInv, SignaturesOK, SignatureOK
      <4>4. p.exp <= creds[q].exp \/ (p.exp = p.iat + 1 /\ p.iat >= creds[q].exp)
        BY <1>1, <1>2, <4>1, <4>2, <4>3 DEF IInv, TypeOK, Payload, BornLate
      <4> QED  BY <1>1, <1>3, <2>3, <3>3, <4>1, <4>2, <4>4 DEF MayNarrow, Payload, BornLate
    <3> QED  BY <2>3, <3>1, <3>2, <3>3
  <2> QED  BY <2>4, <2>5, <2>6, <2>7 DEF IInv
<1>4. CASE ~(MayNarrow(h.parent, h.cap) /\ parent.depth + 1 <= MaxDepth)
  <2>1. /\ UNCHANGED <<host, now, databaseVars, memoryVars, pruneDue, session>>
        /\ parked' = {}
    BY <1>0, <1>4
  <2>2. TypeOK'
    BY <2>1 DEF IInv, TypeOK, Issued
  <2> QED  BY <2>1, <2>2 DEF IInv, KeysOK, SignaturesOK, SignatureOK, SignedInTime, Narrowing,
                              BornLate, Issued
<1> QED  BY <1>3, <1>4

\* Steps that ask or revoke write neither keys nor payloads.
LEMMA AskingStep ==
    ASSUME IInv,
           \/ \E a \in Agent : AskRenewal(a) \/ RevokeAgent(a)
           \/ \E p \in Jti, cap \in SUBSET Scope, ttl \in 1..MaxTtl : AskAttenuation(p, cap, ttl)
    PROVE  IInv'
<1>1. UNCHANGED <<host, now, keys, creds, signing, known>> /\ Issued' = Issued
  BY DEF AskRenewal, RevokeAgent, AskAttenuation, Issued
<1>2. TypeOK' /\ refused' = revoked'
  <2>1. ASSUME NEW a \in Agent, AskRenewal(a) PROVE TypeOK' /\ refused' = revoked'
    <3>1. session[a] \in Issued /\ creds[session[a]] \in Payload /\ DefaultTtl \in 1..MaxTtl
      BY <2>1 DEF IInv, TypeOK, AskRenewal, Issued
    <3>2. parked' \in SUBSET Attenuation
      BY <2>1, <3>1 DEF AskRenewal, Attenuation, Payload, Issued
    <3> QED  BY <1>1, <2>1, <3>1, <3>2 DEF IInv, TypeOK, KeysOK, AskRenewal
  <2>2. ASSUME NEW a \in Agent, RevokeAgent(a) PROVE TypeOK' /\ refused' = revoked'
    BY <1>1, <2>2 DEF IInv, TypeOK, KeysOK, RevokeAgent, LiveCredentials
  <2>3. ASSUME NEW p \in Jti, NEW cap \in SUBSET Scope, NEW ttl \in 1..MaxTtl,
               AskAttenuation(p, cap, ttl)
        PROVE  TypeOK' /\ refused' = revoked'
    BY <1>1, <2>3 DEF IInv, TypeOK, KeysOK, AskAttenuation, Attenuation, Verifies
  <2> QED  BY <2>1, <2>2, <2>3
<1> QED  BY <1>1, <1>2 DEF IInv, KeysOK, SignaturesOK, SignatureOK, SignedInTime, Narrowing,
                          BornLate

----------------------------------------------------------------------------
\* A step that changes keys but no payload keeps the types and what signatures
\* imply if it changes keys as rotation and pruning do: generated keys stay
\* generated, a signing key that stops being active is retired now, and the
\* verification set loses pruned keys only.
Ages(old, new) ==
    /\ old.state # "unused" => new.state # "unused"
    /\ old.state = "active" => new.state = "active" \/ new.at >= now
    /\ old.state # "active" => (new.state # "active" /\ new.at = old.at) \/ old.state = "unused"
    /\ old.state = "pruned" => new.state = "pruned"

LEMMA AgingKeepsSignatures ==
    ASSUME TypeOK, TypeOK', SignaturesOK, UNCHANGED <<host, now, creds>>,
           \A k \in Key : Ages(keys[k], keys'[k]),
           \A k \in known : k \in known' \/ keys'[k].state = "pruned"
    PROVE  SignaturesOK'
<1> SUFFICES ASSUME NEW j \in Issued PROVE SignatureOK(j)'
  BY DEF SignaturesOK, Issued
<1>1. SignatureOK(j) /\ creds[j] \in Payload
  BY DEF SignaturesOK, TypeOK, Issued
<1>2. creds[j].kid \in Key /\ Ages(keys[creds[j].kid], keys'[creds[j].kid])
  BY <1>1 DEF Payload
<1>3. host = "cloud" => SignedInTime(j)'
  BY <1>1, <1>2 DEF Ages, SignatureOK, SignedInTime, TypeOK, KeyRow, Payload
<1> QED  BY <1>1, <1>2, <1>3 DEF Ages, SignatureOK

LEMMA RotateStep ==
    ASSUME IInv, NEW k \in Key, RotateIssuerKey(k)
    PROVE  IInv'
<1>1. keys[k].state = "unused" /\ keys' = Replaced(k) /\ TypeOK
      /\ UNCHANGED <<host, now, creds, revoked, refused, parked, session>>
  BY DEF IInv, RotateIssuerKey
<1>2. TypeOK'
  <2>1. keys' \in [Key -> KeyRow] /\ \A i \in Key : keys'[i].state = "active" <=> i = k
    BY <1>1, ReplacedFacts
  <2>2. Issued' = Issued /\ known' \subseteq Key /\ signing' = k /\ pruneDue' \in BOOLEAN
    BY DEF RotateIssuerKey, Issued
  <2> QED  BY <1>1, <2>1, <2>2 DEF TypeOK
<1>3. KeysOK'
  <2>1. \A i \in Key : keys'[i].state = "pruned" => keys'[i] = keys[i]
    BY <1>1, ReplacedFacts DEF TypeOK
  <2> QED  BY <1>1, <2>1, ReplacedFacts DEF IInv, KeysOK, RotateIssuerKey
<1>4. \A i \in Key : Ages(keys[i], keys'[i])
  BY <1>1, ReplacedFacts DEF Ages, TypeOK, KeyRow
<1>5. \A i \in known : i \in known' \/ keys'[i].state = "pruned"
  <2>1. \A i \in known : i \in Key /\ keys[i].state # "unused" /\ i # k
    BY <1>1 DEF IInv, TypeOK, KeysOK
  <2>2. keys' \in [Key -> KeyRow]
    BY <1>2 DEF TypeOK
  <2>3. \A i \in known : keys'[i].state # "unused"
    BY <1>1, <2>1, ReplacedFacts
  <2> QED  BY <2>1, <2>2, <2>3 DEF RotateIssuerKey, KeyRow
<1>6. Narrowing'
  BY <1>1 DEF IInv, Narrowing, BornLate, Issued
<1> QED  BY <1>1, <1>2, <1>3, <1>4, <1>5, <1>6, AgingKeepsSignatures DEF IInv

LEMMA CommandStep ==
    ASSUME IInv, NEW k \in Key, RotateCommand(k)
    PROVE  IInv'
<1>1. keys[k].state = "unused" /\ TypeOK /\ host = "node"
      /\ UNCHANGED <<host, now, creds, revoked, memoryVars, parked, pruneDue, session>>
  BY DEF IInv, RotateCommand
<1>2. /\ keys' \in [Key -> KeyRow] /\ \A i \in Key : keys'[i].state = "active" <=> i = k
      /\ \A i \in Key : keys'[i].state # "unused" \/ keys'[i] = keys[i]
      /\ \A i \in Key : keys'[i].state = "pruned" => keys'[i].at + MaxTtl < now
  <2>1. keys' = [i \in Key |-> IF Overdue(i) THEN [Replaced(k)[i] EXCEPT !.state = "pruned"]
                               ELSE Replaced(k)[i]]
    BY DEF RotateCommand
  <2>2. \A i \in Key : Overdue(i) => i # k /\ Replaced(k)[i] = keys[i]
    BY <1>1, ReplacedFacts DEF Overdue
  <2>3. ASSUME NEW i \in Key
        PROVE  /\ keys'[i] \in KeyRow /\ (keys'[i].state = "active" <=> i = k)
               /\ keys'[i].state # "unused" \/ keys'[i] = keys[i]
               /\ keys'[i].state = "pruned" => keys'[i].at + MaxTtl < now
    <3>1. CASE Overdue(i)
      BY <1>1, <2>1, <2>2, <3>1 DEF TypeOK, KeyRow, Overdue
    <3>2. CASE ~Overdue(i)
      <4>1. keys'[i] = Replaced(k)[i]
        BY <2>1, <3>2
      <4> QED  BY <1>1, <4>1, ReplacedFacts DEF IInv, KeysOK, TypeOK, KeyRow
    <3> QED  BY <3>1, <3>2
  <2> QED  BY <2>1, <2>3
<1>3. TypeOK'
  <2>1. Issued' = Issued
    BY <1>1 DEF Issued
  <2> QED  BY <1>1, <1>2, <2>1 DEF TypeOK
<1>4. \A i \in Key : Ages(keys[i], keys'[i])
  <2>1. keys' = [i \in Key |-> IF Overdue(i) THEN [Replaced(k)[i] EXCEPT !.state = "pruned"]
                               ELSE Replaced(k)[i]]
    BY DEF RotateCommand
  <2>2. ASSUME NEW i \in Key, Overdue(i) PROVE Ages(keys[i], keys'[i])
    <3>1. Replaced(k)[i] = keys[i]
      BY <1>1, <2>2, ReplacedFacts DEF Overdue
    <3> QED  BY <1>1, <2>1, <2>2, <3>1 DEF Ages, Overdue, TypeOK, KeyRow
  <2>3. ASSUME NEW i \in Key, ~Overdue(i) PROVE Ages(keys[i], keys'[i])
    <3>1. keys'[i] = Replaced(k)[i]
      BY <2>1, <2>3
    <3> QED  BY <1>1, <3>1, ReplacedFacts DEF Ages, TypeOK, KeyRow
  <2> QED  BY <2>2, <2>3
<1>5. SignaturesOK'
  BY <1>1, <1>3, <1>4, AgingKeepsSignatures DEF IInv
<1>6. KeysOK'
  <2>1. \A i \in known \cup {signing} : i \in Key /\ keys'[i].state # "unused"
    BY <1>2 DEF IInv, KeysOK, TypeOK
  <2>2. keys[signing].state = "pruned" => keys'[signing].state = "pruned"
    BY <1>4 DEF Ages, IInv, TypeOK
  <2> QED  BY <1>1, <1>2, <2>1, <2>2 DEF IInv, KeysOK
<1>7. Narrowing'
  BY <1>1 DEF IInv, Narrowing, BornLate, Issued
<1> QED  BY <1>3, <1>5, <1>6, <1>7 DEF IInv

LEMMA PruneStep ==
    ASSUME IInv, PruneRetiredKeys
    PROVE  IInv'
<1>1. /\ TypeOK /\ UNCHANGED <<host, now, creds, revoked, signing, refused, parked, session>>
      /\ keys' = [k \in Key |-> IF Overdue(k) THEN [keys[k] EXCEPT !.state = "pruned"]
                                ELSE keys[k]]
  BY DEF IInv, PruneRetiredKeys
<1>2. ASSUME NEW k \in Key
      PROVE  /\ keys'[k] \in KeyRow /\ Ages(keys[k], keys'[k])
             /\ keys'[k].state \in {"unused", "active"} \/ keys[k].state \in {"unused", "active"}
                    => keys'[k] = keys[k]
             /\ keys'[k].state = "pruned" => keys'[k].at + MaxTtl < now
  BY <1>1 DEF IInv, KeysOK, TypeOK, KeyRow, Overdue, Ages
<1>3. \A k \in known : k \in known' \/ keys'[k].state = "pruned"
  <2>1. CASE \E k \in Key : Overdue(k)
    <3>1. known' = {k \in Key : keys'[k].state \in {"active", "retired"}}
      BY <2>1 DEF PruneRetiredKeys
    <3>2. \A k \in known : k \in Key /\ keys'[k].state # "unused"
      BY <1>2 DEF IInv, TypeOK, KeysOK
    <3> QED  BY <1>2, <3>1, <3>2 DEF KeyRow
  <2>2. CASE ~\E k \in Key : Overdue(k)
    BY <2>2 DEF PruneRetiredKeys
  <2> QED  BY <2>1, <2>2
<1>4. known' \subseteq Key /\ \A k \in known' : keys'[k].state # "unused"
  <2>1. CASE \E k \in Key : Overdue(k)
    BY <2>1 DEF PruneRetiredKeys
  <2>2. CASE ~\E k \in Key : Overdue(k)
    BY <1>1, <1>2, <2>2 DEF PruneRetiredKeys, IInv, TypeOK, KeysOK
  <2> QED  BY <2>1, <2>2
<1>5. TypeOK'
  <2>1. Issued' = Issued /\ pruneDue' \in BOOLEAN
    BY DEF PruneRetiredKeys, Issued
  <2>2. keys' \in [Key -> KeyRow] /\ \A k \in Key : keys'[k].state = "active" <=> keys[k].state = "active"
    BY <1>1, <1>2
  <2> QED  BY <1>1, <1>4, <2>1, <2>2 DEF TypeOK
<1>6. SignaturesOK'
  BY <1>1, <1>2, <1>3, <1>5, AgingKeepsSignatures DEF IInv
<1>7. KeysOK'
  <2>1. signing \in Key /\ Ages(keys[signing], keys'[signing])
    BY <1>1, <1>2 DEF TypeOK
  <2>2. host = "cloud" => keys'[signing] = keys[signing]
    BY <1>2, <2>1 DEF IInv, KeysOK
  <2>3. signing \in known' \/ keys'[signing].state = "pruned"
    BY <1>3, <2>1 DEF IInv, KeysOK, Ages
  <2>4. \A k \in known' \cup {signing} : keys'[k].state # "unused"
    BY <1>4, <2>1 DEF IInv, KeysOK, Ages
  <2>5. host = "cloud" => keys'[signing].state = "active"
    BY <2>2 DEF IInv, KeysOK
  <2>6. refused = revoked /\ \A k \in Key : keys'[k].state = "pruned" => keys'[k].at + MaxTtl < now
    BY <1>2 DEF IInv, KeysOK
  <2> QED  BY <1>1, <2>3, <2>4, <2>5, <2>6 DEF KeysOK
<1>8. Narrowing'
  BY <1>1 DEF IInv, Narrowing, BornLate, Issued
<1> QED  BY <1>5, <1>6, <1>7, <1>8 DEF IInv

LEMMA RestartStep ==
    ASSUME IInv, Restart
    PROVE  IInv'
<1>1. UNCHANGED <<host, now, keys, creds, revoked, pruneDue, session>>
      /\ refused' = revoked /\ known' = Published /\ Issued' = Issued
      /\ signing' \in Key /\ keys[signing'].state = "active"
  BY DEF Restart, ReloadRevocations, Issued, IInv, TypeOK
<1>2. TypeOK'
  BY <1>1 DEF IInv, TypeOK, Published, Restart
<1>3. \A k \in Key : keys[k].state # "unused" => k \in known' \/ keys[k].state = "pruned"
  BY <1>1 DEF Published, IInv, TypeOK, KeyRow
<1>4. KeysOK'
  BY <1>1, <1>3 DEF IInv, KeysOK, Published
<1>5. SignaturesOK'
  BY <1>1, <1>3 DEF IInv, SignaturesOK, SignatureOK, SignedInTime, Issued, TypeOK, Payload
<1>6. Narrowing'
  BY <1>1 DEF IInv, Narrowing, BornLate
<1> QED  BY <1>2, <1>4, <1>5, <1>6 DEF IInv

LEMMA TickStep ==
    ASSUME IInv, Tick
    PROVE  IInv'
<1>1. UNCHANGED <<host, keys, creds, revoked, signing, known, refused, parked, pruneDue, session>>
      /\ now' = now + 1 /\ now \in Nat /\ Issued' = Issued
  BY DEF Tick, IInv, TypeOK, Issued
<1>2. TypeOK'
  BY <1>1 DEF IInv, TypeOK
<1>3. KeysOK'
  BY <1>1 DEF IInv, KeysOK, TypeOK, KeyRow
<1>4. SignaturesOK'
  BY <1>1 DEF IInv, SignaturesOK, SignatureOK, SignedInTime, TypeOK, Payload, Issued
<1>5. Narrowing'
  BY <1>1 DEF IInv, Narrowing, BornLate
<1> QED  BY <1>2, <1>3, <1>4, <1>5 DEF IInv

LEMMA StutterStep ==
    ASSUME IInv, UNCHANGED vars
    PROVE  IInv'
  BY DEF IInv, TypeOK, KeysOK, SignaturesOK, SignatureOK, SignedInTime, Narrowing, BornLate,
         Issued, vars

LEMMA NextIInv == IInv /\ [Next]_vars => IInv'
<1> SUFFICES ASSUME IInv, [Next]_vars PROVE IInv'
  OBVIOUS
<1>1. ASSUME NEW a \in Agent, AskRenewal(a) \/ RevokeAgent(a) PROVE IInv'
  BY <1>1, AskingStep
<1>2. ASSUME NEW a \in Agent, NEW j \in Jti, IssueRoot(a, j) PROVE IInv'
  BY <1>2, IssueRootStep
<1>3. ASSUME NEW j \in Jti, Attenuate(j) PROVE IInv'
  BY <1>3, AttenuateStep
<1>4. ASSUME NEW p \in Jti, NEW cap \in SUBSET Scope, NEW ttl \in 1..MaxTtl,
             AskAttenuation(p, cap, ttl)
      PROVE  IInv'
  BY <1>4, AskingStep
<1>5. ASSUME NEW k \in Key, RotateIssuerKey(k) \/ RotateCommand(k) PROVE IInv'
  BY <1>5, RotateStep, CommandStep
<1>6. CASE PruneRetiredKeys
  BY <1>6, PruneStep
<1>7. CASE Restart
  BY <1>7, RestartStep
<1>8. CASE Tick
  BY <1>8, TickStep
<1>9. CASE UNCHANGED vars
  BY <1>9, StutterStep
<1> QED  BY <1>1, <1>2, <1>3, <1>4, <1>5, <1>6, <1>7, <1>8, <1>9 DEF Next

----------------------------------------------------------------------------
\* What follows from the invariant.

\* pruneRetiredKeys is safe: a key retired longer ago than the longest lifetime
\* cannot have signed anything alive that was signed before it was retired.
LEMMA InvariantKeepsLive == IInv => RotationKeepsLive
<1> SUFFICES ASSUME IInv, NEW j \in Issued, Live(j), host = "cloud" \/ SignedInTime(j)
             PROVE  Verifies(j) /\ creds[j].kid \in Published
  BY DEF RotationKeepsLive
<1> DEFINE key == keys[creds[j].kid]
<1>1. SignatureOK(j) /\ creds[j] \in Payload /\ key \in KeyRow /\ creds[j].kid \in Key
  BY DEF IInv, SignaturesOK, TypeOK, Issued, Payload
<1>2. key.state # "pruned"
  <2> SUFFICES ASSUME key.state = "pruned" PROVE FALSE
    OBVIOUS
  <2>1. key.at + MaxTtl < now
    BY <1>1 DEF IInv, KeysOK
  <2>2. creds[j].iat <= key.at /\ creds[j].exp <= creds[j].iat + MaxTtl
    BY <1>1 DEF SignatureOK, SignedInTime
  <2>3. now < creds[j].exp
    BY DEF Live
  <2> QED  BY <1>1, <2>1, <2>2, <2>3 DEF Payload, KeyRow, IInv, TypeOK
<1> QED  BY <1>1, <1>2 DEF SignatureOK, Published, Verifies, Live, IInv, KeysOK, KeyRow

\* A credential that does not verify does not verify after any step either.
LEMMA DeadStepsStayDead ==
    ASSUME IInv, IInv', [Next]_vars, NEW j \in Issued, Verifies(j)'
    PROVE  Verifies(j)
<1>1. creds'[j] = creds[j] /\ now <= now'
  BY DEF Next, vars, AskRenewal, RevokeAgent, IssueRoot, Attenuate, AskAttenuation, RotateIssuerKey,
         RotateCommand, PruneRetiredKeys, Restart, Tick, IInv, TypeOK, Issued
<1>2. refused \subseteq refused'
  BY DEF Next, vars, AskRenewal, RevokeAgent, IssueRoot, Attenuate, AskAttenuation, RotateIssuerKey,
         RotateCommand, PruneRetiredKeys, Restart, ReloadRevocations, Tick, IInv, KeysOK
<1>3. ASSUME NEW k \in Key, k \notin known, keys[k].state = "pruned" PROVE k \notin known'
  <2>1. CASE known' = known
    BY <1>3, <2>1
  <2>2. ASSUME NEW i \in Key, RotateIssuerKey(i) PROVE k \notin known'
    <3>1. keys'[k].state = "pruned"
      BY <1>3, <2>2, ReplacedFacts DEF RotateIssuerKey, IInv
    <3> QED  BY <2>2, <3>1 DEF RotateIssuerKey
  <2>3. CASE PruneRetiredKeys
    <3>1. keys'[k].state = "pruned"
      BY <1>3, <2>3 DEF PruneRetiredKeys, Overdue
    <3> QED  BY <1>3, <2>3, <3>1 DEF PruneRetiredKeys
  <2>4. CASE Restart
    BY <1>3, <2>4 DEF Restart, Published
  <2> QED  BY <2>1, <2>2, <2>3, <2>4
           DEF Next, vars, AskRenewal, RevokeAgent, IssueRoot, Attenuate, AskAttenuation,
               RotateCommand, Tick
<1>4. creds[j].kid \in Key /\ (creds[j].kid \in known \/ keys[creds[j].kid].state = "pruned")
  BY DEF IInv, SignaturesOK, SignatureOK, TypeOK, Issued, Payload
<1>5. creds[j] \in Payload /\ now \in Nat /\ now' \in Nat
  BY DEF IInv, TypeOK, Issued
<1> QED  BY <1>1, <1>2, <1>3, <1>4, <1>5 DEF Verifies, Payload

----------------------------------------------------------------------------
LEMMA InvariantHolds == Spec => []IInv
  BY InitIInv, NextIInv, PTL DEF Spec

\* The types of every variable, exactly one active issuer key among them: neither
\* the serving process nor the command ever leaves two or none.
THEOREM TypeCorrect == Spec => []TypeOK
<1>1. IInv => TypeOK
  BY DEF IInv
<1> QED  BY <1>1, InvariantHolds, PTL

\* Rotation is not a mass invalidation: whatever was signed before its key was
\* retired (on the cloud relay: whatever was signed) is accepted until it expires
\* or is revoked, and its key stays published that long.
THEOREM RotationIsSafe == Spec => []RotationKeepsLive
  BY InvariantHolds, InvariantKeepsLive, PTL

\* Delegation only narrows, along chains of any length: no capability is gained, and
\* a descendant outlives an ancestor only if it was issued after the ancestor had run
\* out, for the second the floor of its lifetime gives.
THEOREM DelegationNarrows == Spec => []Narrowing
<1>1. IInv => Narrowing
  BY DEF IInv
<1> QED  BY <1>1, InvariantHolds, PTL

\* No restart, rotation, pruning or attenuation revives a credential that was
\* expired, revoked or below a revoked one.
THEOREM DeathIsFinal == Spec => OnceDeadStaysDead
<1>1. IInv /\ IInv' /\ [Next]_vars => [\A j \in Issued : ~Verifies(j) => ~Verifies(j)']_vars
  BY DeadStepsStayDead
<1> QED  BY <1>1, InvariantHolds, PTL DEF Spec, OnceDeadStaysDead

=============================================================================
