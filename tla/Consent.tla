------------------------------ MODULE Consent ------------------------------
(***************************************************************************)
(* The consent record of PROTOCOL.md section 6, as data: what              *)
(* packages/relay/src/lib/consent.ts and the writers in credentialStore.ts *)
(* compute.  Both relays import that file, so both models extend this      *)
(* module.                                                                 *)
(*                                                                         *)
(* A subject is what a human reads: the text of a plan (its goal and its   *)
(* items, one opaque value) and the plan's version.  planSubjectHash is    *)
(* collision free, so a subject stands for its own hash.  A credential     *)
(* stands for the holder key it is bound to, and a signature is the pair   *)
(* of the key that made it and the subject it covers.                      *)
(*                                                                         *)
(* createPrincipal is called once for each agent that pairs with a holder  *)
(* key, so an agent also stands for its principal.                         *)
(***************************************************************************)
EXTENDS Naturals

CONSTANTS
    Agent,      \* agents that may ever take part in the pairing
    Cred,       \* credentials that may ever be issued
    CredOwner,  \* CredOwner[c]: the agent (and so the principal) c names
    Goal,       \* plan texts
    NoGoal      \* the text of a plan that does not exist

ASSUME ConsentAssumption ==
    /\ CredOwner \in [Cred -> Agent]
    /\ NoGoal \notin Goal

Subject == [goal : Goal, version : Nat \ {0}]

\* Version 0 is the code's own spelling of "no row": existing?.version ?? 0.
NoSubject == [goal |-> NoGoal, version |-> 0]

Signature == [key : Cred, over : Subject]
Approval == [principal : Agent, credential : Cred, sig : Signature]

ConsentRecord ==
    [subject : Subject \cup {NoSubject}, required : SUBSET Agent,
     approvals : SUBSET Approval, satisfied : BOOLEAN]

NoConsent ==
    [subject |-> NoSubject, required |-> {}, approvals |-> {}, satisfied |-> FALSE]

Exists(record) == record.subject.version # 0

Principals(approvals) == {ap.principal : ap \in approvals}

----------------------------------------------------------------------------
\* Seeded defects: plausible slips in the definitions below.

SatisfiedBySome(required, approvals) ==
    required \cap Principals(approvals) # {}

VerifiesAnything(c, sig, subject) == sig.key = c

AppendApproval(record, ap) ==
    LET approvals == record.approvals \cup {ap}
    IN  [record EXCEPT !.approvals = approvals,
                       !.satisfied = record.required \subseteq Principals(approvals)]

KeepSatisfied(record, approvals) == [record EXCEPT !.approvals = approvals]

----------------------------------------------------------------------------
\* isSatisfied: unanimity over a non-empty required set.
IsSatisfied(required, approvals) ==
    /\ required # {}
    /\ required \subseteq Principals(approvals)

\* verifyApprovalSignature: made with c's holder key, over exactly this subject.
VerifyApprovalSignature(c, sig, subject) ==
    /\ sig.key = c
    /\ sig.over = subject

\* openConsent: a fresh record, nobody has approved.
OpenConsent(subject, required) ==
    [subject |-> subject, required |-> required, approvals |-> {}, satisfied |-> FALSE]

\* Every writer recomputes the flag from what is left.
WithApprovals(record, approvals) ==
    [record EXCEPT !.approvals = approvals,
                   !.satisfied = IsSatisfied(record.required, approvals)]

\* approve: re-approving replaces, so there is one approval per principal.
WithApproval(record, ap) ==
    WithApprovals(record, {old \in record.approvals : old.principal # ap.principal} \cup {ap})

\* withdraw
WithoutPrincipal(record, p) ==
    WithApprovals(record, {ap \in record.approvals : ap.principal # p})

\* withdrawByCredentials
WithoutCredentials(record, dead) ==
    WithApprovals(record, {ap \in record.approvals : ap.credential \notin dead})

\* The checks of approve, for a claim signed with c over the subject.
MayApprove(record, c, sig) ==
    /\ Exists(record)
    /\ CredOwner[c] \in record.required
    /\ VerifyApprovalSignature(c, sig, record.subject)

\* verifyConsentRecord(...).satisfied: what a third party derives from the
\* signatures and the holder keys it knows, whatever the relay's flag says.
VerifyConsentRecord(record, knownKeys) ==
    LET valid(ap) == /\ ap.credential \in knownKeys
                     /\ ap.principal \in record.required
                     /\ VerifyApprovalSignature(ap.credential, ap.sig, record.subject)
    IN  /\ \A ap \in record.approvals : valid(ap)
        /\ record.required \subseteq Principals({ap \in record.approvals : valid(ap)})

=============================================================================
