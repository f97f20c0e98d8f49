--------------------------- MODULE PlanAgreement ---------------------------
(***************************************************************************)
(* What PROTOCOL.md section 6.3 promises of one pairing's plan, without    *)
(* any of the relay's machinery: one text at a time; a new text is newer   *)
(* and starts with nothing agreed (rule 4); an approval is for the text as *)
(* it stands (rule 2); the plan locks when every member has approved; the  *)
(* principals whose consent counts are fixed when the text is proposed     *)
(* (rule 5); withdrawing and revoking only ever remove signatures (rules 6 *)
(* and 7).  The relays are shown to implement it.                          *)
(***************************************************************************)
EXTENDS Naturals

CONSTANTS
    Agent,
    Subject,    \* [goal, version]
    NoSubject

VARIABLES
    members,    \* agents in the pairing
    text,       \* the subject under discussion
    approvers,  \* members who approved it
    locked,     \* agreed
    required,   \* principals whose signature the text needs
    signers     \* principals whose signature it has

vars == <<members, text, approvers, locked, required, signers>>

Init ==
    /\ members \in SUBSET Agent
    /\ text = NoSubject
    /\ approvers = {} /\ locked = FALSE
    /\ required = {} /\ signers = {}

Join(a) ==
    /\ a \notin members
    /\ members' = members \cup {a}
    /\ UNCHANGED <<text, approvers, locked, required, signers>>

Propose(s) ==
    /\ s.version > text.version
    /\ text' = s
    /\ approvers' = {} /\ locked' = FALSE
    /\ required' = members /\ signers' = {}
    /\ UNCHANGED members

\* A v2 approval counts towards the lock; a v3 one is signed as well, and only
\* by a principal the text requires.
Approve(a) ==
    /\ text # NoSubject
    /\ a \in members
    /\ approvers' = approvers \cup {a}
    /\ locked' = (members \subseteq approvers')
    /\ signers' \in {signers, signers \cup ({a} \cap required)}
    /\ UNCHANGED <<members, text, required>>

Unsign(gone) ==
    /\ signers' = signers \ gone
    /\ UNCHANGED <<members, text, approvers, locked, required>>

Next ==
    \/ \E a \in Agent : Join(a) \/ Approve(a)
    \/ \E s \in Subject : Propose(s)
    \/ \E gone \in SUBSET Agent : Unsign(gone)

Spec == Init /\ [][Next]_vars

=============================================================================
