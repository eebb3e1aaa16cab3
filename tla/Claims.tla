------------------------------- MODULE Claims -------------------------------
(***************************************************************************)
(* `issue claim` and `issue release` on one issue. claims.rs reads the     *)
(* claim and writes it in two statements with no transaction around them,  *)
(* and every CLI command is a process of its own, so another session can   *)
(* step in between. issue_claims holds at most one row per issue.          *)
(* A definition under "Slip" is a wrong version of the one after it, which *)
(* some property must tell from the right one.                             *)
(***************************************************************************)
EXTENDS Naturals, FiniteSets

CONSTANTS
    Session,
    Actor, Name,    \* session -> the actor it claims as
    Nobody,
    Forcing,        \* sessions that pass --force
    MaxClaims       \* bound: claim and release commands per session

ASSUME ClaimConstants ==
    /\ Name \in [Session -> Actor] /\ Nobody \notin Actor
    /\ Forcing \subseteq Session /\ MaxClaims \in Nat

VARIABLES
    holder,     \* claimed_by of the issue's row, Nobody without a row
    claimPc,    \* session -> the statement it runs next
    existing,   \* session -> what its release read
    exit,       \* session -> how its last command ended
    asked,      \* session -> commands so far
    \* history, not in the code
    steady      \* session -> who has held the issue ever since its command began

claimVars == <<holder, claimPc, existing, exit, asked, steady>>

ClaimPC == {"idle", "look", "upsert", "unlook", "delete"}

ClaimInit ==
    /\ holder = Nobody
    /\ claimPc = [s \in Session |-> "idle"]
    /\ existing = [s \in Session |-> Nobody]
    /\ exit = [s \in Session |-> "ok"]
    /\ asked = [s \in Session |-> 0]
    /\ steady = [s \in Session |-> Nobody]

Begin(s, step) ==
    /\ claimPc[s] = "idle" /\ asked[s] < MaxClaims
    /\ claimPc' = [claimPc EXCEPT ![s] = step]
    /\ asked' = [asked EXCEPT ![s] = @ + 1]
    /\ steady' = [steady EXCEPT ![s] = holder]
    /\ UNCHANGED <<holder, existing, exit>>

BeginClaim(s) == Begin(s, "look")
BeginRelease(s) == Begin(s, "unlook")

End(s, result) ==
    /\ claimPc' = [claimPc EXCEPT ![s] = "idle"]
    /\ exit' = [exit EXCEPT ![s] = result]

\* The row goes to a, and whoever did not hold it then has not held it throughout.
Hand(a) ==
    /\ holder' = a
    /\ steady' = [t \in Session |-> IF steady[t] = a THEN a ELSE Nobody]

\* claims::claim up to its check: one's own claim is a no-op, another's an error.
LookOwn(s) ==
    /\ claimPc[s] = "look" /\ holder = Name[s]
    /\ End(s, "ok")
    /\ UNCHANGED <<holder, existing, asked, steady>>

LookRefused(s) ==
    /\ claimPc[s] = "look" /\ holder \notin {Name[s], Nobody} /\ s \notin Forcing
    /\ End(s, "error")
    /\ UNCHANGED <<holder, existing, asked, steady>>

\* Slip: --force is not asked for.
LookAnyway(s) ==
    /\ claimPc[s] = "look" /\ holder # Name[s]
    /\ claimPc' = [claimPc EXCEPT ![s] = "upsert"]
    /\ UNCHANGED <<holder, existing, exit, asked, steady>>

LookFree(s) ==
    /\ claimPc[s] = "look"
    /\ holder = Nobody \/ (holder # Name[s] /\ s \in Forcing)
    /\ claimPc' = [claimPc EXCEPT ![s] = "upsert"]
    /\ UNCHANGED <<holder, existing, exit, asked, steady>>

\* INSERT ... ON CONFLICT DO UPDATE.
Upsert(s) ==
    /\ claimPc[s] = "upsert"
    /\ Hand(Name[s])
    /\ End(s, "ok")
    /\ UNCHANGED <<existing, asked>>

\* claims::release: read the holder to report, then delete the row.
LookHolder(s) ==
    /\ claimPc[s] = "unlook"
    /\ existing' = [existing EXCEPT ![s] = holder]
    /\ claimPc' = [claimPc EXCEPT ![s] = "delete"]
    /\ UNCHANGED <<holder, exit, asked, steady>>

DeleteClaim(s) ==
    /\ claimPc[s] = "delete"
    /\ Hand(Nobody)
    /\ existing' = [existing EXCEPT ![s] = Nobody]
    /\ End(s, "ok")
    /\ UNCHANGED asked

ClaimStep(s) ==
    \/ LookOwn(s) \/ LookRefused(s) \/ LookFree(s) \/ Upsert(s)
    \/ LookHolder(s) \/ DeleteClaim(s)

ClaimNext == \E s \in Session : BeginClaim(s) \/ BeginRelease(s) \/ ClaimStep(s)

ClaimSpec == ClaimInit /\ [][ClaimNext]_claimVars

(***************************************************************************)
(* Properties                                                              *)
(***************************************************************************)
ClaimTypeOK ==
    /\ holder \in Actor \cup {Nobody}
    /\ claimPc \in [Session -> ClaimPC]
    /\ existing \in [Session -> Actor \cup {Nobody}]
    /\ exit \in [Session -> {"ok", "error"}]
    /\ asked \in [Session -> 0..MaxClaims]
    /\ steady \in [Session -> Actor \cup {Nobody}]

\* Claiming over another actor's live claim fails unless forced, as far as that holds
\* across processes: a claim that was there when another session's `claim` began, and
\* stayed, is not taken by it without --force.
SettledClaimsHold ==
    [][\A s \in Session : Upsert(s) /\ s \notin Forcing =>
         steady[s] \in {Nobody, Name[s]}]_claimVars
=============================================================================
