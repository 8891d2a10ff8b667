------------------------------ MODULE TrustLedger ------------------------------
(***************************************************************************)
(* What the host-key protocol of WakeBridge promises, without handlers,    *)
(* locks or SQL: a site's SSH host key becomes trusted only by spending a  *)
(* grant.  A grant is the record that one administrator's session saw one  *)
(* key in one successful connection test of one site, and it is good for   *)
(* one decision.  A site that was deleted never comes back under its id.   *)
(* SiteTrust, the interleaved handlers, is shown to implement this.        *)
(***************************************************************************)
EXTENDS Naturals

CONSTANTS
    Sites,      \* site ids
    Tokens,     \* session tokens
    Admins,     \* the tokens of administrators' sessions
    Keys,       \* SSH host-key fingerprints
    None        \* no key is trusted

VARIABLES
    status,     \* "new" (id not handed out), "live" or "gone", per site
    trusted,    \* the trusted key of each site, or None
    grants,     \* the grants that may still be spent
    lastGrant   \* the number of grants ever given, also the newest one's id

vars == <<status, trusted, grants, lastGrant>>

Grant == [token : Tokens, site : Sites, key : Keys, id : Nat]

Init ==
    /\ status = [s \in Sites |-> "new"]
    /\ trusted = [s \in Sites |-> None]
    /\ grants = {}
    /\ lastGrant = 0

Register(s) ==
    /\ status[s] = "new"
    /\ status' = [status EXCEPT ![s] = "live"]
    /\ UNCHANGED <<trusted, grants, lastGrant>>

Remove(s) ==
    /\ status[s] = "live"
    /\ status' = [status EXCEPT ![s] = "gone"]
    /\ trusted' = [trusted EXCEPT ![s] = None]
    /\ UNCHANGED <<grants, lastGrant>>

Revoke(s) ==
    /\ trusted' = [trusted EXCEPT ![s] = None]
    /\ UNCHANGED <<status, grants, lastGrant>>

\* A successful test: a new grant, which replaces the grant the same session
\* still held for the same site.
Observe(t, s, k) ==
    LET g == [token |-> t, site |-> s, key |-> k, id |-> lastGrant + 1]
    IN  /\ t \in Admins
        /\ g \in grants'
        /\ grants' \ {g} \subseteq grants
        /\ lastGrant' = lastGrant + 1
        /\ UNCHANGED <<status, trusted>>

\* The decision: the grant is spent, whatever else stays.
Trust(g) ==
    /\ status[g.site] = "live"
    /\ trusted' = [trusted EXCEPT ![g.site] = g.key]
    /\ grants' = grants \ {g}
    /\ UNCHANGED <<status, lastGrant>>

\* Grants are lost at a logout, a refused decision, a cancelled request or a
\* restart; nothing else changes then.
Forget ==
    /\ grants' \subseteq grants
    /\ UNCHANGED <<status, trusted, lastGrant>>

Next ==
    \/ \E s \in Sites : Register(s) \/ Remove(s) \/ Revoke(s)
    \/ \E t \in Tokens, s \in Sites, k \in Keys : Observe(t, s, k)
    \/ \E g \in grants : Trust(g)
    \/ Forget

Spec == Init /\ [][Next]_vars
================================================================================
