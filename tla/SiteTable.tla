-------------------------------- MODULE SiteTable --------------------------------
(***************************************************************************)
(* What the handlers of src/src/web.rs do to the tables sites and secrets, *)
(* as a wake can tell: which sites there are, which of them have a trusted *)
(* key, and which have a credential.  Each statement changes one of the    *)
(* three, but for a deletion, which cascades.  SiteTrust keeps it, with    *)
(* the requests that issue the statements; Wake keeps it too, with the     *)
(* statements alone, and allows each of them at any time.                  *)
(***************************************************************************)
EXTENDS Naturals

CONSTANT Sites  \* the ids that may be handed out

VARIABLES
    next,       \* the next id
    stored,     \* the sites that have a row
    trusted,    \* those of them that have a fingerprint
    secrets     \* those of them that have a credential

vars == <<next, stored, trusted, secrets>>

\* Any contents that the foreign key and AUTOINCREMENT allow.
Init ==
    /\ next \in Nat
    /\ stored \subseteq {s \in Sites : s < next}
    /\ trusted \subseteq stored /\ secrets \subseteq stored

Insert ==
    /\ next \in Sites
    /\ next' = next + 1 /\ stored' = stored \cup {next}
    /\ UNCHANGED <<trusted, secrets>>

Trust(s) ==
    /\ trusted' = trusted \cup {s}
    /\ UNCHANGED <<next, stored, secrets>>

Distrust(s) ==
    /\ trusted' = trusted \ {s}
    /\ UNCHANGED <<next, stored, secrets>>

Store(s) ==
    /\ secrets' = secrets \cup {s}
    /\ UNCHANGED <<next, stored, trusted>>

Delete(s) ==
    /\ stored' = stored \ {s} /\ trusted' = trusted \ {s} /\ secrets' = secrets \ {s}
    /\ UNCHANGED next

Next == Insert \/ \E s \in stored : Trust(s) \/ Distrust(s) \/ Store(s) \/ Delete(s)

Spec == Init /\ [][Next]_vars
================================================================================
