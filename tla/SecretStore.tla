----------------------------- MODULE SecretStore -----------------------------
(***************************************************************************)
(* What the credential journal promises to each service that uses it:      *)
(* owners and the secrets they refer to, as if the database and the vault  *)
(* were one store.  A provider changes the one secret of its own, a save   *)
(* of a service integration those of several slots at once.  A secret is   *)
(* announced before it is stored and only a stored one becomes current;    *)
(* what an owner no longer refers to is owed a disposal, and the debt is   *)
(* settled only when the secret is gone.  Between any two steps the        *)
(* process may die: a state is all there is to recover from.               *)
(***************************************************************************)
CONSTANTS Owner, Secret, None

VARIABLES
    current, \* the secret each owner refers to
    stored,  \* the secrets that exist
    owed     \* the secrets that are to be made current or to be disposed of

vars == <<current, stored, owed>>

Bound == {current[o] : o \in Owner} \ {None}

Init ==
    /\ current = [o \in Owner |-> None]
    /\ stored = {}
    /\ owed = {}

Announce(s) ==
    /\ s \notin stored \cup owed \cup Bound
    /\ owed' = owed \cup {s}
    /\ UNCHANGED <<current, stored>>

Store(s) ==
    /\ s \in owed
    /\ stored' = stored \cup {s}
    /\ UNCHANGED <<current, owed>>

\* Owners turn, together, from one secret, if any, to another that is there, or to none: what
\* is no longer referred to is owed, what is referred to is owed no longer.
Change ==
    /\ current' \in [Owner -> Secret \cup {None}]
    /\ \A o \in Owner : current'[o] # current[o] =>
          \/ current'[o] = None
          \/ current'[o] \in stored \cap owed /\ \A q \in Owner \ {o} : current'[q] # current'[o]
    /\ owed' = (owed \cup Bound) \ Bound'
    /\ UNCHANGED stored

\* Secrets that are owed a disposal go, and debts for secrets that are gone may be dropped.
Settle ==
    /\ owed' \subseteq owed /\ stored' \subseteq stored
    /\ stored \ stored' \subseteq owed
    /\ (owed \ owed') \cap stored' = {}
    /\ UNCHANGED current

Next ==
    \/ Settle \/ Change
    \/ \E s \in Secret : Announce(s) \/ Store(s)

Spec == Init /\ [][Next]_vars
=============================================================================
