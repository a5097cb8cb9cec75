--------------------------- MODULE MCOwnedObject ---------------------------
\* Kinds of resources for OwnedObject.
EXTENDS OwnedObject

K(retries, cached, scope) ==
    [retries |-> retries, cached |-> cached, scope |-> scope]

\* All four forms of createOrUpdate, in the deployment's own namespace.
AtHome == {K(r, c, "home") : r \in BOOLEAN, c \in BOOLEAN}

\* The init ConfigMap of a deployment whose infrastructure namespace is not
\* its own, as in the samples.
Elsewhere == {K(FALSE, TRUE, "away")}
=============================================================================
