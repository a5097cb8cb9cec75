----------------------------- MODULE MCRestTier -----------------------------
\* Configurations for RestTier, as the webhook leaves them.
EXTENDS RestTier

C(management, db, tls, temporal, keycloak, agent) ==
    [enabled |-> TRUE, management |-> management, db |-> db, apart |-> FALSE,
     tls |-> tls, version |-> 1, temporal |-> temporal, keycloak |-> keycloak,
     agent |-> agent, strict |-> FALSE]

\* A hub that moves from managed Temporal to one of its own, and from the
\* database operator to a database elsewhere.
Moved ==
    {C(FALSE, "managed", "nil", "managed", "disabled", FALSE),
     C(FALSE, "external", "nil", "external", "disabled", FALSE)}

\* A hub with certificates in a namespace of its own.
Apart == {[C(TRUE, "managed", "certManager", "external", "external", TRUE)
             EXCEPT !.apart = TRUE]}

\* A hub that is upgraded on a real API server.
Upgraded ==
    {[C(FALSE, "managed", "spiffe", "external", "disabled", FALSE)
        EXCEPT !.version = v, !.strict = TRUE] : v \in {1, 2}}

\* Odd ones the tier must not call ready, and one that is switched off.
Databases ==
    {C(TRUE, "nil", "nil", "managed", "managed", FALSE),
     C(TRUE, "noSecrets", "nil", "managed", "managed", FALSE),
     [C(FALSE, "managed", "nil", "managed", "managed", FALSE)
        EXCEPT !.enabled = FALSE]}

Edges ==
    {C(TRUE, "managed", "nil", "noEndpoint", "managed", FALSE),
     C(TRUE, "managed", "spiffe", "external", "noProvider", FALSE)}

\* Managed Keycloak, upgraded in the tests' world, and on a real API server.
Tested ==
    {[C(FALSE, "managed", "spiffe", "external", "managed", FALSE)
        EXCEPT !.version = v] : v \in {1, 2}}
Real   == {[C(TRUE, "managed", "nil", "external", "managed", FALSE)
              EXCEPT !.strict = TRUE]}

Hubs == {Moved, Apart, Upgraded, Databases, Edges, Tested, Real}

\* The default hub: managed Temporal and Keycloak.
DefaultHub == {{C(TRUE, "managed", "spiffe", "managed", "managed", FALSE)}}

\* What the tier needs and nobody creates.
Undocumented ==
    {Home, R("ServiceAccount", "temporal-helm-installer"),
     R("ServiceAccount", "site-agent"), R("TLSSecret", "site-agent"),
     R("Secret", "temporal-encryption-key")}

Everything == Undocumented \cup {Forge("managed"), Forge("external"), Copied,
                                 Operator, Client, Address("external"),
                                 SetupAddress}

\* All is there, or all but something the passes check for.
Supplied == [c \in Configs |-> Everything]

Late(c) == IF c.strict THEN {Home, Operator}
           ELSE IF c \in Moved /\ c.temporal = "managed" THEN {Forge("managed")}
           ELSE IF c \in Moved THEN {Address("external")}
           ELSE {}

Unchecked == [c \in Configs |-> Everything \ Late(c)]
=============================================================================
