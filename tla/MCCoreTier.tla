----------------------------- MODULE MCCoreTier -----------------------------
\* Configurations for CoreTier, as the webhook leaves them.
EXTENDS CoreTier

C(db, tls, on, storage, vault, strict) ==
    [profile |-> "site", db |-> db, apart |-> FALSE, tls |-> tls,
     version |-> 1, on |-> on, storage |-> storage, vault |-> vault,
     strict |-> strict]

\* The default site: SPIFFE, managed Vault, all services.
DefaultSite == {{C("managed", "spiffe", Services, FALSE, "managed", FALSE)}}

\* A site with certificates and managed Vault, few services.
ManagedCertSite ==
    {{C("managed", "certManager", {"psm"}, FALSE, "managed", TRUE)}}

\* A site that goes back and forth between SPIFFE with managed Vault and
\* certificates with a Vault elsewhere.
Switched ==
    {C("managed", "spiffe", {}, FALSE, "managed", FALSE),
     C("managed", "certManager", {}, FALSE, "external", FALSE)}

\* A site whose Vault moves, with a service that waits for Vault.
Moved ==
    {C("managed", "spiffe", {"rla"}, FALSE, "managed", FALSE),
     C("managed", "spiffe", {}, FALSE, "external", FALSE)}

\* Volumes for PXE.
Stored == {C("managed", "certManager", {"pxe", "psm"}, TRUE, "nil", FALSE)}

\* A site in a namespace of its own on an external database, upgraded on a
\* real API server.
Upgraded ==
    {[C("external", "certManager", {"dhcp"}, FALSE, "external", TRUE)
        EXCEPT !.apart = TRUE, !.version = v] : v \in {1, 2}}

\* Configurations the tier must not call ready, and one it may.
Edges ==
    {C("nil", "nil", {}, FALSE, "nil", TRUE),
     C("noSecrets", "nil", {}, FALSE, "nil", TRUE),
     C("managed", "nil", {}, FALSE, "noAddress", TRUE),
     C("managed", "nil", {"dns"}, FALSE, "nil", TRUE)}

Hub == {[C("managed", "nil", {}, FALSE, "nil", TRUE)
           EXCEPT !.profile = "management"]}

Sites == {Switched, Moved, Stored, Upgraded, Edges, Hub}

Users == {"carbide", "rla", "psm"}

UserSecrets == {PgUser(db, u) : db \in {"managed", "external"}, u \in Users}
               \cup {Copied(u) : u \in Users}
               \cup {Token, R("Secret", "pxe-certificate")}

WithUnseal == UserSecrets \cup {Unseal}

\* All is there, or all but something the passes check for.
Supplied == [c \in Configs |-> UserSecrets]
Unsealed == [c \in Configs |-> WithUnseal]

Late(c) == IF c \in Stored \cup Edges THEN {PgUser("managed", "carbide")}
           ELSE IF c \in Upgraded THEN {Token}
           ELSE {}

Unchecked == [c \in Configs |-> WithUnseal \ Late(c)]
=============================================================================
