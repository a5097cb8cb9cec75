---------------------------- MODULE MCInfraTier ----------------------------
\* Configurations for InfraTier.
EXTENDS InfraTier

C(profile, mode, dbs, users, class) ==
    [profile |-> profile, mode |-> mode, dbs |-> dbs, users |-> users,
     class |-> class, version |-> 1, strict |-> TRUE]

\* A hub with the webhook's databases, whose owner trades one for another.
Hub == {C("management", "managed", DatabasesFor("management"), {}, TRUE),
        C("management", "managed",
          {"forge", "temporal", "temporal_visibility", "metrics"}, {}, TRUE)}

\* A site that moves between the operator's database, in a mode the webhook
\* has not filled in, and one of its own.
Site == {C("site", "", DatabasesFor("site"), {}, FALSE),
         C("site", "external", DatabasesFor("site"), {"carbide", "rla"}, FALSE)}

\* Incomplete ones, and one without Secrets and databases.
Edges == {C("site", "nil", {}, {}, FALSE),
          C("site", "noConnection", {}, {}, FALSE),
          C("site", "external", {}, {}, FALSE),
          C("site", "managed", {}, {}, FALSE)}

Tiers == {Hub, Site, Edges}

Everything == {Class, CRD, Server}
              \cup {UserSecret(u) : u \in {"carbide", "rla"}}
              \cup {Login(u) : u \in {"carbide", "rla"}}

\* All but something the passes check for.
Late(c) == IF c \in Hub THEN {Class, CRD}
           ELSE IF External(c) THEN {Server, UserSecret("rla"), Login("rla")}
           ELSE {}

Unchecked == [c \in Configs |-> Everything \ Late(c)]
=============================================================================
