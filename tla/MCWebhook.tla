----------------------------- MODULE MCWebhook -----------------------------
\* Specs users write, with and without the parts the webhook completes.
EXTENDS Webhook

SomeNames == {"", "a", "b", "nvidia-carbide-mgmt", "carbide-site-name",
              "nvidia-carbide"}

I(ns, dbs, pg, conn) ==
    [ns |-> ns, dbs |-> dbs, pg |-> pg, conn |-> conn, sized |-> FALSE]

T(enabled, temporal, endpoint, keycloak, providers) ==
    [enabled |-> enabled, ns |-> "", temporal |-> temporal,
     endpoint |-> endpoint, keycloak |-> keycloak, providers |-> providers,
     sized |-> FALSE]

SomeInfra == {{}, {I("", "", "", "nil")}, {I("a", "given", "external", "given")},
              {I("b", "", "external", "noHost")}}

SomeRest == {{}, {T(TRUE, "", FALSE, "", "none")},
             {T(FALSE, "external", TRUE, "external", "given")},
             {T(TRUE, "external", FALSE, "disabled", "none")},
             {T(FALSE, "managed", FALSE, "external", "noURL")}}

SomeTLS == {{}, {[mode |-> "", spiffe |-> "partial", issuer |-> "nil"]},
            {[mode |-> "certManager", spiffe |-> "nil", issuer |-> "given"]},
            {[mode |-> "certManager", spiffe |-> "nil", issuer |-> "noKind"]}}

SomeVault == {{}, {[mode |-> "", address |-> FALSE, token |-> FALSE,
                    sized |-> FALSE]},
              {[mode |-> "external", address |-> TRUE, token |-> TRUE,
                sized |-> FALSE]},
              {[mode |-> "external", address |-> TRUE, token |-> FALSE,
                sized |-> FALSE]}}

SomeAddon == {{}, {[on |-> FALSE, sized |-> FALSE]}}

Written(profiles, infras, rests, tlss, vaults, addons) ==
    {[profile |-> p, network |-> p # "management", infra |-> i,
      core |-> [ns |-> "", on |-> {"dhcp"}, sized |-> FALSE],
      rest |-> x, tls |-> t, vault |-> v, rla |-> a, psm |-> {}] :
        p \in profiles, i \in infras, x \in rests, t \in tlss,
        v \in vaults, a \in addons}

NoNetwork ==
    {[r EXCEPT !.network = FALSE] :
        r \in Written({"site"}, SomeInfra, {{}}, {{}}, {{}}, {{}})}

ManyRaws ==
    Written(Profiles, SomeInfra, SomeRest, SomeTLS, {{}}, {{}})
    \cup Written({"site"}, SomeInfra, {{}}, SomeTLS, SomeVault, SomeAddon)
    \cup NoNetwork
=============================================================================
