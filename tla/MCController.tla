---------------------------- MODULE MCController ----------------------------
\* Values for the constants of Controller: one set of specs per profile, as
\* the webhook leaves them.
EXTENDS Controller

\* Watched is {"core"} in every configuration.  It stands for the workloads of
\* a tier that are of a kind in the Owns list (controller.go:400-410) and in
\* the deployment's own namespace.  PostgresClusters, Keycloaks, Certificates,
\* workloads that Helm installs and dependents elsewhere wake nobody.

S(infra, rest, tls, addons) ==
    [infra |-> infra, rest |-> rest, tls |-> tls, addons |-> addons]

\* site, where the user wrote no rest block, with the addons the webhook
\* adds; the infrastructure may be taken away.
SiteSpecs == {S(TRUE, "nil", "spiffe", Addons),
              S(FALSE, "nil", "spiffe", Addons)}

\* site, where the user wrote a rest block: on after the operator's first
\* update, off again when the user writes "enabled: false".
SiteRestSpecs == {S(TRUE, rest, "spiffe", Addons) :
                     rest \in {"disabled", "enabled"}}

\* Anything the type allows to differ between two generations, for a
\* cluster where objects were stored while the webhook was not there.
MixedSpecs == {S(TRUE, "nil", "spiffe", {}), S(FALSE, "disabled", "nil", {}),
               S(FALSE, "enabled", "nil", {})}
=============================================================================
