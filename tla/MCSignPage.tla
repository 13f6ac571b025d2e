----------------------------- MODULE MCSignPage -----------------------------
(* A small instance of SignPage for TLC.                                    *)
EXTENDS SignPage
CONSTANTS t1, t2, p1, p2, app, sign, preview, dev, stray, bare, rp
MCText == {t1, t2}
MCSigner == {p1, p2}
\* Two hosts of the permanent domain, a test build beside them, a developer's
\* own computer, the production build at a host outside of the domain, and a
\* production build for which no domain was configured.
MCHost == {app, sign, preview, dev, stray, bare}
MCLocalHost == {dev}
MCWithin == [d \in {rp} |-> {app, sign, preview}]
MCBuild == [h \in MCHost |-> IF h \in {preview, dev, bare}
                             THEN [rpId |-> NoDomain, testMode |-> h = preview]
                             ELSE [rpId |-> rp, testMode |-> FALSE]]
=============================================================================
