------------------------------ MODULE MCEngine ------------------------------
(* Instances of Engine for TLC. *)
EXTENDS Engine
CONSTANTS f1, stripe

OneFlow   == {f1}
OneStripe == [f \in Flow |-> stripe]

K(c, f, h) == [class |-> c, flow |-> f, host |-> h]

\* Every branch of worker_loop on one flow.
AllBranches == {K("raw", f1, "none"), K("rst", f1, "none"), K("pass", f1, "none"),
                K("data", f1, "none"), K("tls", f1, "listed"),
                K("http", f1, "unlisted")}
\* Handshakes of one flow.
Handshakes == {K("tls", f1, "listed")}
\* Payload the flow table takes no interest in.
PlainData == {K("data", f1, "none")}
=============================================================================
