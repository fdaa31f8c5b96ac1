---------------------------- MODULE MCConnecting ----------------------------
(* Connecting with two hosts, a file of every kind of line, and one jump out of *)
(* the review of the wizard.                                                     *)
EXTENDS Connecting, TLC

\* No handshake, and no attempt to connect, differs from another but by its name.
Symmetry == Permutations(Verifiers) \cup Permutations(Attempts)

TwoHosts == {"h1", "h2"}
Line(file, marker, covers, vetoes, type, value) ==
  [file |-> file, marker |-> marker, covers |-> covers, vetoes |-> vetoes,
   key |-> [type |-> type, value |-> value]]

\* One line of every kind the parser tells apart: a negated pattern, a certificate
\* authority, a revoked key, and a key the extension has stored itself.
OneStore ==
  {{Line("ssh", "none", TwoHosts, {"h2"}, "rsa", 1), Line("ssh", "cert-authority", {"h1"}, {}, "rsa", 2),
    Line("managed", "revoked", TwoHosts, {}, "rsa", 3), Line("managed", "none", {"h2"}, {}, "rsa", 3)}}
FourKeys == [type : {"rsa"}, value : 1..3] \cup [type : {"cert"}, value : {1}]
RsaKey == [type |-> "rsa", value |-> 1]
RsaOffers == {[h \in TwoHosts |-> RsaKey]}
FourCalls == 1..4
Either == BOOLEAN
=============================================================================
