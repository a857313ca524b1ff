---------------------------- MODULE Certificates ----------------------------
(***************************************************************************)
(* The certificates that the commands of "crosshub cert" make, and the     *)
(* chain of signatures that a hub demands of another (cert/, repo/,        *)
(* verifyCerts).                                                           *)
(*                                                                         *)
(* A certificate says whose key it certifies, whose key signed it, and     *)
(* whether that key may sign others.  Names and dates are left out.        *)
(***************************************************************************)
CONSTANT Keys  \* private keys, in the files of the command priv

GenerateCert(k, isCA) == [key |-> k, ca |-> isCA]
CreateCertificate(template, k) == [key |-> template.key, ca |-> template.ca, signer |-> k]

\* cert ca
CaCert(k) == CreateCertificate(GenerateCert(k, TRUE), k)

\* cert csr
Csr(k) == [key |-> k]

\* cert issue: --key signs; of --cert only the name is taken.  (A command built
\* with a library that compares the two makes fewer certificates than these.)
\* The signature of a request that csr made is good.
Issue(csr, k, isCA) == CreateCertificate([key |-> csr.key, ca |-> isCA], k)

Certs ==
  {CaCert(k) : k \in Keys}
    \cup {Issue(Csr(k), signer, isCA) : k, signer \in Keys, isCA \in BOOLEAN}

\* CheckSignatureFrom wants a CA, and its signature
CheckSignatureFrom(sub, ca) == ca.ca /\ sub.signer = ca.key
VerifySign(sub, ca) == CheckSignatureFrom(sub, ca)

\* loadCerts: what a hub finds in its directory certs
Folders == [node : Certs, agency : Certs, ca : Certs]

\* the hub with folder mine accepts what the other one sends
VerifyCerts(mine, other) ==
  /\ VerifySign(other.agency, mine.ca)
  /\ VerifySign(other.node, other.agency)

=============================================================================
