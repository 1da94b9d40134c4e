---------------------------- MODULE MCDigestSend ----------------------------
(* TLC instances of DigestSend: runners and campaigns are interchangeable.  *)
EXTENDS DigestSendDay, DigestSendInv, TLC

Symmetry == Permutations(Runners) \cup Permutations(Campaigns)
=============================================================================
