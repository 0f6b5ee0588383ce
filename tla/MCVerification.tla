--------------------------- MODULE MCVerification ---------------------------
(***************************************************************************)
(* A small instance of Verification for TLC.  The capability is a          *)
(* delegation hierarchy d1 -> d2: token t1 lets a1 act for node d1, token  *)
(* t2 lets a2 act for node d2.  A token holder may attest under its node   *)
(* and revoke or remove what was attested under its node or a descendant.  *)
(* Claim c2 exists at genesis as a legacy record attested by a2 under d2   *)
(* whose deposit is a reserve of u2.                                        *)
(***************************************************************************)
EXTENDS Verification, TLC

CONSTANTS a1, a2, u1, u2, d1, d2, t1, t2, c1, c2, k1, k2

MCClaims == {c1, c2}
MCCTypes == {k1, k2}
MCKnownCTypes == {k1}
MCAttesters == {a1, a2}
MCAccounts == {u1, u2}
MCAuthIds == {d1, d2}
MCTokens == {t1, t2}
MCRates == {1, 2}

MCAuthIdOf == (t1 :> d1) @@ (t2 :> d2)
Holder == (t1 :> a1) @@ (t2 :> a2)
\* The nodes at or above a node in the delegation hierarchy.
AncestorsOrSelf(d) == IF d = d2 THEN {d1, d2} ELSE {d}

MCCanAttest(who, tok, k, c) == who = Holder[tok]
MCCanRevoke(who, tok, k, c, stored) ==
    who = Holder[tok] /\ MCAuthIdOf[tok] \in AncestorsOrSelf(stored)
MCCanRemove(who, tok, k, c, stored) == MCCanRevoke(who, tok, k, c, stored)

MCGenesis ==
    c2 :> [ctype |-> k1, attester |-> a2, authId |-> d2, revoked |-> FALSE,
           deposit |-> [owner |-> u2, amount |-> 1]]

\* Every account is endowed with 3; u2's legacy deposit for c2 is reserved.
MCGenesisBalance ==
    (u1 :> [free |-> 3, held |-> 0, reserved |-> 0]) @@
    (u2 :> [free |-> 2, held |-> 0, reserved |-> 1])

=============================================================================
