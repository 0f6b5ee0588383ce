------------------------------ MODULE Registry ------------------------------
(***************************************************************************)
(* What the verification registry promises (spec.md, sections 3 and 8),   *)
(* without calls, origins, capability checks or deposit schemes: a claim   *)
(* holds at most one credential; a credential is created unrevoked, can    *)
(* be revoked once, can have its deposit replaced, and can be deleted; and *)
(* the funds locked for the registry on an account move exactly with the   *)
(* deposits of the credentials it owns.                                    *)
(*                                                                         *)
(* `escrow` is what the registry keeps locked on each account.  Its        *)
(* starting value is any natural number: an account may have funds locked  *)
(* before the first credential is created.                                 *)
(***************************************************************************)
EXTENDS Naturals

CONSTANTS Claims, CTypes, Attesters, Accounts, AuthIds, Rates, None, NoAuth

VARIABLES registry, escrow

rvars == <<registry, escrow>>

Deposit == [owner : Accounts, amount : Rates]

Credential == [ctype : CTypes, attester : Attesters,
               authId : AuthIds \cup {NoAuth}, revoked : BOOLEAN,
               deposit : Deposit]

\* Lock or unlock the funds of a deposit on its owner's account.
Lock(e, d) == [e EXCEPT ![d.owner] = @ + d.amount]
Unlock(e, d) == [e EXCEPT ![d.owner] = @ - d.amount]

\* The funds of a deposit are locked on its owner's account.
Covered(d) == d.amount <= escrow[d.owner]

Init ==
    /\ registry \in [Claims -> Credential \cup {None}]
    /\ escrow \in [Accounts -> Nat]

\* A credential is stored for a claim that has none, unrevoked, and its
\* deposit is locked.
Create(c) ==
    /\ registry[c] = None
    /\ \E r \in Credential :
          /\ ~r.revoked
          /\ registry' = [registry EXCEPT ![c] = r]
          /\ escrow' = Lock(escrow, r.deposit)

\* An unrevoked credential becomes revoked; nothing else changes.
Revoke(c) ==
    /\ registry[c] # None
    /\ ~registry[c].revoked
    /\ registry' = [registry EXCEPT ![c].revoked = TRUE]
    /\ UNCHANGED escrow

\* The deposit of a credential is replaced: the old one is unlocked and
\* the new one locked.
Redeposit(c) ==
    /\ registry[c] # None
    /\ Covered(registry[c].deposit)
    /\ \E d \in Deposit :
          /\ registry' = [registry EXCEPT ![c].deposit = d]
          /\ escrow' = Lock(Unlock(escrow, registry[c].deposit), d)

\* A credential is deleted and its deposit unlocked.
Delete(c) ==
    /\ registry[c] # None
    /\ Covered(registry[c].deposit)
    /\ registry' = [registry EXCEPT ![c] = None]
    /\ escrow' = Unlock(escrow, registry[c].deposit)

Next == \E c \in Claims : Create(c) \/ Revoke(c) \/ Redeposit(c) \/ Delete(c)

Spec == Init /\ [][Next]_rvars

=============================================================================
