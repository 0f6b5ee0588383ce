--------------------------- MODULE RefinementProofs --------------------------
(***************************************************************************)
(* Proof that the verification pallet implements the abstract registry of *)
(* Registry.tla under the mapping of Verification.tla (R): the records are *)
(* Verifications itself, and what is locked on an account is its hold plus *)
(* its legacy reserve.                                                     *)
(*                                                                         *)
(* Every call moves the locked funds by exactly the deposits it creates or *)
(* releases, except that release_reserved_deposit unreserves saturating at *)
(* what is reserved.  The step proof therefore rests on ReserveCovers (a   *)
(* legacy deposit is reserved in full), which EscrowProofs derives from    *)
(* escrow conservation.                                                    *)
(***************************************************************************)
EXTENDS EscrowProofs

USE ConstantsAssumption

\* The funds locked on each account, for a given balance function.
EscrowOf(bal) == [a \in Accounts |-> bal[a].held + bal[a].reserved]

\* The locked funds of a state are EscrowOf its balances, before and after
\* a step.
LEMMA EscrowedIsEscrowOf ==
    /\ Escrowed = EscrowOf(balance)
    /\ Escrowed' = EscrowOf(balance')
BY DEF Escrowed, EscrowOf

\* The records of the pallet are the credentials of the registry.
LEMMA RecordIsCredential ==
    /\ R!Credential = Record
    /\ R!Deposit = Deposit
BY DEF R!Credential, Record, R!Deposit, Deposit

\* create_deposit locks exactly the amount it holds.
LEMMA HoldEscrow ==
    ASSUME NEW bal \in Balances, NEW p \in Accounts, NEW n \in Nat,
           bal[p].free >= n
    PROVE  EscrowOf(Hold(bal, p, n)) =
              R!Lock(EscrowOf(bal), [owner |-> p, amount |-> n])
<1> DEFINE h == Hold(bal, p, n)
<1>1. h[p] = [free |-> bal[p].free - n, held |-> bal[p].held + n,
              reserved |-> bal[p].reserved]
    BY DEF Hold, Balances
<1>2. \A a \in Accounts \ {p} : h[a] = bal[a]
    BY DEF Hold, Balances
<1>3. bal[p].held + n + bal[p].reserved = (bal[p].held + bal[p].reserved) + n
    BY DEF Balances
<1>4. \A a \in Accounts :
         EscrowOf(h)[a] =
            R!Lock(EscrowOf(bal), [owner |-> p, amount |-> n])[a]
    BY <1>1, <1>2, <1>3 DEF EscrowOf, R!Lock
<1>5. QED
    BY <1>4 DEF EscrowOf, R!Lock

\* Releasing the deposit of a live record, when free_deposit does not fail,
\* unlocks exactly that deposit, and the deposit was locked: a hold covers
\* it because free_deposit checked it, a reserve because of ReserveCovers.
LEMMA ReleaseEscrow ==
    ASSUME TypeOK, ReserveCovers, NEW c \in Claims, Live(c),
           ~ReleaseFails(c, verifications[c].deposit)
    PROVE  LET d == verifications[c].deposit
           IN  /\ R!Covered(d)
               /\ EscrowOf(Release(balance, c, d)) = R!Unlock(Escrowed, d)
<1> DEFINE d == verifications[c].deposit
           b == balance[d.owner]
<1>1. /\ d \in Deposit
      /\ b \in [free : Nat, held : Nat, reserved : Nat]
      /\ d.amount \in Nat
    BY DEF Live, TypeOK, Record, Deposit, Balances
<1>2. CASE c \in migrated
    <2>1. b.held >= d.amount
        BY <1>1, <1>2 DEF ReleaseFails
    <2>2. QED
        BY <1>1, <1>2, <2>1
        DEF R!Covered, Escrowed, EscrowOf, Release, R!Unlock, TypeOK,
            Balances, Deposit
<1>3. CASE c \notin migrated
    <2>1. b.reserved >= d.amount
        BY <1>3 DEF ReserveCovers
    <2>2. b.reserved - SatSub(b.reserved, d.amount) = d.amount
        BY <1>1, <2>1 DEF SatSub
    <2>3. Release(balance, c, d)[d.owner]
            = [free |-> b.free + d.amount, held |-> b.held,
               reserved |-> b.reserved - d.amount]
        BY <1>1, <1>3, <2>2 DEF Release, TypeOK, Balances, Deposit
    <2>4. \A a \in Accounts \ {d.owner} : Release(balance, c, d)[a] = balance[a]
        BY <1>1 DEF Release, TypeOK, Balances, Deposit
    <2>5. R!Covered(d)
        BY <1>1, <2>1 DEF R!Covered, Escrowed, Deposit
    <2>6. \A a \in Accounts :
             EscrowOf(Release(balance, c, d))[a] = R!Unlock(Escrowed, d)[a]
        BY <1>1, <2>3, <2>4 DEF EscrowOf, R!Unlock, Escrowed, TypeOK, Balances,
                              Deposit
    <2>7. EscrowOf(Release(balance, c, d)) = R!Unlock(Escrowed, d)
        BY <2>6 DEF EscrowOf, R!Unlock, Escrowed
    <2>8. QED
        BY <2>5, <2>7
<1>4. QED
    BY <1>2, <1>3

\* The genesis state is a state of the registry.
LEMMA InitRefined == Init => R!Init
<1> SUFFICES ASSUME Init PROVE R!Init
    OBVIOUS
<1>1. verifications \in [Claims -> Record \cup {None}]
    BY DEF Init
<1>2. Escrowed \in [Accounts -> Nat]
    BY DEF Init, Escrowed, Balances
<1>3. QED
    BY <1>1, <1>2, RecordIsCredential DEF R!Init

\* Deleting a live record whose deposit release does not fail is the
\* registry's Delete: remove and reclaim_deposit share it.
LEMMA RemoveRefined ==
    ASSUME TypeOK, ReserveCovers, NEW c \in Claims, Live(c),
           ~ReleaseFails(c, verifications[c].deposit),
           RemoveVerification(verifications[c], c)
    PROVE  R!Delete(c)
<1> DEFINE d == verifications[c].deposit
<1>1. /\ R!Covered(d)
      /\ EscrowOf(Release(balance, c, d)) = R!Unlock(Escrowed, d)
    BY ReleaseEscrow
<1>2. /\ balance' = Release(balance, c, d)
      /\ verifications' = [verifications EXCEPT ![c] = None]
    BY DEF RemoveVerification
<1>3. Escrowed' = R!Unlock(Escrowed, d)
    BY <1>1, <1>2, EscrowedIsEscrowOf
<1>4. QED
    BY <1>1, <1>2, <1>3 DEF R!Delete, Live

\* Replacing the deposit of a live record by one of `amount` held from
\* `owner` (change_deposit_owner, update_deposit) is the registry's
\* Redeposit.
LEMMA ReplaceDepositRefined ==
    ASSUME TypeOK, ReserveCovers, NEW c \in Claims, NEW owner \in Accounts,
           NEW amount \in Rates, Live(c),
           ReplaceDepositError(c, owner, amount) = "Ok",
           ReplaceDeposit(c, owner, amount)
    PROVE  R!Redeposit(c)
<1> DEFINE d == verifications[c].deposit
           nd == [owner |-> owner, amount |-> amount]
           rel == Release(balance, c, d)
<1>1. ~ReleaseFails(c, d)
    BY DEF ReplaceDepositError
<1>2. /\ R!Covered(d)
      /\ EscrowOf(rel) = R!Unlock(Escrowed, d)
    BY <1>1, ReleaseEscrow
<1>3. rel \in Balances
    BY <1>1, ReleaseType DEF Live, TypeOK, Record
<1>4. rel[owner].free >= amount
    BY <1>1, <1>3 DEF ReplaceDepositError, Balances
<1>5. EscrowOf(Hold(rel, owner, amount)) = R!Lock(EscrowOf(rel), nd)
    BY <1>3, <1>4, HoldEscrow
<1>6. Escrowed' = R!Lock(R!Unlock(Escrowed, d), nd)
    BY <1>2, <1>5, EscrowedIsEscrowOf DEF ReplaceDeposit
<1>7. nd \in R!Deposit
    BY RecordIsCredential DEF Deposit
<1>8. verifications' = [verifications EXCEPT ![c].deposit = nd]
    BY DEF ReplaceDeposit
<1>9. QED
    BY <1>2, <1>6, <1>7, <1>8 DEF R!Redeposit, Live

\* Every step of the pallet is a step of the registry or leaves the
\* records and the locked funds as they are.
LEMMA NextRefined ==
    TypeOK /\ ReserveCovers /\ [Next]_vars => [R!Next]_R!rvars
<1> SUFFICES ASSUME TypeOK, ReserveCovers, [Next]_vars
             PROVE  [R!Next]_R!rvars
    OBVIOUS
<1> DEFINE Stutter == UNCHANGED R!rvars
<1>1. UNCHANGED <<verifications, balance>> => Stutter
    BY EscrowedIsEscrowOf DEF R!rvars
<1>2. ASSUME NEW op, NEW by, NEW c, NEW err, Fail(op, by, c, err)
      PROVE  Stutter
    BY <1>1, <1>2 DEF Fail
<1>3. ASSUME NEW sender \in Accounts, NEW who \in Attesters,
             NEW c \in Claims, NEW k \in CTypes,
             NEW tok \in Tokens \cup {NoToken}, Add(sender, who, c, k, tok)
      PROVE  [R!Next]_R!rvars
    <2>1. CASE AddError(sender, who, c, k, tok) # "Ok"
        BY <1>2, <1>3, <2>1 DEF Add
    <2>2. CASE AddError(sender, who, c, k, tok) = "Ok"
        <3> DEFINE authId == IF tok = NoToken THEN NoAuth ELSE AuthIdOf[tok]
                   nd == [owner |-> sender, amount |-> rate]
                   r == [ctype |-> k, attester |-> who, authId |-> authId,
                         revoked |-> FALSE, deposit |-> nd]
        <3>1. ~Live(c) /\ balance[sender].free >= rate
            BY <2>2 DEF AddError, TypeOK, Balances
        <3>2. /\ balance' = Hold(balance, sender, rate)
              /\ verifications' = [verifications EXCEPT ![c] = r]
            BY <1>3, <2>2 DEF Add, Fail
        <3>3. r \in R!Credential /\ ~r.revoked
            BY RecordIsCredential DEF Record, Deposit, TypeOK
        <3>4. EscrowOf(Hold(balance, sender, rate)) = R!Lock(EscrowOf(balance), nd)
            BY <3>1, HoldEscrow DEF TypeOK
        <3>5. Escrowed' = R!Lock(Escrowed, r.deposit)
            BY <3>2, <3>4, EscrowedIsEscrowOf
        <3>6. R!Create(c)
            BY <3>1, <3>2, <3>3, <3>5 DEF R!Create, Live
        <3>7. QED
            BY <3>6 DEF R!Next
    <2>3. QED
        BY <2>1, <2>2
<1>4. ASSUME NEW who \in Attesters, NEW c \in Claims,
             NEW tok \in Tokens \cup {NoToken}, Revoke(who, c, tok)
      PROVE  [R!Next]_R!rvars
    <2>1. CASE RevokeError(who, c, tok) # "Ok"
        BY <1>2, <1>4, <2>1 DEF Revoke
    <2>2. CASE RevokeError(who, c, tok) = "Ok"
        <3>1. Live(c) /\ ~verifications[c].revoked
            BY <2>2 DEF RevokeError
        <3>2. /\ verifications' = [verifications EXCEPT ![c].revoked = TRUE]
              /\ UNCHANGED balance
            BY <1>4, <2>2 DEF Revoke, Fail
        <3>3. R!Revoke(c)
            BY <3>1, <3>2, EscrowedIsEscrowOf DEF R!Revoke, Live
        <3>4. QED
            BY <3>3 DEF R!Next
    <2>3. QED
        BY <2>1, <2>2
<1>5. ASSUME NEW who \in Attesters, NEW c \in Claims,
             NEW tok \in Tokens \cup {NoToken}, Remove(who, c, tok)
      PROVE  [R!Next]_R!rvars
    <2>1. CASE RemoveError(who, c, tok) # "Ok"
        BY <1>2, <1>5, <2>1 DEF Remove
    <2>2. CASE RemoveError(who, c, tok) = "Ok"
        <3>1. Live(c) /\ ~ReleaseFails(c, verifications[c].deposit)
            BY <2>2 DEF RemoveError
        <3>2. RemoveVerification(verifications[c], c)
            BY <1>5, <2>2 DEF Remove, Fail
        <3>3. QED
            BY <3>1, <3>2, RemoveRefined DEF R!Next
    <2>3. QED
        BY <2>1, <2>2
<1>6. ASSUME NEW sender \in Accounts, NEW c \in Claims,
             ReclaimDeposit(sender, c)
      PROVE  [R!Next]_R!rvars
    <2>1. CASE ReclaimError(sender, c) # "Ok"
        BY <1>2, <1>6, <2>1 DEF ReclaimDeposit
    <2>2. CASE ReclaimError(sender, c) = "Ok"
        <3>1. Live(c) /\ ~ReleaseFails(c, verifications[c].deposit)
            BY <2>2 DEF ReclaimError
        <3>2. RemoveVerification(verifications[c], c)
            BY <1>6, <2>2 DEF ReclaimDeposit, Fail
        <3>3. QED
            BY <3>1, <3>2, RemoveRefined DEF R!Next
    <2>3. QED
        BY <2>1, <2>2
<1>7. ASSUME NEW sender \in Accounts, NEW subject \in Attesters,
             NEW c \in Claims, ChangeDepositOwner(sender, subject, c)
      PROVE  [R!Next]_R!rvars
    <2>1. CASE ChangeDepositOwnerError(sender, subject, c) # "Ok"
        BY <1>2, <1>7, <2>1 DEF ChangeDepositOwner
    <2>2. CASE ChangeDepositOwnerError(sender, subject, c) = "Ok"
        <3> DEFINE amount == verifications[c].deposit.amount
        <3>1. /\ Live(c)
              /\ amount \in Rates
              /\ ReplaceDepositError(c, sender, amount) = "Ok"
            BY <2>2 DEF ChangeDepositOwnerError, Live, TypeOK, Record, Deposit
        <3>2. ReplaceDeposit(c, sender, amount)
            BY <1>7, <2>2 DEF ChangeDepositOwner, Fail
        <3>3. QED
            BY <3>1, <3>2, ReplaceDepositRefined DEF R!Next
    <2>3. QED
        BY <2>1, <2>2
<1>8. ASSUME NEW sender \in Accounts, NEW c \in Claims,
             UpdateDeposit(sender, c)
      PROVE  [R!Next]_R!rvars
    <2>1. CASE UpdateDepositError(sender, c) # "Ok"
        BY <1>2, <1>8, <2>1 DEF UpdateDeposit
    <2>2. CASE UpdateDepositError(sender, c) = "Ok"
        <3>1. /\ Live(c)
              /\ rate \in Rates
              /\ ReplaceDepositError(c, sender, rate) = "Ok"
            BY <2>2 DEF UpdateDepositError, TypeOK
        <3>2. ReplaceDeposit(c, sender, rate)
            BY <1>8, <2>2 DEF UpdateDeposit, Fail
        <3>3. QED
            BY <3>1, <3>2, ReplaceDepositRefined DEF R!Next
    <2>3. QED
        BY <2>1, <2>2
<1>9. ASSUME NEW c \in Claims, Migrate(c)
      PROVE  Stutter
    <2> DEFINE d == verifications[c].deposit
    <2>1. /\ d \in Deposit
          /\ balance[d.owner] \in [free : Nat, held : Nat, reserved : Nat]
        BY <1>9 DEF Migrate, Live, TypeOK, Record, Deposit, Balances
    <2>2. /\ balance[d.owner].reserved >= d.amount
          /\ balance' = [balance EXCEPT ![d.owner] =
                          [free |-> @.free, held |-> @.held + d.amount,
                           reserved |-> @.reserved - d.amount]]
        BY <1>9 DEF Migrate
    <2>3. d.owner \in Accounts /\ d.amount \in Nat
        BY <2>1 DEF Deposit
    <2>4. balance'[d.owner] =
             [free |-> balance[d.owner].free,
              held |-> balance[d.owner].held + d.amount,
              reserved |-> balance[d.owner].reserved - d.amount]
        BY <2>2, <2>3 DEF TypeOK, Balances
    <2>5. balance'[d.owner].held + balance'[d.owner].reserved
             = balance[d.owner].held + balance[d.owner].reserved
        BY <2>1, <2>2, <2>3, <2>4
    <2>6. \A a \in Accounts \ {d.owner} : balance'[a] = balance[a]
        BY <2>2 DEF TypeOK, Balances
    <2>7. \A a \in Accounts : EscrowOf(balance')[a] = EscrowOf(balance)[a]
        BY <2>5, <2>6 DEF EscrowOf
    <2>8. EscrowOf(balance') = EscrowOf(balance)
        BY <2>7 DEF EscrowOf
    <2>9. QED
        BY <1>9, <2>8, EscrowedIsEscrowOf DEF Migrate, R!rvars
<1>10. ASSUME NEW r \in Rates, RuntimeUpgrade(r)
       PROVE  Stutter
    BY <1>1, <1>10 DEF RuntimeUpgrade
<1>11. CASE UNCHANGED vars
    BY <1>1, <1>11 DEF vars
<1>12. QED
    BY <1>2, <1>3, <1>4, <1>5, <1>6, <1>7, <1>8, <1>9, <1>10, <1>11 DEF Next


\* In every behaviour in which legacy deposits stay reserved in full, the
\* pallet's steps are steps of the abstract registry.
LEMMA RefinementUnderCover == Spec /\ []ReserveCovers => RegistryRefined
<1>1. Init => R!Init
    BY InitRefined
<1>2. TypeOK /\ ReserveCovers /\ [Next]_vars => [R!Next]_R!rvars
    BY NextRefined
<1>3. QED
    BY <1>1, <1>2, TypeCorrect, PTL DEF Spec, RegistryRefined, R!Spec

\* The pallet implements the abstract registry: from a genesis whose
\* balances hold and reserve exactly the deposits of its records, add,
\* revoke, the deposit calls and the removals are the registry's Create,
\* Revoke, Redeposit and Delete, each moving the locked funds by exactly its
\* deposits, and a failed call, a migration of a legacy key or a runtime
\* upgrade changes neither credentials nor locked funds.
THEOREM RefinementCorrect == Spec /\ EscrowConservation => RegistryRefined
BY RefinementUnderCover, ReserveCorrect

====
