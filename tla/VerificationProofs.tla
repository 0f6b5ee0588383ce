------------------------- MODULE VerificationProofs -------------------------
(***************************************************************************)
(* Proofs about the verification pallet model, for every value of the      *)
(* constants that satisfies ConstantsAssumption.                           *)
(***************************************************************************)
EXTENDS Verification, TLAPS

USE ConstantsAssumption

-----------------------------------------------------------------------------
(* Lemmas about the deposit helpers.                                       *)

\* create_deposit keeps the balances well typed when the payer's free
\* balance covers the amount.
LEMMA HoldType ==
    ASSUME NEW bal \in Balances, NEW a \in Accounts, NEW n \in Nat,
           bal[a].free >= n
    PROVE  Hold(bal, a, n) \in Balances
BY DEF Hold, Balances

\* Releasing a deposit keeps the balances well typed unless free_deposit
\* fails.
LEMMA ReleaseType ==
    ASSUME balance \in Balances, migrated \subseteq Claims,
           NEW c \in Claims, NEW d \in Deposit, ~ReleaseFails(c, d)
    PROVE  Release(balance, c, d) \in Balances
<1> DEFINE b == balance[d.owner]
<1>1. b \in [free : Nat, held : Nat, reserved : Nat] /\ d.amount \in Nat
    <2>1. d.owner \in Accounts /\ d.amount \in Nat
        BY DEF Deposit
    <2>2. QED
        BY <2>1 DEF Balances
<1>2. CASE c \in migrated
    <2>1. b.held >= d.amount
        BY <1>1, <1>2 DEF ReleaseFails
    <2>2. [free |-> b.free + d.amount, held |-> b.held - d.amount,
           reserved |-> b.reserved] \in [free : Nat, held : Nat, reserved : Nat]
        BY <1>1, <2>1
    <2>3. QED
        BY <1>2, <2>2 DEF Release, Balances, Deposit
<1>3. CASE c \notin migrated
    <2> DEFINE unreserved == b.reserved - SatSub(b.reserved, d.amount)
    <2>1. unreserved \in 0 .. b.reserved
        BY <1>1 DEF SatSub
    <2>2. [free |-> b.free + unreserved, held |-> b.held,
           reserved |-> b.reserved - unreserved]
             \in [free : Nat, held : Nat, reserved : Nat]
        BY <1>1, <2>1
    <2>3. QED
        BY <1>3, <2>2 DEF Release, Balances, Deposit
<1>4. QED
    BY <1>2, <1>3

\* The outcome a call records is well typed.
LEMMA CalledType ==
    ASSUME NEW op \in Ops, NEW by \in Attesters \cup Accounts \cup {None},
           NEW c \in Claims \cup {None}, NEW res \in Results,
           Called(op, by, c, res)
    PROVE  (lastCall \in [op : Ops, by : Attesters \cup Accounts \cup {None},
                          claim : Claims \cup {None}, result : Results])'
BY DEF Called

\* Every call returns "Ok" or one of the errors of the pallet.
LEMMA ErrorsType ==
    ASSUME NEW sender, NEW who, NEW c, NEW k, NEW tok
    PROVE  /\ AddError(sender, who, c, k, tok) \in Results
           /\ RevokeError(who, c, tok) \in Results
           /\ RemoveError(who, c, tok) \in Results
           /\ ReclaimError(sender, c) \in Results
           /\ ChangeDepositOwnerError(sender, who, c) \in Results
           /\ UpdateDepositError(sender, c) \in Results
BY DEF AddError, RevokeError, RemoveError, ReclaimError,
       ChangeDepositOwnerError, UpdateDepositError, ReplaceDepositError, Results

\* A call that succeeded passed the checks remove_verification relies on:
\* the record is stored and its deposit can be released.
LEMMA RemoveOk ==
    ASSUME TypeOK, NEW who, NEW c \in Claims, NEW tok,
           \/ RemoveError(who, c, tok) = "Ok"
           \/ ReclaimError(who, c) = "Ok"
    PROVE  /\ verifications[c] \in Record
           /\ ~ReleaseFails(c, verifications[c].deposit)
<1>1. Live(c)
    BY DEF RemoveError, ReclaimError
<1>2. verifications[c] \in Record
    BY <1>1 DEF Live, TypeOK
<1>3. ~ReleaseFails(c, verifications[c].deposit)
    BY <1>1 DEF RemoveError, ReclaimError
<1>4. QED
    BY <1>2, <1>3

\* Replacing the deposit of a stored record by one of `amount` held from
\* `owner`, when ReplaceDepositError allows it, keeps the state well typed.
LEMMA ReplaceDepositType ==
    ASSUME TypeOK, NEW c \in Claims, NEW owner \in Accounts,
           NEW amount \in Rates, Live(c),
           ReplaceDepositError(c, owner, amount) = "Ok",
           ReplaceDeposit(c, owner, amount)
    PROVE  /\ (balance \in Balances)'
           /\ (migrated \subseteq Claims)'
           /\ (verifications \in [Claims -> Record \cup {None}])'
<1> DEFINE v == verifications[c]
           rel == Release(balance, c, v.deposit)
<1>1. v \in Record
    BY DEF Live, TypeOK
<1>2. ~ReleaseFails(c, v.deposit)
    BY DEF ReplaceDepositError
<1>3. rel \in Balances
    BY <1>1, <1>2, ReleaseType DEF Record, TypeOK
<1>4. rel[owner].free >= amount
    BY <1>2, <1>3 DEF ReplaceDepositError, Balances
<1>5. Hold(rel, owner, amount) \in Balances
    BY <1>3, <1>4, HoldType
<1>6. [v EXCEPT !.deposit = [owner |-> owner, amount |-> amount]] \in Record
    BY <1>1 DEF Record, Deposit
<1>7. QED
    BY <1>5, <1>6 DEF ReplaceDeposit, TypeOK

-----------------------------------------------------------------------------
(* Type correctness.                                                       *)

\* Every reachable state is well typed: in particular no call overdraws a
\* free balance, a hold or a reserve (create_deposit is guarded by the
\* free balance, free_deposit by the hold, unreserve saturates), and every
\* stored record is a VerificationDetails with a positive deposit.
THEOREM TypeCorrect == Spec => []TypeOK
<1>1. Init => TypeOK
    BY DEF Init, TypeOK, Record, Ops, Results
<1>2. TypeOK /\ [Next]_vars => TypeOK'
    <2> SUFFICES ASSUME TypeOK, [Next]_vars PROVE TypeOK'
        OBVIOUS
    <2>1. ASSUME NEW op \in Ops, NEW by \in Attesters \cup Accounts,
                 NEW c \in Claims, NEW err \in Results, Fail(op, by, c, err)
          PROVE  TypeOK'
        BY <2>1, CalledType DEF Fail, TypeOK
    <2>2. ASSUME NEW sender \in Accounts, NEW who \in Attesters,
                 NEW c \in Claims, NEW k \in CTypes,
                 NEW tok \in Tokens \cup {NoToken}, Add(sender, who, c, k, tok)
          PROVE  TypeOK'
        <3> DEFINE err == AddError(sender, who, c, k, tok)
                   authId == IF tok = NoToken THEN NoAuth ELSE AuthIdOf[tok]
        <3>1. CASE err # "Ok"
            BY <2>1, <2>2, <3>1, ErrorsType DEF Add, Ops
        <3>2. CASE err = "Ok"
            <4>1. /\ balance' = Hold(balance, sender, rate)
                  /\ migrated' = migrated \cup {c}
                  /\ verifications' = [verifications EXCEPT ![c] =
                        [ctype |-> k, attester |-> who, authId |-> authId,
                         revoked |-> FALSE,
                         deposit |-> [owner |-> sender, amount |-> rate]]]
                  /\ external' \subseteq external \cup {<<authId, c>>}
                  /\ (authId = NoAuth => external' = external)
                  /\ Called("add", who, c, "Ok")
                  /\ rate' = rate
                BY <2>2, <3>2 DEF Add, Fail
            <4>2. balance[sender].free >= rate
                BY <3>2 DEF AddError, TypeOK, Balances
            <4>3. (balance \in Balances)'
                BY <4>1, <4>2, HoldType DEF TypeOK
            <4>4. authId \in AuthIds \cup {NoAuth}
                OBVIOUS
            <4>5. (verifications \in [Claims -> Record \cup {None}])'
                BY <4>1, <4>4 DEF TypeOK, Record, Deposit
            <4>6. (external \subseteq AuthIds \X Claims)'
                BY <4>1, <4>4 DEF TypeOK
            <4>7. (lastCall \in [op : Ops, by : Attesters \cup Accounts \cup {None},
                                 claim : Claims \cup {None}, result : Results])'
                BY <4>1, CalledType DEF Ops, Results
            <4>8. QED
                BY <4>1, <4>3, <4>5, <4>6, <4>7 DEF TypeOK
        <3>3. QED
            BY <3>1, <3>2
    <2>3. ASSUME NEW who \in Attesters, NEW c \in Claims,
                 NEW tok \in Tokens \cup {NoToken}, Revoke(who, c, tok)
          PROVE  TypeOK'
        <3>1. CASE RevokeError(who, c, tok) # "Ok"
            BY <2>1, <2>3, <3>1, ErrorsType DEF Revoke, Ops
        <3>2. CASE RevokeError(who, c, tok) = "Ok"
            <4>1. verifications[c] \in Record
                BY <3>2 DEF RevokeError, Live, TypeOK
            <4>2. [verifications[c] EXCEPT !.revoked = TRUE] \in Record
                BY <4>1 DEF Record
            <4>3. (verifications \in [Claims -> Record \cup {None}])'
                BY <2>3, <3>2, <4>2 DEF Revoke, Fail, TypeOK
            <4>4. QED
                BY <2>3, <3>2, <4>3, CalledType DEF Revoke, Fail, TypeOK, Ops, Results
        <3>3. QED
            BY <3>1, <3>2
    <2>4. ASSUME NEW who \in Attesters, NEW c \in Claims,
                 NEW tok \in Tokens \cup {NoToken}, Remove(who, c, tok)
          PROVE  TypeOK'
        <3>1. CASE RemoveError(who, c, tok) # "Ok"
            BY <2>1, <2>4, <3>1, ErrorsType DEF Remove, Ops
        <3>2. CASE RemoveError(who, c, tok) = "Ok"
            <4>1. /\ verifications[c] \in Record
                  /\ ~ReleaseFails(c, verifications[c].deposit)
                BY <3>2, RemoveOk
            <4>2. (balance \in Balances)'
                BY <2>4, <3>2, <4>1, ReleaseType
                DEF Remove, Fail, RemoveVerification, TypeOK, Record
            <4>3. QED
                BY <2>4, <3>2, <4>2, CalledType
                DEF Remove, Fail, RemoveVerification, TypeOK, Ops, Results
        <3>3. QED
            BY <3>1, <3>2
    <2>5. ASSUME NEW sender \in Accounts, NEW c \in Claims,
                 ReclaimDeposit(sender, c)
          PROVE  TypeOK'
        <3>1. CASE ReclaimError(sender, c) # "Ok"
            BY <2>1, <2>5, <3>1, ErrorsType DEF ReclaimDeposit, Ops
        <3>2. CASE ReclaimError(sender, c) = "Ok"
            <4>1. /\ verifications[c] \in Record
                  /\ ~ReleaseFails(c, verifications[c].deposit)
                BY <3>2, RemoveOk
            <4>2. (balance \in Balances)'
                BY <2>5, <3>2, <4>1, ReleaseType
                DEF ReclaimDeposit, Fail, RemoveVerification, TypeOK, Record
            <4>3. QED
                BY <2>5, <3>2, <4>2, CalledType
                DEF ReclaimDeposit, Fail, RemoveVerification, TypeOK, Ops, Results
        <3>3. QED
            BY <3>1, <3>2
    <2>6. ASSUME NEW sender \in Accounts, NEW subject \in Attesters,
                 NEW c \in Claims, ChangeDepositOwner(sender, subject, c)
          PROVE  TypeOK'
        <3>1. CASE ChangeDepositOwnerError(sender, subject, c) # "Ok"
            BY <2>1, <2>6, <3>1, ErrorsType DEF ChangeDepositOwner, Ops
        <3>2. CASE ChangeDepositOwnerError(sender, subject, c) = "Ok"
            <4>1. /\ Live(c)
                  /\ verifications[c].deposit.amount \in Rates
                  /\ ReplaceDepositError(c, sender,
                                         verifications[c].deposit.amount) = "Ok"
                BY <3>2 DEF ChangeDepositOwnerError, Live, TypeOK, Record, Deposit
            <4>2. QED
                BY <2>6, <3>2, <4>1, ReplaceDepositType, CalledType
                DEF ChangeDepositOwner, Fail, TypeOK, Ops, Results
        <3>3. QED
            BY <3>1, <3>2
    <2>7. ASSUME NEW sender \in Accounts, NEW c \in Claims,
                 UpdateDeposit(sender, c)
          PROVE  TypeOK'
        <3>1. CASE UpdateDepositError(sender, c) # "Ok"
            BY <2>1, <2>7, <3>1, ErrorsType DEF UpdateDeposit, Ops
        <3>2. CASE UpdateDepositError(sender, c) = "Ok"
            <4>1. Live(c) /\ ReplaceDepositError(c, sender, rate) = "Ok"
                BY <3>2 DEF UpdateDepositError
            <4>2. QED
                BY <2>7, <3>2, <4>1, ReplaceDepositType, CalledType
                DEF UpdateDeposit, Fail, TypeOK, Ops, Results
        <3>3. QED
            BY <3>1, <3>2
    <2>8. ASSUME NEW c \in Claims, Migrate(c)
          PROVE  TypeOK'
        <3>1. verifications[c] \in Record
            BY <2>8 DEF Migrate, Live, TypeOK
        <3>2. (balance \in Balances)'
            BY <2>8, <3>1 DEF Migrate, TypeOK, Balances, Record, Deposit
        <3>3. QED
            BY <2>8, <3>2, CalledType DEF Migrate, TypeOK, Ops, Results
    <2>9. ASSUME NEW r \in Rates, RuntimeUpgrade(r)
          PROVE  TypeOK'
        BY <2>9, CalledType DEF RuntimeUpgrade, TypeOK, Ops, Results
    <2>10. CASE UNCHANGED vars
        BY <2>10 DEF vars, TypeOK
    <2>11. QED
        BY <2>2, <2>3, <2>4, <2>5, <2>6, <2>7, <2>8, <2>9, <2>10 DEF Next
<1>3. QED
    BY <1>1, <1>2, PTL DEF Spec

-----------------------------------------------------------------------------
(* The secondary index.                                                    *)

\* No call changes the authorization id or the liveness of a record other
\* than the one it names, and no call but add and remove_verification
\* touches the index: the steps below only have to look at claim c.
LEMMA IndexStep ==
    ASSUME TypeOK, IndexConsistent, NEW c \in Claims,
           \A x \in Claims \ {c} : verifications'[x] = verifications[x],
           verifications' \in [Claims -> Record \cup {None}],
           \A d \in AuthIds :
               <<d, c>> \in external' <=>
                   verifications'[c] # None /\ verifications'[c].authId = d,
           \A d \in AuthIds, x \in Claims \ {c} :
               <<d, x>> \in external' <=> <<d, x>> \in external
    PROVE  IndexConsistent'
BY DEF IndexConsistent, Live, TypeOK

\* The secondary index ExternalVerifications always lists exactly the live
\* records created with an authorization id, under that id (add inserts,
\* remove_verification deletes, nothing else writes it).
THEOREM IndexCorrect == Spec => []IndexConsistent
<1> DEFINE Inv == TypeOK /\ IndexConsistent
<1>1. Init => IndexConsistent
    BY DEF Init, IndexConsistent, Live, Record
<1>2. Inv /\ [Next]_vars => IndexConsistent'
    <2> SUFFICES ASSUME TypeOK, IndexConsistent, [Next]_vars
                 PROVE  IndexConsistent'
        OBVIOUS
    <2>1. ASSUME NEW op, NEW by, NEW c, NEW err, Fail(op, by, c, err)
          PROVE  IndexConsistent'
        BY <2>1 DEF Fail, IndexConsistent, Live
    <2>2. ASSUME NEW sender \in Accounts, NEW who \in Attesters,
                 NEW c \in Claims, NEW k \in CTypes,
                 NEW tok \in Tokens \cup {NoToken}, Add(sender, who, c, k, tok)
          PROVE  IndexConsistent'
        <3> DEFINE authId == IF tok = NoToken THEN NoAuth ELSE AuthIdOf[tok]
        <3>1. CASE AddError(sender, who, c, k, tok) # "Ok"
            BY <2>1, <2>2, <3>1 DEF Add
        <3>2. CASE AddError(sender, who, c, k, tok) = "Ok"
            <4>1. /\ ~Live(c)
                  /\ verifications' = [verifications EXCEPT ![c] =
                        [ctype |-> k, attester |-> who, authId |-> authId,
                         revoked |-> FALSE,
                         deposit |-> [owner |-> sender, amount |-> rate]]]
                  /\ external' = IF authId = NoAuth THEN external
                                 ELSE external \cup {<<authId, c>>}
                BY <2>2, <3>2 DEF Add, Fail, AddError
            <4>2. \A d \in AuthIds : <<d, c>> \notin external
                BY <4>1 DEF IndexConsistent
            <4>3. authId \in AuthIds \cup {NoAuth}
                OBVIOUS
            <4>4. QED
                BY <4>1, <4>2, <4>3, IndexStep DEF TypeOK, Record, Deposit
        <3>3. QED
            BY <3>1, <3>2
    <2>3. ASSUME NEW who \in Attesters, NEW c \in Claims,
                 NEW tok \in Tokens \cup {NoToken}, Revoke(who, c, tok)
          PROVE  IndexConsistent'
        <3>1. CASE RevokeError(who, c, tok) # "Ok"
            BY <2>1, <2>3, <3>1 DEF Revoke
        <3>2. CASE RevokeError(who, c, tok) = "Ok"
            <4>1. /\ Live(c)
                  /\ verifications' = [verifications EXCEPT ![c].revoked = TRUE]
                  /\ external' = external
                BY <2>3, <3>2 DEF Revoke, Fail, RevokeError
            <4>2. verifications[c] \in Record
                BY <4>1 DEF Live, TypeOK
            <4>3. [verifications[c] EXCEPT !.revoked = TRUE] \in Record
                BY <4>2 DEF Record
            <4>4. verifications'[c] = [verifications[c] EXCEPT !.revoked = TRUE]
                BY <4>1 DEF TypeOK
            <4>7. verifications'[c] # None
                BY <4>3, <4>4
            <4>8. verifications'[c].authId = verifications[c].authId
                BY <4>2, <4>4 DEF Record
            <4>5. verifications' \in [Claims -> Record \cup {None}]
                BY <4>1, <4>3 DEF TypeOK
            <4>9. \A x \in Claims \ {c} : verifications'[x] = verifications[x]
                BY <4>1 DEF TypeOK
            <4>10. \A d \in AuthIds :
                      <<d, c>> \in external' <=>
                          verifications'[c] # None /\ verifications'[c].authId = d
                BY <4>1, <4>7, <4>8 DEF IndexConsistent, Live
            <4>11. \A d \in AuthIds, x \in Claims \ {c} :
                      <<d, x>> \in external' <=> <<d, x>> \in external
                BY <4>1
            <4>6. QED
                BY <4>5, <4>9, <4>10, <4>11, IndexStep
        <3>3. QED
            BY <3>1, <3>2
    <2>4. ASSUME NEW c \in Claims, NEW v \in Record, v = verifications[c],
                 RemoveVerification(v, c)
          PROVE  IndexConsistent'
        <3>1. /\ verifications' = [verifications EXCEPT ![c] = None]
              /\ external' = external \ {<<v.authId, c>>}
            BY <2>4 DEF RemoveVerification
        <3>2. \A d \in AuthIds : <<d, c>> \notin external'
            BY <2>4, <3>1 DEF IndexConsistent, Live
        <3>3. \A d \in AuthIds, x \in Claims \ {c} :
                 <<d, x>> \in external' <=> <<d, x>> \in external
            BY <3>1
        <3>4. verifications' \in [Claims -> Record \cup {None}]
            BY <3>1 DEF TypeOK
        <3>5. QED
            BY <3>1, <3>2, <3>3, <3>4, IndexStep
    <2>5. ASSUME NEW who \in Attesters, NEW c \in Claims,
                 NEW tok \in Tokens \cup {NoToken}, Remove(who, c, tok)
          PROVE  IndexConsistent'
        <3>1. CASE RemoveError(who, c, tok) # "Ok"
            BY <2>1, <2>5, <3>1 DEF Remove
        <3>2. CASE RemoveError(who, c, tok) = "Ok"
            <4>1. verifications[c] \in Record
                BY <3>2, RemoveOk
            <4>2. QED
                BY <2>4, <2>5, <3>2, <4>1 DEF Remove, Fail
        <3>3. QED
            BY <3>1, <3>2
    <2>6. ASSUME NEW sender \in Accounts, NEW c \in Claims,
                 ReclaimDeposit(sender, c)
          PROVE  IndexConsistent'
        <3>1. CASE ReclaimError(sender, c) # "Ok"
            BY <2>1, <2>6, <3>1 DEF ReclaimDeposit
        <3>2. CASE ReclaimError(sender, c) = "Ok"
            <4>1. verifications[c] \in Record
                BY <3>2, RemoveOk
            <4>2. QED
                BY <2>4, <2>6, <3>2, <4>1 DEF ReclaimDeposit, Fail
        <3>3. QED
            BY <3>1, <3>2
    <2>7. ASSUME NEW c \in Claims, NEW owner \in Accounts, NEW amount \in Rates, Live(c),
                 ReplaceDeposit(c, owner, amount), UNCHANGED external
          PROVE  IndexConsistent'
        <3>1. verifications[c] \in Record
            BY <2>7 DEF Live, TypeOK
        <3>2. verifications' = [verifications EXCEPT ![c] =
                 [verifications[c] EXCEPT !.deposit = [owner |-> owner, amount |-> amount]]]
            BY <2>7 DEF ReplaceDeposit
        <3>3. verifications'[c] =
                 [verifications[c] EXCEPT !.deposit = [owner |-> owner, amount |-> amount]]
            BY <3>2 DEF TypeOK
        <3>4. [verifications[c] EXCEPT !.deposit = [owner |-> owner, amount |-> amount]]
                 \in Record
            BY <3>1 DEF Record, Deposit
        <3>5. verifications'[c] # None
            BY <3>3, <3>4
        <3>6. verifications'[c].authId = verifications[c].authId
            BY <3>1, <3>3 DEF Record
        <3>7. verifications' \in [Claims -> Record \cup {None}]
            BY <3>2, <3>4 DEF TypeOK
        <3>8. \A x \in Claims \ {c} : verifications'[x] = verifications[x]
            BY <3>2 DEF TypeOK
        <3>9. \A d \in AuthIds :
                 <<d, c>> \in external' <=>
                     verifications'[c] # None /\ verifications'[c].authId = d
            BY <2>7, <3>5, <3>6 DEF IndexConsistent, Live
        <3>10. \A d \in AuthIds, x \in Claims \ {c} :
                  <<d, x>> \in external' <=> <<d, x>> \in external
            BY <2>7
        <3>11. QED
            BY <3>7, <3>8, <3>9, <3>10, IndexStep
    <2>8. ASSUME NEW sender \in Accounts, NEW subject \in Attesters,
                 NEW c \in Claims, ChangeDepositOwner(sender, subject, c)
          PROVE  IndexConsistent'
        <3>1. CASE ChangeDepositOwnerError(sender, subject, c) # "Ok"
            BY <2>1, <2>8, <3>1 DEF ChangeDepositOwner
        <3>2. CASE ChangeDepositOwnerError(sender, subject, c) = "Ok"
            <4>1. Live(c)
                BY <3>2 DEF ChangeDepositOwnerError
            <4>2. verifications[c].deposit.amount \in Rates
                BY <4>1 DEF Live, TypeOK, Record, Deposit
            <4>3. /\ ReplaceDeposit(c, sender, verifications[c].deposit.amount)
                  /\ UNCHANGED external
                BY <2>8, <3>2 DEF ChangeDepositOwner, Fail
            <4>4. QED
                BY <2>7, <4>1, <4>2, <4>3
        <3>3. QED
            BY <3>1, <3>2
    <2>9. ASSUME NEW sender \in Accounts, NEW c \in Claims,
                 UpdateDeposit(sender, c)
          PROVE  IndexConsistent'
        <3>1. CASE UpdateDepositError(sender, c) # "Ok"
            BY <2>1, <2>9, <3>1 DEF UpdateDeposit
        <3>2. CASE UpdateDepositError(sender, c) = "Ok"
            <4>1. Live(c)
                BY <3>2 DEF UpdateDepositError
            <4>2. rate \in Rates
                BY DEF TypeOK
            <4>3. /\ ReplaceDeposit(c, sender, rate)
                  /\ UNCHANGED external
                BY <2>9, <3>2 DEF UpdateDeposit, Fail
            <4>4. QED
                BY <2>7, <4>1, <4>2, <4>3
        <3>3. QED
            BY <3>1, <3>2
    <2>10. ASSUME NEW c \in Claims, Migrate(c)
           PROVE  IndexConsistent'
        BY <2>10 DEF Migrate, IndexConsistent, Live
    <2>11. ASSUME NEW r \in Rates, RuntimeUpgrade(r)
           PROVE  IndexConsistent'
        BY <2>11 DEF RuntimeUpgrade, IndexConsistent, Live
    <2>12. CASE UNCHANGED vars
        BY <2>12 DEF vars, IndexConsistent, Live
    <2>13. QED
        BY <2>2, <2>3, <2>5, <2>6, <2>8, <2>9, <2>10, <2>11, <2>12 DEF Next
<1>3. QED
    BY <1>1, <1>2, TypeCorrect, PTL DEF Spec

-----------------------------------------------------------------------------
(* Stability of stored records.                                            *)

\* A step that changes no record but the one of claim c is a StableStep as
\* soon as it keeps the fields of c's record while that record lives.
LEMMA StableByClaim ==
    ASSUME NEW c \in Claims,
           \A x \in Claims \ {c} : verifications'[x] = verifications[x],
           Live(c) /\ Live(c)' =>
              /\ verifications'[c].ctype = verifications[c].ctype
              /\ verifications'[c].attester = verifications[c].attester
              /\ verifications'[c].authId = verifications[c].authId
              /\ verifications[c].revoked => verifications'[c].revoked
    PROVE  StableStep
BY DEF StableStep

\* Replacing the deposit of a live record (change_deposit_owner,
\* update_deposit) carries over all its other fields.
LEMMA ReplaceDepositStable ==
    ASSUME TypeOK, NEW c \in Claims, NEW owner, NEW amount, Live(c),
           ReplaceDeposit(c, owner, amount)
    PROVE  StableStep
<1>1. verifications[c] \in Record
    BY DEF Live, TypeOK
<1>2. verifications'[c] =
         [verifications[c] EXCEPT !.deposit = [owner |-> owner, amount |-> amount]]
    BY DEF ReplaceDeposit, TypeOK
<1>3. \A x \in Claims \ {c} : verifications'[x] = verifications[x]
    BY DEF ReplaceDeposit, TypeOK
<1>4. QED
    BY <1>1, <1>2, <1>3, StableByClaim DEF Record

\* While a record stays stored, its CType, attester and authorization id
\* never change and a revocation is never undone: revoke sets only the
\* flag, the deposit calls rewrite only the deposit (`..verification`),
\* and add and remove_verification only create or delete a record.
THEOREM StableCorrect == Spec => RecordStable
<1>1. TypeOK /\ [Next]_vars => [StableStep]_vars
    <2> SUFFICES ASSUME TypeOK, [Next]_vars PROVE [StableStep]_vars
        OBVIOUS
    <2>1. ASSUME NEW op, NEW by, NEW c, NEW err, Fail(op, by, c, err)
          PROVE  StableStep
        BY <2>1 DEF Fail, StableStep
    <2>2. ASSUME NEW sender \in Accounts, NEW who \in Attesters,
                 NEW c \in Claims, NEW k \in CTypes,
                 NEW tok \in Tokens \cup {NoToken}, Add(sender, who, c, k, tok)
          PROVE  StableStep
        <3>1. CASE AddError(sender, who, c, k, tok) # "Ok"
            BY <2>1, <2>2, <3>1 DEF Add
        <3>2. CASE AddError(sender, who, c, k, tok) = "Ok"
            <4>1. ~Live(c)
                BY <3>2 DEF AddError
            <4>2. \A x \in Claims \ {c} : verifications'[x] = verifications[x]
                BY <2>2, <3>2 DEF Add, Fail, TypeOK
            <4>3. QED
                BY <4>1, <4>2, StableByClaim
        <3>3. QED
            BY <3>1, <3>2
    <2>3. ASSUME NEW who \in Attesters, NEW c \in Claims,
                 NEW tok \in Tokens \cup {NoToken}, Revoke(who, c, tok)
          PROVE  StableStep
        <3>1. CASE RevokeError(who, c, tok) # "Ok"
            BY <2>1, <2>3, <3>1 DEF Revoke
        <3>2. CASE RevokeError(who, c, tok) = "Ok"
            <4>1. verifications' = [verifications EXCEPT ![c].revoked = TRUE]
                BY <2>3, <3>2 DEF Revoke, Fail
            <4>2. verifications[c] \in Record
                BY <3>2 DEF RevokeError, Live, TypeOK
            <4>3. verifications'[c] = [verifications[c] EXCEPT !.revoked = TRUE]
                BY <4>1 DEF TypeOK
            <4>4. \A x \in Claims \ {c} : verifications'[x] = verifications[x]
                BY <4>1 DEF TypeOK
            <4>5. QED
                BY <4>2, <4>3, <4>4, StableByClaim DEF Record
        <3>3. QED
            BY <3>1, <3>2
    <2>4. ASSUME NEW c \in Claims, NEW v, RemoveVerification(v, c)
          PROVE  StableStep
        <3>1. verifications' = [verifications EXCEPT ![c] = None]
            BY <2>4 DEF RemoveVerification
        <3>2. ~Live(c)' /\ \A x \in Claims \ {c} : verifications'[x] = verifications[x]
            BY <3>1 DEF Live, TypeOK
        <3>3. QED
            BY <3>2, StableByClaim
    <2>5. ASSUME NEW who \in Attesters, NEW c \in Claims,
                 NEW tok \in Tokens \cup {NoToken}, Remove(who, c, tok)
          PROVE  StableStep
        BY <2>1, <2>4, <2>5 DEF Remove
    <2>6. ASSUME NEW sender \in Accounts, NEW c \in Claims,
                 ReclaimDeposit(sender, c)
          PROVE  StableStep
        BY <2>1, <2>4, <2>6 DEF ReclaimDeposit
    <2>7. ASSUME NEW sender \in Accounts, NEW subject \in Attesters,
                 NEW c \in Claims, ChangeDepositOwner(sender, subject, c)
          PROVE  StableStep
        <3>1. CASE ChangeDepositOwnerError(sender, subject, c) # "Ok"
            BY <2>1, <2>7, <3>1 DEF ChangeDepositOwner
        <3>2. CASE ChangeDepositOwnerError(sender, subject, c) = "Ok"
            <4>1. Live(c)
                BY <3>2 DEF ChangeDepositOwnerError
            <4>2. ReplaceDeposit(c, sender, verifications[c].deposit.amount)
                BY <2>7, <3>2 DEF ChangeDepositOwner, Fail
            <4>3. QED
                BY <4>1, <4>2, ReplaceDepositStable
        <3>3. QED
            BY <3>1, <3>2
    <2>8. ASSUME NEW sender \in Accounts, NEW c \in Claims,
                 UpdateDeposit(sender, c)
          PROVE  StableStep
        <3>1. CASE UpdateDepositError(sender, c) # "Ok"
            BY <2>1, <2>8, <3>1 DEF UpdateDeposit
        <3>2. CASE UpdateDepositError(sender, c) = "Ok"
            <4>1. Live(c)
                BY <3>2 DEF UpdateDepositError
            <4>2. ReplaceDeposit(c, sender, rate)
                BY <2>8, <3>2 DEF UpdateDeposit, Fail
            <4>3. QED
                BY <4>1, <4>2, ReplaceDepositStable
        <3>3. QED
            BY <3>1, <3>2
    <2>9. ASSUME NEW c \in Claims, Migrate(c)
          PROVE  StableStep
        BY <2>9 DEF Migrate, StableStep
    <2>10. ASSUME NEW r \in Rates, RuntimeUpgrade(r)
           PROVE  StableStep
        BY <2>10 DEF RuntimeUpgrade, StableStep
    <2>11. CASE UNCHANGED vars
        BY <2>11 DEF vars
    <2>12. QED
        BY <2>2, <2>3, <2>5, <2>6, <2>7, <2>8, <2>9, <2>10, <2>11 DEF Next
<1>2. QED
    BY <1>1, TypeCorrect, PTL DEF Spec, RecordStable

-----------------------------------------------------------------------------
(* Authorization of the changes to a stored record.                        *)

\* A caller that passes the attester-or-delegated check of revoke or
\* remove is entitled to the operation: the token it presented is the
\* witness.
LEMMA DelegatedEntitled ==
    ASSUME NEW op, NEW who, NEW c, NEW tok \in Tokens \cup {NoToken}, NEW v,
           v.attester = who \/ Delegated(op, who, c, tok, v)
    PROVE  Entitled(op, who, c, v)
BY DEF Delegated, Entitled

\* A step that changes no record but the one of claim c is an
\* AuthorizedStep as soon as its change to c's record is authorized.
LEMMA AuthorizedByClaim ==
    ASSUME NEW c \in Claims,
           \A x \in Claims \ {c} : verifications'[x] = verifications[x],
           LET v == verifications[c]
               w == verifications'[c]
               who == lastCall'.by
           IN  /\ Live(c) /\ ~Live(c)' =>
                    \/ lastCall'.op = "remove" /\ Entitled("remove", who, c, v)
                    \/ lastCall'.op = "reclaim_deposit" /\ who = v.deposit.owner
               /\ Live(c) /\ Live(c)' /\ ~v.revoked /\ w.revoked =>
                    lastCall'.op = "revoke" /\ Entitled("revoke", who, c, v)
               /\ Live(c) /\ Live(c)' /\ w.deposit.owner # v.deposit.owner =>
                    lastCall'.op = "change_deposit_owner" /\ who = v.attester
    PROVE  AuthorizedStep
BY DEF AuthorizedStep, Live

\* A step that leaves every record as it is changes nothing that needs
\* authorization.
LEMMA AuthorizedUnchanged ==
    ASSUME UNCHANGED verifications
    PROVE  AuthorizedStep
BY DEF AuthorizedStep, Live

\* While a record is stored, it is removed only by an entitled remove or by
\* its deposit owner's reclaim_deposit, revoked only by an entitled revoke
\* (checked against the authorization id stored in the record), and given a
\* new deposit owner only by its attester's change_deposit_owner.
THEOREM AuthorizedCorrect == Spec => AuthorizedChange
<1>1. TypeOK /\ [Next]_vars => [AuthorizedStep]_vars
    <2> SUFFICES ASSUME TypeOK, [Next]_vars PROVE [AuthorizedStep]_vars
        OBVIOUS
    <2>1. ASSUME NEW op, NEW by, NEW c, NEW err, Fail(op, by, c, err)
          PROVE  AuthorizedStep
        BY <2>1, AuthorizedUnchanged DEF Fail
    <2>2. ASSUME NEW sender \in Accounts, NEW who \in Attesters,
                 NEW c \in Claims, NEW k \in CTypes,
                 NEW tok \in Tokens \cup {NoToken}, Add(sender, who, c, k, tok)
          PROVE  AuthorizedStep
        <3>1. CASE AddError(sender, who, c, k, tok) # "Ok"
            BY <2>1, <2>2, <3>1 DEF Add
        <3>2. CASE AddError(sender, who, c, k, tok) = "Ok"
            <4>1. ~Live(c)
                BY <3>2 DEF AddError
            <4>2. \A x \in Claims \ {c} : verifications'[x] = verifications[x]
                BY <2>2, <3>2 DEF Add, Fail, TypeOK
            <4>3. QED
                BY <4>1, <4>2, AuthorizedByClaim
        <3>3. QED
            BY <3>1, <3>2
    <2>3. ASSUME NEW who \in Attesters, NEW c \in Claims,
                 NEW tok \in Tokens \cup {NoToken}, Revoke(who, c, tok)
          PROVE  AuthorizedStep
        <3>1. CASE RevokeError(who, c, tok) # "Ok"
            BY <2>1, <2>3, <3>1 DEF Revoke
        <3>2. CASE RevokeError(who, c, tok) = "Ok"
            <4> DEFINE v == verifications[c]
            <4>1. /\ Live(c) /\ ~v.revoked
                  /\ v.attester = who \/ Delegated("revoke", who, c, tok, v)
                BY <3>2 DEF RevokeError
            <4>2. /\ verifications' = [verifications EXCEPT ![c].revoked = TRUE]
                  /\ lastCall'.op = "revoke" /\ lastCall'.by = who
                BY <2>3, <3>2 DEF Revoke, Fail, Called
            <4>3. v \in Record
                BY <4>1 DEF Live, TypeOK
            <4>4. /\ verifications'[c] = [v EXCEPT !.revoked = TRUE]
                  /\ \A x \in Claims \ {c} : verifications'[x] = verifications[x]
                BY <4>2 DEF TypeOK
            <4>5. /\ Live(c)'
                  /\ verifications'[c].deposit = v.deposit
                BY <4>3, <4>4 DEF Live, Record
            <4>6. Entitled("revoke", who, c, v)
                BY <4>1, DelegatedEntitled
            <4>7. QED
                BY <4>2, <4>4, <4>5, <4>6, AuthorizedByClaim
        <3>3. QED
            BY <3>1, <3>2
    <2>4. ASSUME NEW who \in Attesters, NEW c \in Claims,
                 NEW tok \in Tokens \cup {NoToken}, Remove(who, c, tok)
          PROVE  AuthorizedStep
        <3>1. CASE RemoveError(who, c, tok) # "Ok"
            BY <2>1, <2>4, <3>1 DEF Remove
        <3>2. CASE RemoveError(who, c, tok) = "Ok"
            <4> DEFINE v == verifications[c]
            <4>1. v.attester = who \/ Delegated("remove", who, c, tok, v)
                BY <3>2 DEF RemoveError
            <4>2. /\ verifications' = [verifications EXCEPT ![c] = None]
                  /\ lastCall'.op = "remove" /\ lastCall'.by = who
                BY <2>4, <3>2 DEF Remove, Fail, Called, RemoveVerification
            <4>3. ~Live(c)' /\ \A x \in Claims \ {c} : verifications'[x] = verifications[x]
                BY <4>2 DEF Live, TypeOK
            <4>4. QED
                BY <4>1, <4>2, <4>3, DelegatedEntitled, AuthorizedByClaim
        <3>3. QED
            BY <3>1, <3>2
    <2>5. ASSUME NEW sender \in Accounts, NEW c \in Claims,
                 ReclaimDeposit(sender, c)
          PROVE  AuthorizedStep
        <3>1. CASE ReclaimError(sender, c) # "Ok"
            BY <2>1, <2>5, <3>1 DEF ReclaimDeposit
        <3>2. CASE ReclaimError(sender, c) = "Ok"
            <4>1. verifications[c].deposit.owner = sender
                BY <3>2 DEF ReclaimError
            <4>2. /\ verifications' = [verifications EXCEPT ![c] = None]
                  /\ lastCall'.op = "reclaim_deposit" /\ lastCall'.by = sender
                BY <2>5, <3>2 DEF ReclaimDeposit, Fail, Called, RemoveVerification
            <4>3. ~Live(c)' /\ \A x \in Claims \ {c} : verifications'[x] = verifications[x]
                BY <4>2 DEF Live, TypeOK
            <4>4. QED
                BY <4>1, <4>2, <4>3, AuthorizedByClaim
        <3>3. QED
            BY <3>1, <3>2
    <2>6. ASSUME NEW sender \in Accounts, NEW subject \in Attesters,
                 NEW c \in Claims, ChangeDepositOwner(sender, subject, c)
          PROVE  AuthorizedStep
        <3>1. CASE ChangeDepositOwnerError(sender, subject, c) # "Ok"
            BY <2>1, <2>6, <3>1 DEF ChangeDepositOwner
        <3>2. CASE ChangeDepositOwnerError(sender, subject, c) = "Ok"
            <4> DEFINE v == verifications[c]
                       nd == [owner |-> sender, amount |-> v.deposit.amount]
            <4>1. Live(c) /\ v.attester = subject
                BY <3>2 DEF ChangeDepositOwnerError
            <4>2. /\ verifications' = [verifications EXCEPT ![c].deposit = nd]
                  /\ lastCall'.op = "change_deposit_owner"
                  /\ lastCall'.by = subject
                BY <2>6, <3>2 DEF ChangeDepositOwner, Fail, Called, ReplaceDeposit
            <4>3. v \in Record
                BY <4>1 DEF Live, TypeOK
            <4>4. /\ verifications'[c] = [v EXCEPT !.deposit = nd]
                  /\ \A x \in Claims \ {c} : verifications'[x] = verifications[x]
                BY <4>2 DEF TypeOK
            <4>5. [v EXCEPT !.deposit = nd] \in Record
                BY <4>3 DEF Record, Deposit, TypeOK
            <4>6. /\ Live(c)'
                  /\ verifications'[c].revoked = v.revoked
                BY <4>3, <4>4, <4>5 DEF Live, Record
            <4>7. QED
                BY <4>1, <4>2, <4>4, <4>6, AuthorizedByClaim
        <3>3. QED
            BY <3>1, <3>2
    <2>7. ASSUME NEW sender \in Accounts, NEW c \in Claims,
                 UpdateDeposit(sender, c)
          PROVE  AuthorizedStep
        <3>1. CASE UpdateDepositError(sender, c) # "Ok"
            BY <2>1, <2>7, <3>1 DEF UpdateDeposit
        <3>2. CASE UpdateDepositError(sender, c) = "Ok"
            <4> DEFINE v == verifications[c]
                       nd == [owner |-> sender, amount |-> rate]
            <4>1. Live(c) /\ v.deposit.owner = sender
                BY <3>2 DEF UpdateDepositError
            <4>2. verifications' = [verifications EXCEPT ![c].deposit = nd]
                BY <2>7, <3>2 DEF UpdateDeposit, Fail, ReplaceDeposit
            <4>3. v \in Record
                BY <4>1 DEF Live, TypeOK
            <4>4. /\ verifications'[c] = [v EXCEPT !.deposit = nd]
                  /\ \A x \in Claims \ {c} : verifications'[x] = verifications[x]
                BY <4>2 DEF TypeOK
            <4>5. [v EXCEPT !.deposit = nd] \in Record
                BY <4>3 DEF Record, Deposit, TypeOK
            <4>6. /\ Live(c)'
                  /\ verifications'[c].revoked = v.revoked
                  /\ verifications'[c].deposit.owner = v.deposit.owner
                BY <4>1, <4>3, <4>4, <4>5 DEF Live, Record
            <4>7. QED
                BY <4>4, <4>6, AuthorizedByClaim
        <3>3. QED
            BY <3>1, <3>2
    <2>8. ASSUME NEW c \in Claims, Migrate(c)
          PROVE  AuthorizedStep
        BY <2>8, AuthorizedUnchanged DEF Migrate
    <2>9. ASSUME NEW r \in Rates, RuntimeUpgrade(r)
          PROVE  AuthorizedStep
        BY <2>9, AuthorizedUnchanged DEF RuntimeUpgrade
    <2>10. CASE UNCHANGED vars
        BY <2>10 DEF vars
    <2>11. QED
        BY <2>2, <2>3, <2>4, <2>5, <2>6, <2>7, <2>8, <2>9, <2>10 DEF Next
<1>2. QED
    BY <1>1, TypeCorrect, PTL DEF Spec, AuthorizedChange

=============================================================================
