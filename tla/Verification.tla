---------------------------- MODULE Verification ----------------------------
(***************************************************************************)
(* The verification (attestation) pallet of src/pallets/verification:      *)
(* the record store Verifications, the secondary index                     *)
(* ExternalVerifications, the deposit held for each record and the six    *)
(* dispatchable calls add, revoke, remove, reclaim_deposit,                *)
(* change_deposit_owner and update_deposit.                                *)
(*                                                                         *)
(* Every call is one atomic step: FRAME dispatches each extrinsic in a     *)
(* storage transaction, so a call that returns an error leaves all state   *)
(* as it was and only its outcome (lastCall) is recorded.  The order of    *)
(* the early returns of each call is kept: it decides which error a call   *)
(* returns.                                                                *)
(*                                                                         *)
(* Collaborators outside src/ are modelled from their contracts:           *)
(*  - the CType registry is the constant set KnownCTypes;                  *)
(*  - the access-control capability (trait VerificationAccessControl) is   *)
(*    the constant operators CanAttest, CanRevoke, CanRemove and AuthIdOf; *)
(*  - the currency keeps, per account, free, held (reason Deposit) and     *)
(*    legacy reserved balance;                                             *)
(*  - the balance migration manager is the set `migrated` of claim keys    *)
(*    whose deposit is held under the current scheme, and the environment *)
(*    action Migrate that converts a legacy reserve into a hold;           *)
(*  - T::Deposit, a runtime constant, changes only by RuntimeUpgrade.      *)
(***************************************************************************)
EXTENDS Naturals, FiniteSets

CONSTANTS
    Claims,          \* claim hashes (keys of Verifications)
    CTypes,          \* CType hashes
    KnownCTypes,     \* CTypes present in uid_credential::Ctypes
    Attesters,       \* attester identifiers (call subjects, DIDs)
    Accounts,        \* account ids (call senders, deposit owners)
    AuthIds,         \* authorization ids (delegation nodes)
    Tokens,          \* values of T::AccessControl a caller may present
    AuthIdOf,        \* authorization_id() of a token
    CanAttest(_, _, _, _),       \* can_attest(who, ctype, claim) of a token
    CanRevoke(_, _, _, _, _),    \* can_revoke(who, ctype, claim, auth id)
    CanRemove(_, _, _, _, _),    \* can_remove(who, ctype, claim, auth id)
    Rates,           \* the values T::Deposit takes across runtime upgrades
    GenesisBalance,  \* balances of the accounts when the pallet starts
    Genesis,         \* legacy records present when the pallet starts
    MaxDelegatedVerifications, \* T::MaxDelegatedVerifications
    None,            \* absent record, absent optional value
    NoAuth,          \* authorization_id = None
    NoToken          \* authorization = None

VARIABLES
    verifications,   \* Verifications: claim -> record or None
    external,        \* ExternalVerifications: set of <<auth id, claim>>
    balance,         \* account -> [free, held, reserved]
    migrated,        \* keys the migration manager treats as migrated
    rate,            \* current value of T::Deposit
    lastCall         \* the last call and its outcome (event or error)

vars == <<verifications, external, balance, migrated, rate, lastCall>>

Deposit == [owner : Accounts, amount : Rates]

Balances == [Accounts -> [free : Nat, held : Nat, reserved : Nat]]

Record == [ctype : CTypes, attester : Attesters, authId : AuthIds \cup {NoAuth},
           revoked : BOOLEAN, deposit : Deposit]

Ops == {"genesis", "add", "revoke", "remove", "reclaim_deposit",
        "change_deposit_owner", "update_deposit", "migrate", "upgrade"}

Results == {"Ok", "CTypeNotFound", "AlreadyVerified", "AlreadyRevoked",
            "NotFound", "NotAuthorized", "InsufficientBalance",
            "FundsUnavailable"}

ASSUME ConstantsAssumption ==
    /\ KnownCTypes \subseteq CTypes
    /\ AuthIdOf \in [Tokens -> AuthIds]
    /\ Rates \subseteq Nat \ {0} /\ Rates # {}
    /\ GenesisBalance \in Balances
    /\ MaxDelegatedVerifications \in Nat
    /\ IsFiniteSet(Claims)
    /\ DOMAIN Genesis \subseteq Claims
    /\ \A c \in DOMAIN Genesis : Genesis[c] \in Record
    /\ {None, NoAuth, NoToken} \cap (Record \cup AuthIds \cup Tokens) = {}
    /\ None \notin Attesters \cup Accounts

-----------------------------------------------------------------------------
(* Helpers.                                                                *)

Live(c) == verifications[c] # None

\* The deposit units of the records in a set of claims: a deposit of n is
\* the n units <<c, 1>>, ..., <<c, n>> of its claim c.
DepositUnits(cs) ==
    UNION {{c} \X (1 .. verifications[c].deposit.amount) : c \in cs}

\* Sum of the deposits of the records in a set of claims, as the number of
\* their units.
DepositSum(cs) == Cardinality(DepositUnits(cs))

\* x - y saturating at 0 (Currency::unreserve releases at most what is
\* reserved).
SatSub(x, y) == IF x >= y THEN x - y ELSE 0

\* create_deposit: hold `amount` of `payer`'s free balance.
Hold(bal, payer, amount) ==
    [bal EXCEPT ![payer] = [free |-> @.free - amount, held |-> @.held + amount,
                            reserved |-> @.reserved]]

\* Deposit release of a record, in the scheme its key is in: a migrated
\* key releases the hold (free_deposit), a legacy key unreserves through
\* the migration manager (release_reserved_deposit).
Release(bal, c, d) ==
    LET b == bal[d.owner]
        unreserved == b.reserved - SatSub(b.reserved, d.amount)
    IN  [bal EXCEPT ![d.owner] =
           IF c \in migrated
           THEN [free |-> b.free + d.amount, held |-> b.held - d.amount,
                 reserved |-> b.reserved]
           ELSE [free |-> b.free + unreserved, held |-> b.held,
                 reserved |-> b.reserved - unreserved]]

\* free_deposit fails when the hold is smaller than the deposit.
ReleaseFails(c, d) == c \in migrated /\ balance[d.owner].held < d.amount

\* The outcome of a call, recorded whether it succeeds or fails.
Called(op, by, c, result) ==
    lastCall' = [op |-> op, by |-> by, claim |-> c, result |-> result]

\* A call that returned an error: nothing but the outcome changes.
Fail(op, by, c, err) ==
    /\ err # "Ok"
    /\ Called(op, by, c, err)
    /\ UNCHANGED <<verifications, external, balance, migrated, rate>>

\* Mutant: the index entry is left behind.
RemoveVerificationKeepIndex(v, c) ==
    /\ balance' = Release(balance, c, v.deposit)
    /\ verifications' = [verifications EXCEPT ![c] = None]
    /\ UNCHANGED external

\* remove_verification: release the deposit, delete the record and its
\* index entry.
RemoveVerification(v, c) ==
    /\ balance' = Release(balance, c, v.deposit)
    /\ verifications' = [verifications EXCEPT ![c] = None]
    /\ external' = external \ {<<v.authId, c>>}

\* The capability check a delegated revoke or remove asks of a token.
Can(op, who, tok, k, c, d) ==
    IF op = "revoke" THEN CanRevoke(who, tok, k, c, d)
                     ELSE CanRemove(who, tok, k, c, d)

\* Mutant: the token is checked against its own authorization id.
DelegatedTokenId(op, who, c, tok, v) ==
    /\ v.authId # NoAuth
    /\ tok # NoToken
    /\ Can(op, who, tok, v.ctype, c, AuthIdOf[tok])

\* Caller may act on record v in place of its attester: the token is
\* checked against the authorization id stored with the record.
Delegated(op, who, c, tok, v) ==
    /\ v.authId # NoAuth
    /\ tok # NoToken
    /\ Can(op, who, tok, v.ctype, c, v.authId)

-----------------------------------------------------------------------------
Init ==
    /\ verifications = [c \in Claims |->
                          IF c \in DOMAIN Genesis THEN Genesis[c] ELSE None]
    /\ external = {<<Genesis[c].authId, c>> :
                     c \in {g \in DOMAIN Genesis : Genesis[g].authId # NoAuth}}
    /\ balance = GenesisBalance
    /\ migrated = {}
    /\ rate \in Rates
    /\ lastCall = [op |-> "genesis", by |-> None, claim |-> None, result |-> "Ok"]

\* Mutant: a claim that is already verified is attested again.
AddErrorOverwrite(sender, who, c, k, tok) ==
    IF k \notin KnownCTypes THEN "CTypeNotFound"
    ELSE IF tok # NoToken /\ ~CanAttest(who, tok, k, c) THEN "NotAuthorized"
    ELSE IF balance[sender].free < rate THEN "InsufficientBalance"
    ELSE "Ok"

\* Mutant: the deposit is held without checking the free balance.
AddErrorNoBalance(sender, who, c, k, tok) ==
    IF k \notin KnownCTypes THEN "CTypeNotFound"
    ELSE IF Live(c) THEN "AlreadyVerified"
    ELSE IF tok # NoToken /\ ~CanAttest(who, tok, k, c) THEN "NotAuthorized"
    ELSE "Ok"

(* add(origin = (sender, who), claim_hash c, ctype_hash k, authorization)  *)
AddError(sender, who, c, k, tok) ==
    IF k \notin KnownCTypes THEN "CTypeNotFound"
    ELSE IF Live(c) THEN "AlreadyVerified"
    ELSE IF tok # NoToken /\ ~CanAttest(who, tok, k, c) THEN "NotAuthorized"
    ELSE IF balance[sender].free < rate THEN "InsufficientBalance"
    ELSE "Ok"

Add(sender, who, c, k, tok) ==
    LET err == AddError(sender, who, c, k, tok)
        authId == IF tok = NoToken THEN NoAuth ELSE AuthIdOf[tok]
    IN  \/ Fail("add", who, c, err)
        \/ /\ err = "Ok"
           /\ balance' = Hold(balance, sender, rate)
           /\ migrated' = migrated \cup {c}
           /\ verifications' = [verifications EXCEPT ![c] =
                 [ctype |-> k, attester |-> who, authId |-> authId,
                  revoked |-> FALSE,
                  deposit |-> [owner |-> sender, amount |-> rate]]]
           /\ external' = IF authId = NoAuth THEN external
                          ELSE external \cup {<<authId, c>>}
           /\ Called("add", who, c, "Ok")
           /\ UNCHANGED rate

(* revoke(origin subject who, claim_hash c, authorization)                 *)
RevokeError(who, c, tok) ==
    IF ~Live(c) THEN "NotFound"
    ELSE LET v == verifications[c] IN
         IF v.revoked THEN "AlreadyRevoked"
         ELSE IF v.attester # who /\ ~Delegated("revoke", who, c, tok, v)
              THEN "NotAuthorized"
         ELSE "Ok"

Revoke(who, c, tok) ==
    LET err == RevokeError(who, c, tok) IN
    \/ Fail("revoke", who, c, err)
    \/ /\ err = "Ok"
       /\ verifications' = [verifications EXCEPT ![c].revoked = TRUE]
       /\ Called("revoke", who, c, "Ok")
       /\ UNCHANGED <<external, balance, migrated, rate>>

(* remove(origin subject who, claim_hash c, authorization)                 *)
RemoveError(who, c, tok) ==
    IF ~Live(c) THEN "NotFound"
    ELSE LET v == verifications[c] IN
         IF v.attester # who /\ ~Delegated("remove", who, c, tok, v)
         THEN "NotAuthorized"
         ELSE IF ReleaseFails(c, v.deposit) THEN "FundsUnavailable"
         ELSE "Ok"

Remove(who, c, tok) ==
    LET err == RemoveError(who, c, tok) IN
    \/ Fail("remove", who, c, err)
    \/ /\ err = "Ok"
       /\ RemoveVerification(verifications[c], c)
       /\ Called("remove", who, c, "Ok")
       /\ UNCHANGED <<migrated, rate>>

(* reclaim_deposit(signed sender, claim_hash c)                            *)
ReclaimError(sender, c) ==
    IF ~Live(c) THEN "NotFound"
    ELSE IF verifications[c].deposit.owner # sender THEN "NotAuthorized"
    ELSE IF ReleaseFails(c, verifications[c].deposit) THEN "FundsUnavailable"
    ELSE "Ok"

ReclaimDeposit(sender, c) ==
    LET err == ReclaimError(sender, c) IN
    \/ Fail("reclaim_deposit", sender, c, err)
    \/ /\ err = "Ok"
       /\ RemoveVerification(verifications[c], c)
       /\ Called("reclaim_deposit", sender, c, "Ok")
       /\ UNCHANGED <<migrated, rate>>

(* StorageDepositCollector::change_deposit_owner / update_deposit: release *)
(* the current deposit in its scheme, mark the key migrated, hold          *)
(* `amount` from `owner` and store the new deposit in the record.          *)
ReplaceDepositError(c, owner, amount) ==
    LET d == verifications[c].deposit IN
    IF ReleaseFails(c, d) THEN "FundsUnavailable"
    ELSE IF Release(balance, c, d)[owner].free < amount
         THEN "InsufficientBalance"
    ELSE "Ok"

\* Mutant: a legacy key is not excluded from migration after its deposit
\* is re-held.
ReplaceDepositNoExclude(c, owner, amount) ==
    /\ balance' = Hold(Release(balance, c, verifications[c].deposit),
                       owner, amount)
    /\ UNCHANGED migrated
    /\ verifications' = [verifications EXCEPT ![c].deposit =
                           [owner |-> owner, amount |-> amount]]

\* Mutant: the record is stored afresh, not as `..verification`.
ReplaceDepositFresh(c, owner, amount) ==
    /\ balance' = Hold(Release(balance, c, verifications[c].deposit),
                       owner, amount)
    /\ migrated' = migrated \cup {c}
    /\ verifications' = [verifications EXCEPT ![c] =
                           [@ EXCEPT !.revoked = FALSE,
                                     !.deposit = [owner |-> owner, amount |-> amount]]]

ReplaceDeposit(c, owner, amount) ==
    /\ balance' = Hold(Release(balance, c, verifications[c].deposit),
                       owner, amount)
    /\ migrated' = migrated \cup {c}
    /\ verifications' = [verifications EXCEPT ![c].deposit =
                           [owner |-> owner, amount |-> amount]]

(* change_deposit_owner(origin = (sender, subject), claim_hash c)          *)
ChangeDepositOwnerError(sender, subject, c) ==
    IF ~Live(c) THEN "NotFound"
    ELSE IF verifications[c].attester # subject THEN "NotAuthorized"
    ELSE ReplaceDepositError(c, sender, verifications[c].deposit.amount)

ChangeDepositOwner(sender, subject, c) ==
    LET err == ChangeDepositOwnerError(sender, subject, c) IN
    \/ Fail("change_deposit_owner", subject, c, err)
    \/ /\ err = "Ok"
       /\ ReplaceDeposit(c, sender, verifications[c].deposit.amount)
       /\ Called("change_deposit_owner", subject, c, "Ok")
       /\ UNCHANGED <<external, rate>>

(* update_deposit(signed sender, claim_hash c)                             *)
UpdateDepositError(sender, c) ==
    IF ~Live(c) THEN "NotFound"
    ELSE IF verifications[c].deposit.owner # sender THEN "NotAuthorized"
    ELSE ReplaceDepositError(c, sender, rate)

UpdateDeposit(sender, c) ==
    LET err == UpdateDepositError(sender, c) IN
    \/ Fail("update_deposit", sender, c, err)
    \/ /\ err = "Ok"
       /\ ReplaceDeposit(c, sender, rate)
       /\ Called("update_deposit", sender, c, "Ok")
       /\ UNCHANGED <<external, rate>>

(* Environment: the migration manager migrates a legacy key, turning its  *)
(* reserve into a hold.                                                    *)
Migrate(c) ==
    /\ Live(c)
    /\ c \notin migrated
    /\ LET d == verifications[c].deposit IN
       /\ balance[d.owner].reserved >= d.amount
       /\ balance' = [balance EXCEPT ![d.owner] =
                        [free |-> @.free, held |-> @.held + d.amount,
                         reserved |-> @.reserved - d.amount]]
    /\ migrated' = migrated \cup {c}
    /\ Called("migrate", None, c, "Ok")
    /\ UNCHANGED <<verifications, external, rate>>

(* Environment: a runtime upgrade changes T::Deposit.                      *)
RuntimeUpgrade(r) ==
    /\ r # rate
    /\ rate' = r
    /\ Called("upgrade", None, None, "Ok")
    /\ UNCHANGED <<verifications, external, balance, migrated>>

Next ==
    \/ \E sender \in Accounts, who \in Attesters, c \in Claims, k \in CTypes,
          tok \in Tokens \cup {NoToken} : Add(sender, who, c, k, tok)
    \/ \E who \in Attesters, c \in Claims, tok \in Tokens \cup {NoToken} :
          Revoke(who, c, tok) \/ Remove(who, c, tok)
    \/ \E sender \in Accounts, c \in Claims :
          ReclaimDeposit(sender, c) \/ UpdateDeposit(sender, c)
    \/ \E sender \in Accounts, subject \in Attesters, c \in Claims :
          ChangeDepositOwner(sender, subject, c)
    \/ \E c \in Claims : Migrate(c)
    \/ \E r \in Rates : RuntimeUpgrade(r)

Spec == Init /\ [][Next]_vars

-----------------------------------------------------------------------------
(* Properties.                                                             *)

\* Every variable has its type.
TypeOK ==
    /\ verifications \in [Claims -> Record \cup {None}]
    /\ external \subseteq (AuthIds \X Claims)
    /\ balance \in Balances
    /\ migrated \subseteq Claims
    /\ rate \in Rates
    /\ lastCall \in [op : Ops, by : Attesters \cup Accounts \cup {None},
                     claim : Claims \cup {None}, result : Results]

\* Records of an account whose deposit is kept in the current scheme
\* (a hold) or in the legacy one (a reserve).
HeldClaims(a) ==
    {c \in Claims : Live(c) /\ c \in migrated
                    /\ verifications[c].deposit.owner = a}
ReservedClaims(a) ==
    {c \in Claims : Live(c) /\ c \notin migrated
                    /\ verifications[c].deposit.owner = a}

\* Escrow conservation (add, remove_verification, change_deposit_owner,
\* update_deposit and the migration manager together): every account's
\* hold is exactly the sum of the deposits of the live records it owns
\* whose key is migrated, and its legacy reserve exactly the sum of those
\* whose key is not; so no deposit is released twice or left orphaned, and
\* the branch on is_key_migrated always picks the scheme the deposit is in.
EscrowConservation ==
    \A a \in Accounts :
        /\ balance[a].held = DepositSum(HeldClaims(a))
        /\ balance[a].reserved = DepositSum(ReservedClaims(a))

\* The secondary index ExternalVerifications holds (d, c) exactly when the
\* live record of c was created with authorization id d: add inserts the
\* pair and remove_verification deletes it together with the record.
IndexConsistent ==
    \A d \in AuthIds, c \in Claims :
        <<d, c>> \in external <=> Live(c) /\ verifications[c].authId = d

\* While a record stays stored, no call changes who attested it, under
\* which CType and authorization id, and no call un-revokes it: revoke,
\* change_deposit_owner and update_deposit rewrite the stored record
\* with `..verification` and must carry these fields over.
StableStep ==
    \A c \in Claims :
       Live(c) /\ Live(c)' =>
          LET v == verifications[c]
              w == verifications'[c]
          IN  /\ w.ctype = v.ctype
              /\ w.attester = v.attester
              /\ w.authId = v.authId
              /\ v.revoked => w.revoked
\* RecordStable: every step of the pallet is a StableStep (or a stutter).
RecordStable == [][StableStep]_vars

\* Only an entitled caller changes a stored record: it is revoked only by
\* its attester or by a caller some capability lets revoke it under the
\* authorization id stored with it (not the one of the caller's token);
\* the same for remove with can_remove, or else by reclaim_deposit of the
\* deposit owner; and the deposit owner is replaced only by the attester's
\* change_deposit_owner.
Entitled(op, who, c, v) ==
    \/ who = v.attester
    \/ /\ v.authId # NoAuth
       /\ \E t \in Tokens : Can(op, who, t, v.ctype, c, v.authId)

AuthorizedStep ==
    \A c \in Claims :
       LET v == verifications[c]
           w == verifications'[c]
           who == lastCall'.by
       IN  /\ Live(c) /\ ~Live(c)' =>
                \/ lastCall'.op = "remove" /\ Entitled("remove", who, c, v)
                \/ lastCall'.op = "reclaim_deposit" /\ who = v.deposit.owner
           /\ Live(c) /\ Live(c)' /\ ~v.revoked /\ w.revoked =>
                lastCall'.op = "revoke" /\ Entitled("revoke", who, c, v)
           /\ Live(c) /\ Live(c)' /\ w.deposit.owner # v.deposit.owner =>
                lastCall'.op = "change_deposit_owner" /\ who = v.attester
\* AuthorizedChange: every step of the pallet is an AuthorizedStep (or a
\* stutter).
AuthorizedChange == [][AuthorizedStep]_vars

\* Config: at most MaxDelegatedVerifications verifications are made under
\* the same delegation (documented on T::MaxDelegatedVerifications, with
\* the error MaxDelegatedVerificationsExceeded).
DelegatedBound ==
    \A d \in AuthIds :
        Cardinality({c \in Claims : <<d, c>> \in external}) <= MaxDelegatedVerifications

-----------------------------------------------------------------------------
(* Refinement: the pallet implements the abstract registry of             *)
(* Registry.tla.  The credential store is Verifications itself; what the   *)
(* registry keeps locked on an account is its hold plus its legacy         *)
(* reserve, whichever scheme the migration manager has the key in.         *)

Escrowed == [a \in Accounts |-> balance[a].held + balance[a].reserved]

R == INSTANCE Registry WITH registry <- verifications, escrow <- Escrowed

\* Every sequence of calls, legacy-key migrations and runtime upgrades is a
\* behaviour of the abstract registry: add creates an unrevoked credential
\* for a free claim and locks exactly its deposit, revoke only revokes,
\* change_deposit_owner and update_deposit only replace the deposit and
\* move exactly the old and new amounts, remove and reclaim_deposit delete
\* and unlock exactly the stored deposit, and a migration or a change of
\* T::Deposit changes neither credentials nor locked funds.
RegistryRefined == R!Spec

=============================================================================
