---------------------------- MODULE EscrowProofs ----------------------------
(***************************************************************************)
(* Proof that the deposit escrow is conserved: every account's hold and    *)
(* legacy reserve are exactly the sums of the deposits of the records it   *)
(* owns in each scheme.  A sum of deposits is the number of their units    *)
(* (DepositUnits), so the facts about sums used below are facts about the  *)
(* cardinality of a disjoint union of finite sets.                         *)
(***************************************************************************)
EXTENDS VerificationProofs, FiniteSetTheorems

USE ConstantsAssumption

\* The units of the amounts f[c] of the elements c of S.
Units(f, S) == UNION {{c} \X (1 .. f[c]) : c \in S}

\* One amount n is n units.
LEMMA UnitsOfOne ==
    ASSUME NEW x, NEW n \in Nat
    PROVE  /\ IsFiniteSet({x} \X (1 .. n))
           /\ Cardinality({x} \X (1 .. n)) = n
<1>1. IsFiniteSet({x}) /\ Cardinality({x}) = 1
    BY FS_Singleton
<1>2. IsFiniteSet(1 .. n) /\ Cardinality(1 .. n) = n
    BY FS_Interval
<1>3. /\ IsFiniteSet({x} \X (1 .. n))
      /\ Cardinality({x} \X (1 .. n)) = Cardinality({x}) * Cardinality(1 .. n)
    BY <1>1, <1>2, FS_Product
<1>4. QED
    BY <1>1, <1>2, <1>3

\* The units of a finite set of amounts are finitely many.
LEMMA UnitsFinite ==
    ASSUME NEW D, NEW f \in [D -> Nat], NEW S \in SUBSET D, IsFiniteSet(S)
    PROVE  IsFiniteSet(Units(f, S))
<1> DEFINE img == {{c} \X (1 .. f[c]) : c \in S}
           h == [c \in S |-> {c} \X (1 .. f[c])]
<1>1. h \in Surjection(S, img)
    BY DEF Surjection
<1>2. IsFiniteSet(img)
    BY <1>1, FS_Surjection
<1>3. \A T \in img : IsFiniteSet(T)
    BY UnitsOfOne
<1>4. QED
    BY <1>2, <1>3, FS_UNION DEF Units

\* A sum of amounts is a natural number.
LEMMA UnitsType ==
    ASSUME NEW D, NEW f \in [D -> Nat], NEW S \in SUBSET D, IsFiniteSet(S)
    PROVE  Cardinality(Units(f, S)) \in Nat
BY UnitsFinite, FS_CardinalityType

\* Adding an element to a set adds its amount to the sum.
LEMMA UnitsAdd ==
    ASSUME NEW D, NEW f \in [D -> Nat], NEW S \in SUBSET D, IsFiniteSet(S),
           NEW x \in D \ S
    PROVE  Cardinality(Units(f, S \cup {x})) = Cardinality(Units(f, S)) + f[x]
<1> DEFINE new == {x} \X (1 .. f[x])
<1>1. Units(f, S \cup {x}) = Units(f, S) \cup new
    BY DEF Units
<1>2. Units(f, S) \cap new = {}
    BY DEF Units
<1>3. IsFiniteSet(Units(f, S)) /\ IsFiniteSet(new) /\ Cardinality(new) = f[x]
    BY UnitsFinite, UnitsOfOne
<1>4. Cardinality(Units(f, S) \cup new)
        = Cardinality(Units(f, S)) + Cardinality(new) - Cardinality({})
    BY <1>2, <1>3, FS_Union
<1>5. Cardinality(Units(f, S)) \in Nat /\ f[x] \in Nat /\ Cardinality({}) = 0
    BY UnitsType, FS_EmptySet
<1>6. Cardinality(Units(f, S \cup {x})) = Cardinality(Units(f, S) \cup new)
    BY <1>1, Zenon
<1>7. QED
    BY <1>3, <1>4, <1>5, <1>6

\* The sum over S is the sum over S without x, plus x's amount if x is in S.
LEMMA UnitsSplit ==
    ASSUME NEW D, NEW f \in [D -> Nat], NEW S \in SUBSET D, IsFiniteSet(S),
           NEW x \in D
    PROVE  Cardinality(Units(f, S))
             = Cardinality(Units(f, S \ {x})) + (IF x \in S THEN f[x] ELSE 0)
<1>1. IsFiniteSet(S \ {x})
    BY FS_Subset
<1>2. CASE x \in S
    <2>1. S = (S \ {x}) \cup {x}
        BY <1>2
    <2>2. QED
        BY <1>1, <1>2, <2>1, UnitsAdd
<1>3. CASE x \notin S
    <2>1. S \ {x} = S
        BY <1>3
    <2>2. QED
        BY <1>3, <2>1, UnitsType
<1>4. QED
    BY <1>2, <1>3

\* An element's amount is at most the sum over a set that contains it.
LEMMA UnitsBound ==
    ASSUME NEW D, NEW f \in [D -> Nat], NEW S \in SUBSET D, IsFiniteSet(S),
           NEW x \in S
    PROVE  f[x] <= Cardinality(Units(f, S))
<1>1. IsFiniteSet(S \ {x})
    BY FS_Subset
<1>2. QED
    BY <1>1, UnitsSplit, UnitsType

\* When S and T differ at most in x, and f and g agree outside x, the sums
\* differ by what x contributes to each.
LEMMA UnitsStep ==
    ASSUME NEW D, NEW f \in [D -> Nat], NEW g \in [D -> Nat],
           NEW S \in SUBSET D, NEW T \in SUBSET D,
           IsFiniteSet(S), IsFiniteSet(T), NEW x \in D,
           S \ {x} = T \ {x},
           \A c \in S \ {x} : f[c] = g[c]
    PROVE  Cardinality(Units(g, T)) + (IF x \in S THEN f[x] ELSE 0)
             = Cardinality(Units(f, S)) + (IF x \in T THEN g[x] ELSE 0)
<1>1. Units(f, S \ {x}) = Units(g, T \ {x})
    BY DEF Units
<1>2. IsFiniteSet(S \ {x})
    BY FS_Subset
<1>3. QED
    BY <1>1, <1>2, UnitsSplit, UnitsType

-----------------------------------------------------------------------------
(* The deposit sums of the pallet as sums of units.                        *)

\* The deposit amount of each stored record of a records function.
AmountOf(ver) ==
    [c \in Claims |-> IF ver[c] = None THEN 0 ELSE ver[c].deposit.amount]

\* The deposit units of the records of `ver` in S (DepositUnits of a state
\* whose records are `ver`).
RecordUnits(ver, S) == UNION {{c} \X (1 .. ver[c].deposit.amount) : c \in S}

\* The units of stored records are the units of their amounts.
LEMMA RecordUnitsAre ==
    ASSUME NEW ver \in [Claims -> Record \cup {None}], NEW S \in SUBSET Claims,
           \A c \in S : ver[c] # None
    PROVE  /\ RecordUnits(ver, S) = Units(AmountOf(ver), S)
           /\ AmountOf(ver) \in [Claims -> Nat]
<1>1. \A c \in Claims : ver[c] # None => ver[c].deposit.amount \in Nat
    BY DEF Record, Deposit
<1>2. AmountOf(ver) \in [Claims -> Nat]
    BY <1>1 DEF AmountOf
<1>3. QED
    BY <1>2 DEF RecordUnits, Units, AmountOf

\* A deposit sum changes, between two record functions that differ at most
\* at x, by what x contributes to the set before and after.
LEMMA SumFollows ==
    ASSUME NEW ver \in [Claims -> Record \cup {None}],
           NEW ver2 \in [Claims -> Record \cup {None}],
           NEW x \in Claims, \A c \in Claims \ {x} : ver2[c] = ver[c],
           NEW S \in SUBSET Claims, NEW T \in SUBSET Claims,
           \A c \in S : ver[c] # None, \A c \in T : ver2[c] # None,
           S \ {x} = T \ {x},
           NEW old \in Int, NEW new \in Int,
           old = Cardinality(RecordUnits(ver, S)),
           new + (IF x \in S THEN ver[x].deposit.amount ELSE 0)
             = old + (IF x \in T THEN ver2[x].deposit.amount ELSE 0)
    PROVE  new = Cardinality(RecordUnits(ver2, T))
<1> DEFINE f == AmountOf(ver)
           g == AmountOf(ver2)
<1>1. RecordUnits(ver, S) = Units(f, S) /\ f \in [Claims -> Nat]
    BY RecordUnitsAre
<1>2. RecordUnits(ver2, T) = Units(g, T) /\ g \in [Claims -> Nat]
    BY RecordUnitsAre
<1>3. IsFiniteSet(S) /\ IsFiniteSet(T)
    BY FS_Subset
<1>4. \A c \in S \ {x} : f[c] = g[c]
    BY DEF AmountOf
<1>5. Cardinality(Units(g, T)) + (IF x \in S THEN f[x] ELSE 0)
        = Cardinality(Units(f, S)) + (IF x \in T THEN g[x] ELSE 0)
    BY <1>1, <1>2, <1>3, <1>4, UnitsStep
<1>6. /\ x \in S => f[x] = ver[x].deposit.amount
      /\ x \in T => g[x] = ver2[x].deposit.amount
    BY DEF AmountOf
<1>7. /\ Cardinality(Units(f, S)) \in Nat /\ Cardinality(Units(g, T)) \in Nat
      /\ f[x] \in Nat /\ g[x] \in Nat
    BY <1>1, <1>2, <1>3, UnitsType
<1>8. QED
    BY <1>1, <1>2, <1>5, <1>6, <1>7

\* Under escrow conservation the deposit of a stored record is covered by
\* its owner's hold or reserve, whichever scheme its key is in.
LEMMA DepositCovered ==
    ASSUME TypeOK, EscrowConservation, NEW c \in Claims, Live(c)
    PROVE  LET d == verifications[c].deposit
           IN  /\ c \in migrated => d.amount <= balance[d.owner].held
               /\ c \notin migrated => d.amount <= balance[d.owner].reserved
<1> DEFINE d == verifications[c].deposit
           f == AmountOf(verifications)
<1>1. d.owner \in Accounts /\ f[c] = d.amount
    BY DEF Live, TypeOK, Record, Deposit, AmountOf
<1>2. ASSUME NEW S \in SUBSET Claims, c \in S, \A e \in S : Live(e)
      PROVE  d.amount <= Cardinality(RecordUnits(verifications, S))
    <2>1. RecordUnits(verifications, S) = Units(f, S) /\ f \in [Claims -> Nat]
        BY <1>2, RecordUnitsAre DEF Live, TypeOK
    <2>2. IsFiniteSet(S)
        BY FS_Subset
    <2>3. QED
        BY <1>1, <1>2, <2>1, <2>2, UnitsBound
<1>3. c \in migrated => d.amount <= DepositSum(HeldClaims(d.owner))
    BY <1>2 DEF HeldClaims, DepositSum, DepositUnits, RecordUnits
<1>4. c \notin migrated => d.amount <= DepositSum(ReservedClaims(d.owner))
    BY <1>2 DEF ReservedClaims, DepositSum, DepositUnits, RecordUnits
<1>5. QED
    BY <1>1, <1>3, <1>4 DEF EscrowConservation

\* What a claim x contributes to the hold and to the reserve of account a.
HeldShare(a, x) ==
    IF x \in HeldClaims(a) THEN verifications[x].deposit.amount ELSE 0
ReservedShare(a, x) ==
    IF x \in ReservedClaims(a) THEN verifications[x].deposit.amount ELSE 0

\* A step that changes the record and the scheme of at most one claim x
\* keeps the escrow conserved when it moves every account's hold and
\* reserve by what x contributes to them before and after.
LEMMA EscrowByClaim ==
    ASSUME TypeOK, TypeOK', EscrowConservation, NEW x \in Claims,
           \A c \in Claims \ {x} : verifications'[c] = verifications[c],
           migrated' \ {x} = migrated \ {x},
           \A a \in Accounts :
              /\ balance'[a].held + HeldShare(a, x)
                   = balance[a].held + HeldShare(a, x)'
              /\ balance'[a].reserved + ReservedShare(a, x)
                   = balance[a].reserved + ReservedShare(a, x)'
    PROVE  EscrowConservation'
<1> SUFFICES ASSUME NEW a \in Accounts
             PROVE  /\ balance'[a].held = DepositSum(HeldClaims(a))'
                    /\ balance'[a].reserved = DepositSum(ReservedClaims(a))'
    BY DEF EscrowConservation
<1>1. /\ balance[a].held \in Nat /\ balance[a].reserved \in Nat
      /\ balance'[a].held \in Nat /\ balance'[a].reserved \in Nat
    BY DEF TypeOK, Balances
<1>2. /\ HeldClaims(a) \ {x} = HeldClaims(a)' \ {x}
      /\ ReservedClaims(a) \ {x} = ReservedClaims(a)' \ {x}
    BY DEF HeldClaims, ReservedClaims, Live
<1>3. /\ \A c \in HeldClaims(a) : verifications[c] # None
      /\ \A c \in HeldClaims(a)' : verifications'[c] # None
      /\ \A c \in ReservedClaims(a) : verifications[c] # None
      /\ \A c \in ReservedClaims(a)' : verifications'[c] # None
      /\ HeldClaims(a) \subseteq Claims /\ HeldClaims(a)' \subseteq Claims
      /\ ReservedClaims(a) \subseteq Claims /\ ReservedClaims(a)' \subseteq Claims
    BY DEF HeldClaims, ReservedClaims, Live
<1>4. /\ balance[a].held = Cardinality(RecordUnits(verifications, HeldClaims(a)))
      /\ balance[a].reserved
           = Cardinality(RecordUnits(verifications, ReservedClaims(a)))
    BY DEF EscrowConservation, DepositSum, DepositUnits, RecordUnits
<1>5. /\ DepositSum(HeldClaims(a))'
           = Cardinality(RecordUnits(verifications', HeldClaims(a)'))
      /\ DepositSum(ReservedClaims(a))'
           = Cardinality(RecordUnits(verifications', ReservedClaims(a)'))
    BY DEF DepositSum, DepositUnits, RecordUnits
<1>6. balance'[a].held = Cardinality(RecordUnits(verifications', HeldClaims(a)'))
    BY <1>1, <1>2, <1>3, <1>4, SumFollows DEF TypeOK, HeldShare
<1>7. balance'[a].reserved
        = Cardinality(RecordUnits(verifications', ReservedClaims(a)'))
    BY <1>1, <1>2, <1>3, <1>4, SumFollows DEF TypeOK, ReservedShare
<1>8. QED
    BY <1>5, <1>6, <1>7

-----------------------------------------------------------------------------
(* Conservation by each operation.                                         *)

\* Releasing the deposit of a stored record takes exactly that deposit out
\* of its owner's hold (free_deposit) or reserve (release_reserved_deposit,
\* which does not saturate since the reserve covers the deposit).
LEMMA ReleaseShares ==
    ASSUME TypeOK, EscrowConservation, NEW c \in Claims, Live(c),
           ~ReleaseFails(c, verifications[c].deposit)
    PROVE  LET rel == Release(balance, c, verifications[c].deposit)
           IN  \A a \in Accounts :
                  /\ rel[a].held + HeldShare(a, c) = balance[a].held
                  /\ rel[a].reserved + ReservedShare(a, c) = balance[a].reserved
<1> DEFINE d == verifications[c].deposit
           o == d.owner
           b == balance[o]
           rel == Release(balance, c, d)
<1>1. /\ o \in Accounts /\ d.amount \in Nat
      /\ b \in [free : Nat, held : Nat, reserved : Nat]
    BY DEF TypeOK, Live, Record, Deposit, Balances
<1>2. c \notin migrated => d.amount <= b.reserved
    BY DepositCovered
<1>3. \A a \in Accounts :
         /\ HeldShare(a, c) = IF c \in migrated /\ a = o THEN d.amount ELSE 0
         /\ ReservedShare(a, c) = IF c \notin migrated /\ a = o THEN d.amount ELSE 0
    BY DEF HeldShare, ReservedShare, HeldClaims, ReservedClaims
<1>4. \A a \in Accounts \ {o} : rel[a] = balance[a]
    BY DEF Release, TypeOK, Balances
<1>5. c \in migrated =>
         rel[o] = [free |-> b.free + d.amount, held |-> b.held - d.amount,
                   reserved |-> b.reserved]
    BY <1>1 DEF Release, TypeOK, Balances
<1>6. c \notin migrated =>
         rel[o] = [free |-> b.free + d.amount, held |-> b.held,
                   reserved |-> b.reserved - d.amount]
    <2>1. c \notin migrated => b.reserved - SatSub(b.reserved, d.amount) = d.amount
        BY <1>1, <1>2 DEF SatSub
    <2>2. QED
        BY <1>1, <2>1 DEF Release, TypeOK, Balances
<1>7. SUFFICES ASSUME NEW a \in Accounts
             PROVE  /\ rel[a].held + HeldShare(a, c) = balance[a].held
                    /\ rel[a].reserved + ReservedShare(a, c) = balance[a].reserved
    OBVIOUS
<1>8. CASE a = o /\ c \in migrated
    BY <1>1, <1>3, <1>5, <1>8
<1>9. CASE a = o /\ c \notin migrated
    BY <1>1, <1>3, <1>6, <1>9
<1>10. CASE a # o
    <2>1. balance[a] \in [free : Nat, held : Nat, reserved : Nat]
        BY DEF TypeOK, Balances
    <2>2. QED
        BY <1>3, <1>4, <1>10, <2>1
<1>11. QED
    BY <1>8, <1>9, <1>10

\* remove and reclaim_deposit (remove_verification) conserve the escrow.
LEMMA RemoveEscrow ==
    ASSUME TypeOK, TypeOK', EscrowConservation, NEW c \in Claims, Live(c),
           ~ReleaseFails(c, verifications[c].deposit),
           RemoveVerification(verifications[c], c), UNCHANGED migrated
    PROVE  EscrowConservation'
<1> DEFINE rel == Release(balance, c, verifications[c].deposit)
<1>1. ~Live(c)'
    BY DEF RemoveVerification, Live, TypeOK
<1>2. \A a \in Accounts : HeldShare(a, c)' = 0 /\ ReservedShare(a, c)' = 0
    BY <1>1 DEF HeldShare, ReservedShare, HeldClaims, ReservedClaims
<1>3. \A a \in Accounts :
         /\ balance'[a].held + HeldShare(a, c) = balance[a].held
         /\ balance'[a].reserved + ReservedShare(a, c) = balance[a].reserved
    BY ReleaseShares DEF RemoveVerification
<1>4. \A e \in Claims \ {c} : verifications'[e] = verifications[e]
    BY DEF RemoveVerification, TypeOK
<1>5. QED
    BY <1>2, <1>3, <1>4, EscrowByClaim DEF TypeOK, Balances

\* change_deposit_owner and update_deposit conserve the escrow: the old
\* deposit leaves its owner's hold or reserve, the new one enters the new
\* owner's hold, and the key is migrated.
LEMMA ReplaceDepositEscrow ==
    ASSUME TypeOK, TypeOK', EscrowConservation, NEW c \in Claims,
           NEW owner \in Accounts, NEW amount \in Rates, Live(c),
           ReplaceDepositError(c, owner, amount) = "Ok",
           ReplaceDeposit(c, owner, amount)
    PROVE  EscrowConservation'
<1> DEFINE rel == Release(balance, c, verifications[c].deposit)
<1>1. ~ReleaseFails(c, verifications[c].deposit)
    BY DEF ReplaceDepositError
<1>2. \A a \in Accounts :
         /\ rel[a].held + HeldShare(a, c) = balance[a].held
         /\ rel[a].reserved + ReservedShare(a, c) = balance[a].reserved
    BY <1>1, ReleaseShares
<1>3. rel \in Balances
    BY <1>1, ReleaseType DEF TypeOK, Live, Record
<1>4. \A a \in Accounts :
         /\ balance'[a].held = rel[a].held + (IF a = owner THEN amount ELSE 0)
         /\ balance'[a].reserved = rel[a].reserved
    BY <1>3 DEF ReplaceDeposit, Hold, Balances
<1>5. /\ Live(c)' /\ c \in migrated'
      /\ verifications'[c].deposit = [owner |-> owner, amount |-> amount]
    <2> DEFINE nd == [owner |-> owner, amount |-> amount]
    <2>1. verifications[c] \in Record
        BY DEF Live, TypeOK
    <2>2. [verifications[c] EXCEPT !.deposit = nd] \in Record
        BY <2>1 DEF Record, Deposit
    <2>3. verifications'[c] = [verifications[c] EXCEPT !.deposit = nd]
        BY DEF ReplaceDeposit, TypeOK
    <2>4. Live(c)'
        BY <2>2, <2>3 DEF Live
    <2>5. verifications'[c].deposit = nd
        BY <2>1, <2>3 DEF Record
    <2>6. QED
        BY <2>4, <2>5 DEF ReplaceDeposit
<1>6. ASSUME NEW a \in Accounts
      PROVE  /\ HeldShare(a, c)' = IF a = owner THEN amount ELSE 0
             /\ ReservedShare(a, c)' = 0
    <2>1. (c \in HeldClaims(a) <=> a = owner)' /\ c \notin ReservedClaims(a)'
        BY <1>5 DEF HeldClaims, ReservedClaims
    <2>2. QED
        BY <1>5, <2>1 DEF HeldShare, ReservedShare
<1>7. \A e \in Claims \ {c} : verifications'[e] = verifications[e]
    BY DEF ReplaceDeposit, TypeOK
<1>8. migrated' \ {c} = migrated \ {c}
    BY DEF ReplaceDeposit
<1>9. \A a \in Accounts :
         /\ balance'[a].held + HeldShare(a, c)
              = balance[a].held + HeldShare(a, c)'
         /\ balance'[a].reserved + ReservedShare(a, c)
              = balance[a].reserved + ReservedShare(a, c)'
    <2> SUFFICES ASSUME NEW a \in Accounts
                 PROVE  /\ balance'[a].held + HeldShare(a, c)
                              = balance[a].held + HeldShare(a, c)'
                        /\ balance'[a].reserved + ReservedShare(a, c)
                              = balance[a].reserved + ReservedShare(a, c)'
        OBVIOUS
    <2>1. rel[a] \in [free : Nat, held : Nat, reserved : Nat] /\ amount \in Nat
        BY <1>3 DEF Balances
    <2>3. HeldShare(a, c) \in Nat /\ ReservedShare(a, c) \in Nat
        BY DEF HeldShare, ReservedShare, TypeOK, Live, Record, Deposit
    <2>2. QED
        BY <1>2, <1>4, <1>6, <2>1, <2>3
<1>10. QED
    BY <1>7, <1>8, <1>9, EscrowByClaim

\* A step that leaves the records, the balances and the schemes alone
\* (a failed call, a runtime upgrade) conserves the escrow.
LEMMA UnchangedEscrow ==
    ASSUME EscrowConservation, UNCHANGED <<verifications, balance, migrated>>
    PROVE  EscrowConservation'
BY DEF EscrowConservation, DepositSum, DepositUnits, HeldClaims,
       ReservedClaims, Live

\* A successful add holds the deposit for a claim that had no record, and
\* its key is excluded from migration: the deposit enters the sender's hold.
LEMMA AddEscrow ==
    ASSUME TypeOK, TypeOK', EscrowConservation, NEW sender \in Accounts,
           NEW who \in Attesters, NEW c \in Claims, NEW k \in CTypes,
           NEW tok \in Tokens \cup {NoToken},
           AddError(sender, who, c, k, tok) = "Ok", Add(sender, who, c, k, tok)
    PROVE  EscrowConservation'
<1> DEFINE authId == IF tok = NoToken THEN NoAuth ELSE AuthIdOf[tok]
           nv == [ctype |-> k, attester |-> who, authId |-> authId,
                  revoked |-> FALSE,
                  deposit |-> [owner |-> sender, amount |-> rate]]
<1>1. /\ balance' = Hold(balance, sender, rate)
      /\ migrated' = migrated \cup {c}
      /\ verifications' = [verifications EXCEPT ![c] = nv]
    BY DEF Add, Fail
<1>2. nv \in Record /\ rate \in Nat
    BY DEF Record, Deposit, TypeOK
<1>3. /\ ~Live(c) /\ Live(c)' /\ c \in migrated'
      /\ verifications'[c].deposit = [owner |-> sender, amount |-> rate]
      /\ \A e \in Claims \ {c} : verifications'[e] = verifications[e]
    BY <1>1, <1>2 DEF AddError, Live, TypeOK
<1>4. \A a \in Accounts :
         /\ HeldShare(a, c) = 0 /\ ReservedShare(a, c) = 0
         /\ HeldShare(a, c)' = IF a = sender THEN rate ELSE 0
         /\ ReservedShare(a, c)' = 0
    BY <1>3 DEF HeldShare, ReservedShare, HeldClaims, ReservedClaims
<1>5. \A a \in Accounts :
         /\ balance'[a].held = balance[a].held + (IF a = sender THEN rate ELSE 0)
         /\ balance'[a].reserved = balance[a].reserved
    BY <1>1 DEF Hold, TypeOK, Balances
<1>6. \A a \in Accounts :
         balance[a].held \in Nat /\ balance[a].reserved \in Nat
    BY DEF TypeOK, Balances
<1>7. QED
    BY <1>1, <1>2, <1>3, <1>4, <1>5, <1>6, EscrowByClaim

\* A successful revoke sets the flag and keeps the deposit.
LEMMA RevokeEscrow ==
    ASSUME TypeOK, TypeOK', EscrowConservation, NEW who \in Attesters,
           NEW c \in Claims, NEW tok \in Tokens \cup {NoToken},
           RevokeError(who, c, tok) = "Ok", Revoke(who, c, tok)
    PROVE  EscrowConservation'
<1> DEFINE v == verifications[c]
<1>1. /\ verifications' = [verifications EXCEPT ![c].revoked = TRUE]
      /\ UNCHANGED <<balance, migrated>>
    BY DEF Revoke, Fail
<1>2. v \in Record
    BY DEF RevokeError, Live, TypeOK
<1>3. /\ verifications'[c] = [v EXCEPT !.revoked = TRUE]
      /\ [v EXCEPT !.revoked = TRUE] \in Record
      /\ \A e \in Claims \ {c} : verifications'[e] = verifications[e]
    BY <1>1, <1>2 DEF Record, TypeOK
<1>4. Live(c)' /\ verifications'[c].deposit = v.deposit
    BY <1>2, <1>3 DEF Live, Record
<1>5. \A a \in Accounts :
         HeldShare(a, c)' = HeldShare(a, c) /\ ReservedShare(a, c)' = ReservedShare(a, c)
    BY <1>1, <1>4 DEF HeldShare, ReservedShare, HeldClaims, ReservedClaims,
                      RevokeError, Live
<1>6. \A a \in Accounts :
         /\ balance[a].held \in Nat /\ balance[a].reserved \in Nat
         /\ HeldShare(a, c) \in Nat /\ ReservedShare(a, c) \in Nat
    BY <1>2 DEF TypeOK, Balances, HeldShare, ReservedShare, Record, Deposit
<1>7. QED
    BY <1>1, <1>3, <1>5, <1>6, EscrowByClaim

\* The migration manager moves a legacy deposit from its owner's reserve
\* to its owner's hold.
LEMMA MigrateEscrow ==
    ASSUME TypeOK, TypeOK', EscrowConservation, NEW c \in Claims, Migrate(c)
    PROVE  EscrowConservation'
<1> DEFINE d == verifications[c].deposit
           o == d.owner
<1>1. /\ Live(c) /\ c \notin migrated /\ migrated' = migrated \cup {c}
      /\ UNCHANGED verifications
      /\ balance' = [balance EXCEPT ![o] =
                       [free |-> @.free, held |-> @.held + d.amount,
                        reserved |-> @.reserved - d.amount]]
    BY DEF Migrate
<1>2. o \in Accounts /\ d.amount \in Nat
    BY <1>1 DEF TypeOK, Live, Record, Deposit
<1>3. \A a \in Accounts :
         /\ HeldShare(a, c) = 0
         /\ ReservedShare(a, c) = IF a = o THEN d.amount ELSE 0
         /\ HeldShare(a, c)' = IF a = o THEN d.amount ELSE 0
         /\ ReservedShare(a, c)' = 0
    BY <1>1 DEF HeldShare, ReservedShare, HeldClaims, ReservedClaims, Live
<1>4. \A a \in Accounts :
         /\ balance'[a].held = balance[a].held + (IF a = o THEN d.amount ELSE 0)
         /\ balance'[a].reserved
              = balance[a].reserved - (IF a = o THEN d.amount ELSE 0)
         /\ balance[a].held \in Nat /\ balance[a].reserved \in Nat
    BY <1>1, <1>2 DEF TypeOK, Balances
<1>5. QED
    BY <1>1, <1>2, <1>3, <1>4, EscrowByClaim

-----------------------------------------------------------------------------
(* The theorems.                                                           *)

\* Every step of the pallet conserves the escrow.
LEMMA EscrowStep ==
    ASSUME TypeOK, TypeOK', EscrowConservation, [Next]_vars
    PROVE  EscrowConservation'
<1>1. CASE UNCHANGED vars
    BY <1>1, UnchangedEscrow DEF vars
<1>2. ASSUME NEW sender \in Accounts, NEW who \in Attesters, NEW c \in Claims,
             NEW k \in CTypes, NEW tok \in Tokens \cup {NoToken},
             Add(sender, who, c, k, tok)
      PROVE  EscrowConservation'
    <2>1. CASE AddError(sender, who, c, k, tok) = "Ok"
        BY <1>2, <2>1, AddEscrow
    <2>2. CASE AddError(sender, who, c, k, tok) # "Ok"
        BY <1>2, <2>2, UnchangedEscrow DEF Add, Fail
    <2>3. QED
        BY <2>1, <2>2
<1>3. ASSUME NEW who \in Attesters, NEW c \in Claims,
             NEW tok \in Tokens \cup {NoToken}, Revoke(who, c, tok)
      PROVE  EscrowConservation'
    <2>1. CASE RevokeError(who, c, tok) = "Ok"
        BY <1>3, <2>1, RevokeEscrow
    <2>2. CASE RevokeError(who, c, tok) # "Ok"
        BY <1>3, <2>2, UnchangedEscrow DEF Revoke, Fail
    <2>3. QED
        BY <2>1, <2>2
<1>4. ASSUME NEW who \in Attesters, NEW c \in Claims,
             NEW tok \in Tokens \cup {NoToken}, Remove(who, c, tok)
      PROVE  EscrowConservation'
    <2>1. CASE RemoveError(who, c, tok) = "Ok"
        <3>1. RemoveVerification(verifications[c], c) /\ UNCHANGED migrated
            BY <1>4, <2>1 DEF Remove, Fail
        <3>2. Live(c) /\ ~ReleaseFails(c, verifications[c].deposit)
            BY <2>1, RemoveOk DEF Live
        <3>3. QED
            BY <3>1, <3>2, RemoveEscrow
    <2>2. CASE RemoveError(who, c, tok) # "Ok"
        BY <1>4, <2>2, UnchangedEscrow DEF Remove, Fail
    <2>3. QED
        BY <2>1, <2>2
<1>5. ASSUME NEW sender \in Accounts, NEW c \in Claims, ReclaimDeposit(sender, c)
      PROVE  EscrowConservation'
    <2>1. CASE ReclaimError(sender, c) = "Ok"
        <3>1. RemoveVerification(verifications[c], c) /\ UNCHANGED migrated
            BY <1>5, <2>1 DEF ReclaimDeposit, Fail
        <3>2. Live(c) /\ ~ReleaseFails(c, verifications[c].deposit)
            BY <2>1, RemoveOk DEF Live
        <3>3. QED
            BY <3>1, <3>2, RemoveEscrow
    <2>2. CASE ReclaimError(sender, c) # "Ok"
        BY <1>5, <2>2, UnchangedEscrow DEF ReclaimDeposit, Fail
    <2>3. QED
        BY <2>1, <2>2
<1>6. ASSUME NEW sender \in Accounts, NEW c \in Claims, UpdateDeposit(sender, c)
      PROVE  EscrowConservation'
    <2>1. CASE UpdateDepositError(sender, c) = "Ok"
        <3>1. /\ Live(c) /\ ReplaceDepositError(c, sender, rate) = "Ok"
              /\ ReplaceDeposit(c, sender, rate) /\ rate \in Rates
            BY <1>6, <2>1 DEF UpdateDeposit, UpdateDepositError, Fail, TypeOK
        <3>2. QED
            BY <3>1, ReplaceDepositEscrow
    <2>2. CASE UpdateDepositError(sender, c) # "Ok"
        BY <1>6, <2>2, UnchangedEscrow DEF UpdateDeposit, Fail
    <2>3. QED
        BY <2>1, <2>2
<1>7. ASSUME NEW sender \in Accounts, NEW subject \in Attesters,
             NEW c \in Claims, ChangeDepositOwner(sender, subject, c)
      PROVE  EscrowConservation'
    <2> DEFINE amount == verifications[c].deposit.amount
    <2>1. CASE ChangeDepositOwnerError(sender, subject, c) = "Ok"
        <3>1. /\ Live(c) /\ ReplaceDepositError(c, sender, amount) = "Ok"
              /\ ReplaceDeposit(c, sender, amount)
            BY <1>7, <2>1 DEF ChangeDepositOwner, ChangeDepositOwnerError, Fail
        <3>2. amount \in Rates
            BY <3>1 DEF Live, TypeOK, Record, Deposit
        <3>3. QED
            BY <3>1, <3>2, ReplaceDepositEscrow
    <2>2. CASE ChangeDepositOwnerError(sender, subject, c) # "Ok"
        BY <1>7, <2>2, UnchangedEscrow DEF ChangeDepositOwner, Fail
    <2>3. QED
        BY <2>1, <2>2
<1>8. ASSUME NEW c \in Claims, Migrate(c)
      PROVE  EscrowConservation'
    BY <1>8, MigrateEscrow
<1>9. ASSUME NEW r \in Rates, RuntimeUpgrade(r)
      PROVE  EscrowConservation'
    BY <1>9, UnchangedEscrow DEF RuntimeUpgrade
<1>10. QED
    BY <1>1, <1>2, <1>3, <1>4, <1>5, <1>6, <1>7, <1>8, <1>9 DEF Next

\* Escrow conservation: from a genesis in which every account's hold and
\* reserve are the sums of the deposits it owns in each scheme, no sequence
\* of add, revoke, remove, reclaim_deposit, change_deposit_owner,
\* update_deposit, migrations and runtime upgrades releases a deposit twice,
\* leaves one orphaned, or releases it from the scheme it is not in.
THEOREM EscrowCorrect == Spec /\ EscrowConservation => []EscrowConservation
<1>1. TypeOK /\ TypeOK' /\ EscrowConservation /\ [Next]_vars
        => EscrowConservation'
    BY EscrowStep
<1>2. QED
    BY <1>1, TypeCorrect, PTL DEF Spec

\* A legacy record's deposit is reserved in full on its owner's account:
\* release_reserved_deposit unreserves saturating at what is reserved
\* (lib.rs:503).  This is a consequence of EscrowConservation, stated on its
\* own because the refinement proof uses it.
ReserveCovers ==
    \A c \in Claims :
        Live(c) /\ c \notin migrated =>
            verifications[c].deposit.amount
                <= balance[verifications[c].deposit.owner].reserved

\* From such a genesis, the deposit of every legacy record stays reserved
\* in full on its owner, so release_reserved_deposit (lib.rs:503) never
\* saturates.
LEMMA ReserveCorrect == Spec /\ EscrowConservation => []ReserveCovers
<1>1. TypeOK /\ EscrowConservation => ReserveCovers
    <2> SUFFICES ASSUME TypeOK, EscrowConservation, NEW c \in Claims,
                        Live(c), c \notin migrated
                 PROVE  verifications[c].deposit.amount
                          <= balance[verifications[c].deposit.owner].reserved
        BY DEF ReserveCovers
    <2> QED
        BY DepositCovered
<1>2. QED
    BY <1>1, EscrowCorrect, TypeCorrect, PTL

====
