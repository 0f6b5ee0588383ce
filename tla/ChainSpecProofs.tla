--------------------------- MODULE ChainSpecProofs --------------------------
(***************************************************************************)
(* Proofs about the chain-spec selection of the parachain node, for every  *)
(* bound MaxWords on the length of an id.                                  *)
(***************************************************************************)
EXTENDS ChainSpec, TLAPS

USE MaxWordsAssumption

\* The literal ids are ten distinct words, none of them "text".
LEMMA LiteralsDistinct ==
    /\ TestnetLiterals \cap MainnetLiterals = {}
    /\ "text" \notin Literals
    /\ HasTestnet \subseteq TestnetLiterals
BY DEF TestnetLiterals, MainnetLiterals, Literals, HasTestnet

\* An id is a literal id exactly when it is that single word.
LEMMA IsLiteralSingle ==
    ASSUME NEW i \in Ids, NEW l \in Literals, IsLiteral(i, l)
    PROVE  /\ i[1] = l
           /\ i \in {<<m>> : m \in Literals}
           /\ Contains(i, HasTestnet) <=> l \in HasTestnet
           /\ Contains(i, HasMainnet) <=> l \in HasMainnet
BY DEF IsLiteral, Contains

\* from_str selects the reference runtime: the order of the arms never
\* lets a `contains` arm shadow a literal, and the mainnet `contains` arm
\* is reached only by ids that do not contain "parachain-testnet".
LEMMA FromStrReference ==
    ASSUME NEW i \in Ids
    PROVE  FromStr(i) = Reference(i)
<1>1. CASE \E l \in TestnetLiterals : IsLiteral(i, l)
    <2>1. PICK l \in TestnetLiterals : IsLiteral(i, l)
        BY <1>1
    <2>2. i[1] = l /\ i \in {<<m>> : m \in Literals} /\ l \notin MainnetLiterals
        BY <2>1, IsLiteralSingle, LiteralsDistinct DEF Literals
    <2>3. QED
        BY <1>1, <2>2 DEF FromStr, Reference, LiteralRuntime, Literals
<1>2. CASE \E l \in MainnetLiterals : IsLiteral(i, l)
    <2>1. PICK l \in MainnetLiterals : IsLiteral(i, l)
        BY <1>2
    <2>2. /\ i[1] = l /\ i \in {<<m>> : m \in Literals}
          /\ ~Contains(i, HasTestnet)
          /\ ~\E m \in TestnetLiterals : IsLiteral(i, m)
        <3>1. l \in Literals /\ l \notin HasTestnet /\ l \notin TestnetLiterals
            BY LiteralsDistinct DEF Literals
        <3>2. QED
            BY <2>1, <3>1, IsLiteralSingle DEF IsLiteral
    <2>3. QED
        BY <1>2, <2>1, <2>2 DEF FromStr, Reference, LiteralRuntime, Literals
<1>3. CASE ~\E l \in Literals : IsLiteral(i, l)
    <2>1. /\ i \notin {<<m>> : m \in Literals}
          /\ ~\E l \in TestnetLiterals : IsLiteral(i, l)
          /\ ~\E l \in MainnetLiterals : IsLiteral(i, l)
        BY <1>3 DEF IsLiteral, Literals
    <2>2. QED
        BY <2>1 DEF FromStr, Reference
<1>4. QED
    BY <1>1, <1>2, <1>3 DEF Literals

\* Every named arm of load_spec builds or decodes a spec of its own family
\* (testnet or standalone for the testnet runtime, mainnet for the mainnet
\* runtime) and never reads a file.
LEMMA NamedLoaders ==
    /\ \A l \in TestnetLiterals :
          /\ TestnetArms[l] # "Other"
          /\ TestnetLoaders[TestnetArms[l]].type # "mainnet"
          /\ TestnetLoaders[TestnetArms[l]].source # "load_chain_spec"
    /\ \A l \in MainnetLiterals :
          /\ MainnetArms[l] # "Other"
          /\ MainnetLoaders[MainnetArms[l]].type = "mainnet"
          /\ MainnetLoaders[MainnetArms[l]].source # "load_chain_spec"
<1>1. \A l \in TestnetLiterals : TestnetArms[l] \in NamedTestnet
    BY DEF TestnetLiterals, TestnetArms, NamedTestnet, TestnetVariants
<1>2. \A v \in NamedTestnet :
         /\ TestnetLoaders[v].type # "mainnet"
         /\ TestnetLoaders[v].source # "load_chain_spec"
    BY DEF TestnetLoaders, L, NamedTestnet, TestnetVariants
<1>3. \A l \in MainnetLiterals : MainnetArms[l] \in NamedMainnet
    BY DEF MainnetLiterals, MainnetArms, NamedMainnet, MainnetVariants
<1>4. \A v \in NamedMainnet :
         /\ MainnetLoaders[v].type = "mainnet"
         /\ MainnetLoaders[v].source # "load_chain_spec"
    BY DEF MainnetLoaders, L, NamedMainnet, MainnetVariants
<1>5. QED
    BY <1>1, <1>2, <1>3, <1>4 DEF NamedTestnet, NamedMainnet

\* What load_spec does with the runtime from_str selects for an id.
LEMMA LoaderOfId ==
    ASSUME NEW i \in Ids
    PROVE  LET rt == FromStr(i)
               ld == Loader(rt)
           IN  /\ (rt.family = "mainnet") <=> (ld.type = "mainnet")
               /\ ld.source = "load_chain_spec" =>
                     /\ i \notin {<<l>> : l \in Literals}
                     /\ ld.path = i
<1>1. CASE \E l \in TestnetLiterals : IsLiteral(i, l)
    <2>1. PICK l \in TestnetLiterals : IsLiteral(i, l)
        BY <1>1
    <2>2. i[1] = l
        BY <2>1, IsLiteralSingle DEF Literals
    <2>3. FromStr(i) = Testnet(TestnetArms[l])
        BY <1>1, <2>2 DEF FromStr
    <2>4. QED
        BY <2>3, NamedLoaders DEF Testnet, Loader
<1>2. CASE \E l \in MainnetLiterals : IsLiteral(i, l)
    <2>1. PICK l \in MainnetLiterals : IsLiteral(i, l)
        BY <1>2
    <2>2. /\ FromStr(i) = Reference(i) /\ i[1] = l /\ l \in Literals
          /\ i \in {<<m>> : m \in Literals}
        BY <2>1, IsLiteralSingle, FromStrReference DEF Literals
    <2>3. FromStr(i) = Mainnet(MainnetArms[l])
        BY <2>2, LiteralsDistinct DEF Reference, LiteralRuntime
    <2>4. QED
        BY <2>3, NamedLoaders DEF Mainnet, Loader
<1>3. CASE ~\E l \in Literals : IsLiteral(i, l)
    <2>1. /\ i \notin {<<m>> : m \in Literals}
          /\ ~\E l \in TestnetLiterals : IsLiteral(i, l)
          /\ ~\E l \in MainnetLiterals : IsLiteral(i, l)
        BY <1>3 DEF IsLiteral, Literals
    <2>2. \E f \in {"testnet", "mainnet"} : FromStr(i) = Other(f, i)
        BY <2>1 DEF FromStr
    <2>3. QED
        BY <2>1, <2>2 DEF Other, Loader
<1>4. QED
    BY <1>1, <1>2, <1>3 DEF Literals

-----------------------------------------------------------------------------
(* The invariants.                                                         *)

\* Once load_spec has run, its result is what from_str and the arm of
\* load_spec give for the id.
Inv ==
    /\ id \in Ids
    /\ \/ result = Pending
       \/ /\ result.runtime = FromStr(id)
          /\ result.loader = Loader(FromStr(id))

\* Inv holds from the start and load_spec keeps it.
LEMMA InvInductive == Spec => []Inv
<1>1. Init => Inv
    BY DEF Init, Inv
<1>2. Inv /\ [Next]_vars => Inv'
    BY DEF Inv, Next, LoadSpec, vars
<1>3. QED
    BY <1>1, <1>2, PTL DEF Spec

\* For every bound on the length of ids, load_spec selects the reference
\* runtime of the id it is given: no literal is shadowed by a `contains`
\* arm, and a mainnet path is told apart from a testnet one as stated.
THEOREM SelectsReferenceCorrect == Spec => []SelectsReference
<1>1. Inv => SelectsReference
    BY FromStrReference DEF Inv, SelectsReference
<1>2. QED
    BY <1>1, InvInductive, PTL

\* For every bound on the length of ids, the spec load_spec builds is of
\* its runtime's family, and a file is read only for a non-literal id,
\* at the path the id gives.
THEOREM LoaderCorrect == Spec => []LoaderMatchesRuntime
<1>1. Inv => LoaderMatchesRuntime
    BY LoaderOfId DEF Inv, LoaderMatchesRuntime
<1>2. QED
    BY <1>1, InvInductive, PTL

====
