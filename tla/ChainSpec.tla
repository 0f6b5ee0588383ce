----------------------------- MODULE ChainSpec -----------------------------
(***************************************************************************)
(* Chain-spec selection of the parachain node: the id given on the command *)
(* line is parsed by ParachainRuntime::from_str (chain_spec/mod.rs) and    *)
(* load_spec (chain_spec/utils.rs) picks the chain spec to build or read.  *)
(*                                                                         *)
(* An id is abstracted to a sequence of words: each word is either one of  *)
(* the literal ids that have an arm of their own, or "text", standing for  *)
(* any text that contains neither "parachain-testnet" nor                  *)
(* "parachain-mainnet" and does not, joined to its neighbours, spell a     *)
(* literal.  An id equals a literal exactly when it is that one word, and  *)
(* it contains a pattern exactly when one of its words does.  This keeps   *)
(* what the match arms tell apart: which literal an id is, and which of    *)
(* the two patterns it contains.                                           *)
(***************************************************************************)
EXTENDS Naturals, Sequences

CONSTANTS MaxWords  \* longest id, in words

ASSUME MaxWordsAssumption == MaxWords \in Nat \ {0}

TestnetLiterals == {"dev", "parachain-testnet-dev", "parachain-testnet-new",
                    "parachain-testnet", "parachain-testnet-stg",
                    "standalone", "standalone-new"}
MainnetLiterals == {"parachain-mainnet-dev", "parachain-mainnet-new",
                    "parachain-mainnet"}
Literals == TestnetLiterals \cup MainnetLiterals

Words == Literals \cup {"text"}

Ids == UNION {[1 .. n -> Words] : n \in 1 .. MaxWords}

\* The words that contain each pattern.
HasTestnet == {"parachain-testnet-dev", "parachain-testnet-new",
               "parachain-testnet", "parachain-testnet-stg"}
HasMainnet == MainnetLiterals

\* s.contains(pattern), for the word set of a pattern.
Contains(id, has) == \E i \in DOMAIN id : id[i] \in has

IsLiteral(id, l) == id = <<l>>

(* ParachainTestnetRuntime, ParachainMainnetRuntime, ParachainRuntime.     *)
TestnetVariants == {"Dev", "ParachainTestnet", "ParachainTestnetStg", "New",
                    "Standalone", "StandaloneNew", "Other"}
MainnetVariants == {"Dev", "ParachainMainnet", "New", "Other"}
NamedTestnet == TestnetVariants \ {"Other"}
NamedMainnet == MainnetVariants \ {"Other"}
NoPath == <<>>
Runtimes ==
    [family : {"testnet"}, variant : TestnetVariants, path : Ids \cup {NoPath}]
    \cup
    [family : {"mainnet"}, variant : MainnetVariants, path : Ids \cup {NoPath}]

Testnet(v) == [family |-> "testnet", variant |-> v, path |-> NoPath]
Mainnet(v) == [family |-> "mainnet", variant |-> v, path |-> NoPath]
Other(f, id) == [family |-> f, variant |-> "Other", path |-> id]

\* The literal arms of from_str, each block in the order of the match.
TestnetArms == [l \in TestnetLiterals |->
    CASE l \in {"dev", "parachain-testnet-dev"} -> "Dev"
      [] l = "parachain-testnet-new"             -> "New"
      [] l = "parachain-testnet"                 -> "ParachainTestnet"
      [] l = "parachain-testnet-stg"             -> "ParachainTestnetStg"
      [] l = "standalone"                        -> "Standalone"
      [] l = "standalone-new"                    -> "StandaloneNew"]
MainnetArms == [l \in MainnetLiterals |->
    CASE l = "parachain-mainnet-dev" -> "Dev"
      [] l = "parachain-mainnet-new" -> "New"
      [] l = "parachain-mainnet"     -> "ParachainMainnet"]

\* Mutant: the catch-all testnet arm is tried before the literal arms.
FromStrContainsFirst(id) ==
    IF Contains(id, HasTestnet) THEN Other("testnet", id)
    ELSE IF \E l \in TestnetLiterals : IsLiteral(id, l)
         THEN Testnet(TestnetArms[id[1]])
    ELSE IF \E l \in MainnetLiterals : IsLiteral(id, l)
         THEN Mainnet(MainnetArms[id[1]])
    ELSE IF Contains(id, HasMainnet) THEN Other("mainnet", id)
    ELSE Other("testnet", id)

\* ParachainRuntime::from_str: never an error; an id no arm names falls
\* back to the testnet runtime.
FromStr(id) ==
    IF \E l \in TestnetLiterals : IsLiteral(id, l)
       THEN Testnet(TestnetArms[id[1]])
    ELSE IF Contains(id, HasTestnet) THEN Other("testnet", id)
    ELSE IF \E l \in MainnetLiterals : IsLiteral(id, l)
       THEN Mainnet(MainnetArms[id[1]])
    ELSE IF Contains(id, HasMainnet) THEN Other("mainnet", id)
    ELSE Other("testnet", id)

(* load_spec: the chain spec type it builds and where it comes from: a     *)
(* generator, a JSON file embedded at build time, or a file read at run    *)
(* time from the id as a path.                                             *)
Loaders ==
    [type : {"testnet", "standalone", "mainnet"},
     source : {"generate-dev", "generate-new", "paseo.json", "stg.json",
               "standalone.json", "mainnet.json", "load_chain_spec"},
     path : Ids \cup {NoPath}]

L(t, src) == [type |-> t, source |-> src, path |-> NoPath]

\* Mutant: the standalone spec is decoded with the mainnet spec type.
TestnetLoadersStandaloneMainnet == [v \in NamedTestnet |->
    CASE v = "Dev"                 -> L("testnet", "generate-dev")
      [] v = "New"                 -> L("testnet", "generate-new")
      [] v = "ParachainTestnet"    -> L("testnet", "paseo.json")
      [] v = "ParachainTestnetStg" -> L("testnet", "stg.json")
      [] v = "Standalone"          -> L("mainnet", "standalone.json")
      [] v = "StandaloneNew"       -> L("standalone", "generate-new")]

\* The arms of load_spec for the named variants.
TestnetLoaders == [v \in NamedTestnet |->
    CASE v = "Dev"                 -> L("testnet", "generate-dev")
      [] v = "New"                 -> L("testnet", "generate-new")
      [] v = "ParachainTestnet"    -> L("testnet", "paseo.json")
      [] v = "ParachainTestnetStg" -> L("testnet", "stg.json")
      [] v = "Standalone"          -> L("testnet", "standalone.json")
      [] v = "StandaloneNew"       -> L("standalone", "generate-new")]
MainnetLoaders == [v \in NamedMainnet |->
    CASE v = "Dev"              -> L("mainnet", "generate-dev")
      [] v = "New"              -> L("mainnet", "generate-new")
      [] v = "ParachainMainnet" -> L("mainnet", "mainnet.json")]

\* load_spec: an Other variant reads the id as a path with its family's
\* load_chain_spec; every other variant has an arm of its own.
Loader(rt) ==
    IF rt.variant = "Other"
    THEN [type |-> rt.family, source |-> "load_chain_spec", path |-> rt.path]
    ELSE IF rt.family = "testnet" THEN TestnetLoaders[rt.variant]
    ELSE MainnetLoaders[rt.variant]

\* Only the generators cannot fail: from_json_bytes of an embedded JSON and
\* load_chain_spec of a file may both return an error, which `?` passes up.
MayFail(loader) == loader.source \notin {"generate-dev", "generate-new"}

-----------------------------------------------------------------------------
VARIABLES id, result

vars == <<id, result>>

Pending == [status |-> "pending"]

Results ==
    {Pending} \cup
    [status : {"Ok", "Err"}, runtime : Runtimes, loader : Loaders]

Init ==
    /\ id \in Ids
    /\ result = Pending

\* load_spec(id): parse, pick the loader, build or read the spec.
LoadSpec ==
    /\ result = Pending
    /\ LET rt == FromStr(id)
           ld == Loader(rt)
       IN  \E st \in IF MayFail(ld) THEN {"Ok", "Err"} ELSE {"Ok"} :
              result' = [status |-> st, runtime |-> rt, loader |-> ld]
    /\ UNCHANGED id

Next == LoadSpec

Spec == Init /\ [][Next]_vars

-----------------------------------------------------------------------------
(* Properties.                                                             *)

\* What from_str is meant to select, stated per id instead of per arm:
\* every literal id gets the runtime its own arm names, and any other id
\* gets the mainnet runtime exactly when it contains "parachain-mainnet"
\* and not "parachain-testnet", else the testnet runtime.
LiteralRuntime == [l \in Literals |->
                     IF l \in MainnetLiterals THEN Mainnet(MainnetArms[l])
                     ELSE Testnet(TestnetArms[l])]
Reference(i) ==
    IF i \in {<<l>> : l \in Literals} THEN LiteralRuntime[i[1]]
    ELSE Other(IF Contains(i, HasMainnet) /\ ~Contains(i, HasTestnet)
               THEN "mainnet" ELSE "testnet", i)

\* load_spec selects the reference runtime for every id: no literal arm is
\* shadowed by a catch-all `contains` arm placed before it.
SelectsReference ==
    result # Pending => result.runtime = Reference(id)

\* The chain spec load_spec builds is of its runtime's family (a mainnet
\* runtime never gets a testnet spec and the reverse; the standalone
\* variants use testnet or standalone specs), and a file is read only for
\* an id that names no literal, from the path the id itself gives.
LoaderMatchesRuntime ==
    result # Pending =>
        /\ (result.runtime.family = "mainnet") <=> (result.loader.type = "mainnet")
        /\ result.loader.source = "load_chain_spec" =>
              /\ id \notin {<<l>> : l \in Literals}
              /\ result.loader.path = id

=============================================================================
