---------------------------- MODULE TokenTables ----------------------------
(***************************************************************************)
(* The tables that say which token is which contract on which network: of  *)
(* the wizard, by the version of Raiden's contracts, of Kyber, and of the  *)
(* settings of the wizards.  Addresses are shortened to their beginnings.  *)
(***************************************************************************)
EXTENDS Integers

\* Functions as sets of pairs, as the tables leave tokens and networks out.
Entry(table, key) == {e[2] : e \in {f \in table : f[1] = key}}

-----------------------------------------------------------------------------
(* Networks *)

ChainIds ==
  {<<"mainnet", 1>>, <<"ropsten", 3>>, <<"rinkeby", 4>>, <<"goerli", 5>>, <<"kovan", 42>>}

\* CHAIN_ID_MAPPING[name]; a name without a class ends in a KeyError.
ChainId(name) == Entry(ChainIds, name)

\* get_by_chain_id
Names(id) == {e[1] : e \in {f \in ChainIds : f[2] = id}}

-----------------------------------------------------------------------------
(* The tokens of the wizard *)

MainnetRDN == <<"mainnet", "0x255aa6df">>

DAI == {<<"mainnet", "0x6b175474">>, <<"kovan", "0x4f96fe3b">>}
WIZ == {<<"goerli", "0x95b2d84d">>}
SVT == {<<"goerli", "0x5fc523e1">>}

Unversioned ==
  {<<"RDN", {MainnetRDN, <<"goerli", "0x70911812">>, <<"ropsten", "0x5422ef69">>,
             <<"rinkeby", "0x51892e7e">>, <<"kovan", "0x3a031556">>}>>,
   <<"DAI", DAI>>, <<"WIZ", WIZ>>}

Versioned ==
  {<<"0.25", {<<"RDN", {MainnetRDN, <<"goerli", "0x3a989d97">>}>>}>>,
   <<"0.33", {<<"RDN", {MainnetRDN, <<"goerli", "0x70911812">>}>>,
              <<"DAI", DAI>>, <<"WIZ", WIZ>>}>>,
   <<"0.36", {<<"RDN", {<<"goerli", "0x4074fd4d">>}>>, <<"DAI", DAI>>, <<"WIZ", WIZ>>}>>,
   <<"0.37", {<<"RDN", {MainnetRDN}>>, <<"SVT", SVT>>, <<"DAI", DAI>>, <<"WIZ", WIZ>>}>>}

\* find_by_ticker: the addresses of a token, none if it raises TokenError.
Find(version, ticker, network) ==
  LET tables == IF Entry(Versioned, version) = {} THEN {Unversioned}
                ELSE Entry(Versioned, version) IN
  UNION {Entry(data, network) : data \in UNION {Entry(t, ticker) : t \in tables}}

-----------------------------------------------------------------------------
(* The tokens of Kyber, those of them that a wizard knows *)

Ether == <<"ETH", "0xeeeeeeee">>
KyberMainnet == {Ether, <<"RDN", "0x255aa6df">>, <<"DAI", "0x6b175474">>}
KyberRopsten == {Ether, <<"RDN", "0x5422ef69">>, <<"DAI", "0xad6d4584">>}
KyberRinkeby == {Ether}
KyberKovan == {Ether, <<"DAI", "0x4f96fe3b">>}

Kyber == {<<1, KyberMainnet>>, <<3, KyberRopsten>>, <<4, KyberRinkeby>>, <<42, KyberKovan>>}

\* get_token_network_address; without one Kyber is not listing the token.
KyberAddress(id, ticker) == UNION {Entry(t, ticker) : t \in Entry(Kyber, id)}

KyberLists(id, ticker) == KyberAddress(id, ticker) # {}

-----------------------------------------------------------------------------
(* Settings *)

Setting(network, service, transfer) ==
  [network |-> network, service_token |-> service, transfer_token |-> transfer]

Settings ==
  [mainnet |-> Setting("mainnet", "RDN", "DAI"), nightly |-> Setting("mainnet", "RDN", "DAI"),
   demo_env |-> Setting("goerli", "SVT", "WIZ"), goerli |-> Setting("goerli", "SVT", "WIZ"),
   kovan |-> Setting("kovan", "RDN", "DAI"), ropsten |-> Setting("ropsten", "RDN", "DAI")]

\* RequiredAmounts.from_settings and SwapAmounts.from_settings need both tokens.
Usable(version, s) ==
  /\ Find(version, s.service_token, s.network) # {}
  /\ Find(version, s.transfer_token, s.network) # {}
=============================================================================
