-------------------------- MODULE MCCovenantChain --------------------------
(***************************************************************************)
(* A small instance of CovenantChain: an ordinal to sell, ordinals and     *)
(* tokens held by one owner or by two together, and coins that move by     *)
(* themselves, each with what it takes to pay for them.                    *)
(***************************************************************************)
EXTENDS CovenantChain

\* One preimage in three makes a clean signature, whatever is in it.
MCClean(p) ==
  (p.digest.nLockTime - p.digest.sequence + p.satoshis + Len(p.digest.outputs)) % 3 # 0

Alice == Commit(SingleKey, <<"alice">>)
Bob   == Commit(SingleKey, <<"bob">>)
Both  == Commit(Multisig(2, 2), <<"alice", "bob">>)
MCOwners == {Alice, Bob, Both}

MCPayments == {Pays(P2pkh("alice"), 2), Pays(P2pkh("bob"), 1)}
MCTerms == {<<Pays(P2pkh("alice"), 2)>>, <<Pays(P2pkh("alice"), 2), Pays(P2pkh("bob"), 1)>>}

MCOpenings ==
  {[ordinal |-> TRUE,  coins |-> <<Pays(P2pkh("alice"), 2), Pays(P2pkh("alice"), 1), Pays(P2pkh("bob"), 5)>>],
   [ordinal |-> TRUE,  coins |-> <<Pays(OwnershipTokenMulti(Multisig(2, 2), Both), 2), Pays(P2pkh("bob"), 3)>>],
   [ordinal |-> TRUE,  coins |-> <<Pays(OwnershipTokenMulti(SingleKey, Alice), 1), Pays(P2pkh("alice"), 2)>>],
   [ordinal |-> FALSE, coins |-> <<Pays(OwnershipToken(1, SingleKey, Alice), 3)>>],
   [ordinal |-> FALSE, coins |-> <<Pays(OwnershipToken(1, Multisig(2, 2), Both), 3)>>],
   [ordinal |-> FALSE, coins |-> <<Pays(PelsCovenant(2), 5),
                                   Pays(Policy(<<Pays(P2pkh("alice"), 2)>>, 1), 3),
                                   Pays(Policy(<<>>, 2), 2),
                                   Pays(ValueCovenant(<<Pays(P2pkh("bob"), 1)>>), 1)>>]}
=============================================================================
