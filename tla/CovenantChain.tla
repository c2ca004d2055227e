--------------------------- MODULE CovenantChain ---------------------------
(***************************************************************************)
(* Coins under the locks of Covenants, and the wallets, a marketplace and  *)
(* the network that move them: the calls of lib/ordinals/ordlock and       *)
(* lib/smart_contract that make whole transactions, copies of them that    *)
(* somebody else redirects, transactions laid out so that what a covenant  *)
(* pins stands in the data of an output, and a network that takes whatever *)
(* is valid, in any order.  A transaction spends one coin under a          *)
(* covenant, its first input, and coins of one payer that fund it.         *)
(***************************************************************************)
EXTENDS Covenants

CONSTANTS
  Keys,        \* private keys, by the name of their owner
  Openings,    \* [coins, ordinal]: coins to begin with, an ordinal the first of them or none
  Payments,    \* outputs that listings and policies name
  Terms,       \* payments a listing may ask for, in order
  Owners,      \* commitments a token may be passed on to
  Fee,         \* params.fee
  MaxBuilt, MaxMined, MaxHeight    \* bounds: transactions waiting, mined; height

VARIABLES
  utxos,       \* unspent outputs, by <<transaction, index>>
  height,
  mined,       \* transactions mined
  built,       \* transactions on their way: [tx, sound], sound when its maker erred in nothing
  asked,       \* history: [key, coin, outputs], who signed which outputs for which coin
  ordinal      \* where the inscribed satoshi is: [at, offset, satoshis]

vars == <<utxos, height, mined, built, asked, ordinal>>

Coin(o) == utxos[o]
NoOrdinal == [at |-> <<0, 0>>, offset |-> 0, satoshis |-> 0]

\* The locks there are, and the coins under them; an output with data is worth
\* nothing to anyone and holds coins of the other kinds.
Auths == [name : {"single-key", "multisig"}, m : Nat, n : Nat]
PlainLocks ==
  [form : {"p2pkh"}, key : Keys]
  \cup [form : {"pels"}, fee : Nat]
  \cup [form : {"policy"}, outputs : Seq(Payments), minLockTime : Nat \cup {-1}]
  \cup [form : {"token"}, fee : Nat, auth : Auths, owner : Owners]
  \cup [form : {"multi"}, auth : Auths, owner : Owners]
  \cup [form : {"ordlock"}, seller : Keys, payOutputs : Seq(Payments)]
PlainCoins == [lock : PlainLocks, satoshis : Nat]
Locks == PlainLocks \cup [form : {"data"}, holds : Seq(PlainCoins)]
Coins == [lock : Locks, satoshis : Nat]

\* The forms an ordinal is kept in: its owner's, a listing, a token of its own.
OrdinalForms == {"p2pkh", "ordlock", "multi"}

ASSUME ChainAssumption ==
  /\ Owners \subseteq [name : {"single-key", "multisig"}, m : Nat, keys : Seq(Keys)]
  /\ Payments \subseteq PlainCoins /\ Terms \subseteq Seq(Payments) /\ Fee \in Nat
  /\ \A opening \in Openings :
       /\ opening.coins \in Seq(Coins)
       /\ opening.ordinal => /\ opening.coins # <<>> /\ opening.coins[1].satoshis > 0
                             /\ opening.coins[1].lock.form \in OrdinalForms

Init ==
  \E opening \in Openings :
    /\ utxos = [o \in {0} \X DOMAIN opening.coins |-> opening.coins[o[2]]]
    /\ ordinal = IF opening.ordinal
                 THEN [at |-> <<0, 1>>, offset |-> 0, satoshis |-> opening.coins[1].satoshis]
                 ELSE NoOrdinal
    /\ height = 0 /\ mined = 0 /\ built = {} /\ asked = {}

-----------------------------------------------------------------------------
(* Building. *)

Of(form) == {o \in DOMAIN utxos : Coin(o).lock.form = form}
\* The coins a payer funds with: those of his key, but no ordinal.
Purse(key) == {o \in Of("p2pkh") \ {ordinal.at} : Coin(o).lock.key = key}

Sums(outputs) ==
  LET sum[n \in 0 .. Len(outputs)] == IF n = 0 THEN 0 ELSE sum[n - 1] + outputs[n].satoshis
  IN  sum
Total(outputs) == Sums(outputs)[Len(outputs)]
Worth(inputs) == Total([i \in DOMAIN inputs |-> Coin(inputs[i].utxo)])

NewTx(coins, outputs) ==
  [inputs |-> [i \in DOMAIN coins |->
                 [utxo |-> coins[i], sequence |-> FINAL, script |-> [made |-> "empty"]]],
   outputs |-> outputs, nLockTime |-> 0]

ChangeTo(key, amount) == IF amount > 0 THEN <<Pays(P2pkh(key), amount)>> ELSE <<>>

\* signP2PKHInput of every input after the first.
SignFunding(t, key) ==
  [t EXCEPT !.inputs = [i \in DOMAIN t.inputs |->
     IF i = 1 THEN t.inputs[1]
     ELSE LET coin == Coin(t.inputs[i].utxo)
          IN  Signed(t, i, key, coin.lock, coin.satoshis, SIGHASH).inputs[i]]]

FundingAsks(t, key) ==
  {[key |-> key, coin |-> t.inputs[i].utxo, outputs |-> t.outputs] : i \in DOMAIN t.inputs \ {1}}
OwnerAsks(t, keys) ==
  {[key |-> key, coin |-> t.inputs[1].utxo, outputs |-> t.outputs] : key \in keys}

Build(t, sound, asks) ==
  /\ Cardinality(built) < MaxBuilt /\ mined < MaxMined
  /\ built' = built \cup {[tx |-> t, sound |-> sound]}
  /\ asked' = asked \cup asks
  /\ UNCHANGED <<utxos, height, mined, ordinal>>

\* Mutant of ListingOutputs: the change comes first.
ListingOutputsChangeFirst(key, terms, satoshis, change) ==
  ChangeTo(key, change) \o <<Pays(OrdLock(key, terms), satoshis)>>
ListingOutputs(key, terms, satoshis, change) ==
  <<Pays(OrdLock(key, terms), satoshis)>> \o ChangeTo(key, change)

\* satoshis: what the caller says the ordinal is worth, 1 when he says nothing.
BuildListingTx(key, o, coin, terms, satoshis) ==
  LET change == Coin(coin).satoshis - Fee
      t == SignFunding(
             Signed(NewTx(<<o, coin>>, ListingOutputs(key, terms, satoshis, change)),
                    1, key, Coin(o).lock, satoshis, SIGHASH), key)
  IN  /\ Coin(o).lock = P2pkh(key) /\ change >= 0
      /\ Build(t, satoshis = Coin(o).satoshis, OwnerAsks(t, {key}) \cup FundingAsks(t, key))

\* Mutant of CompletePurchase: the funding is signed before the grind.
CompletePurchaseEarly(t, key, lock, satoshis, field) ==
  Purchase(SignFunding(t, key), 1, lock, satoshis, 2, field)
CompletePurchase(t, key, lock, satoshis, field) ==
  SignFunding(Purchase(t, 1, lock, satoshis, 2, field), key)

\* The ordinal goes to the buyer, each payee is paid, then change.
BuildPurchaseTx(key, o, coin, satoshis, field) ==
  LET lock == Coin(o).lock
      change == Coin(coin).satoshis - Total(lock.payOutputs) - Fee
      t == NewTx(<<o, coin>>,
             <<Pays(P2pkh(key), satoshis)>> \o lock.payOutputs \o ChangeTo(key, change))
  IN  /\ change >= 0 /\ CanPurchase(t, lock, 2)
      /\ CanGrind(t, 1, lock, satoshis, ORDLOCK_SIGHASH, field, 0)
      /\ LET done == CompletePurchase(t, key, lock, satoshis, field)
         IN  Build(done, satoshis = Coin(o).satoshis, FundingAsks(done, key))

\* The seller takes the listing back, or anybody tries to.
Cancel(key, o, satoshis) ==
  LET lock == Coin(o).lock
      t == Signed(NewTx(<<o>>, <<Pays(P2pkh(key), satoshis)>>), 1, key, lock, satoshis, SIGHASH)
  IN  Build(t, satoshis = Coin(o).satoshis /\ key = lock.seller, OwnerAsks(t, {key}))

\* unlockTransfer of a token whose one output pays the fee of its own.
TransferToken(signer, o, newOwner, field) ==
  LET lock == Coin(o).lock  satoshis == Coin(o).satoshis
      t == NewTx(<<o>>, <<Pays(Rebuild(lock, newOwner), satoshis - lock.fee)>>)
  IN  /\ satoshis > 1 /\ satoshis >= lock.fee /\ CanSign(lock.auth, signer)
      /\ CanGrind(t, 1, lock, satoshis, SIGHASH, field, 0)
      /\ LET done == UnlockTransfer(t, 1, signer, newOwner, lock, satoshis, field)
         IN  Build(done, lock.owner = Commit(lock.auth, signer.keys),
                   OwnerAsks(done, signer.signWith))

\* transferOrdinal with the fee from another coin, signed afterwards; satoshis
\* is what the caller says the ordinal is worth, kept what he leaves of it.
TransferOrdinalTx(signer, o, payer, coin, newOwner, satoshis, kept, field) ==
  LET lock == Coin(o).lock
      change == Coin(coin).satoshis - Fee
      t == NewTx(<<o, coin>>, <<Pays(Rebuild(lock, newOwner), kept)>> \o ChangeTo(payer, change))
  IN  /\ change >= 0 /\ CanSign(lock.auth, signer) /\ CanTransferOrdinal(t, 1, satoshis)
      /\ CanGrind(t, 1, lock, satoshis, SIGHASH, field, 0)
      /\ LET done == SignFunding(
                       TransferOrdinal(t, 1, signer, newOwner, lock, satoshis, 1, field), payer)
         IN  Build(done, satoshis = Coin(o).satoshis /\ lock.owner = Commit(lock.auth, signer.keys),
                   OwnerAsks(done, signer.signWith) \cup FundingAsks(done, payer))

\* The next hop of a perpetual coin.
HopPels(o, field) ==
  LET lock == Coin(o).lock  satoshis == Coin(o).satoshis
      t == NewTx(<<o>>, <<Pays(lock, satoshis - lock.fee)>>)
  IN  /\ satoshis >= lock.fee /\ CanGrind(t, 1, lock, satoshis, SIGHASH, field, 0)
      /\ Build(PelsUnlock(t, 1, lock, satoshis, field), TRUE, {})

\* The outputs a policy demands, which its coin should be worth; one that only
\* sets a floor is paid to anyone.
SpendPolicy(o, key) ==
  LET lock == Coin(o).lock  satoshis == Coin(o).satoshis
      t == NewTx(<<o>>, IF lock.outputs # <<>> THEN lock.outputs
                        ELSE <<Pays(P2pkh(key), satoshis)>>)
  IN  /\ CanGrind(PolicyBase(t, 1, lock.minLockTime), 1, lock, satoshis, SIGHASH, "nLockTime",
                  GrindFrom(lock.minLockTime))
      /\ Build(PolicyUnlock(t, 1, lock, satoshis), Total(t.outputs) <= satoshis, {})

-----------------------------------------------------------------------------
(* Transactions of other makers, who owe the code nothing: the bytes that  *)
(* the script of a listing or of a token pins stand in the data of the     *)
(* second output, and the first output pays an ordinary key.               *)

WithData(o, key, holds) ==
  NewTx(<<o>>, <<Pays(P2pkh(key), Coin(o).satoshis), Pays(Data(holds), 0)>>)

PurchaseWithData(key, o, field) ==
  LET lock == Coin(o).lock  satoshis == Coin(o).satoshis
      t == WithData(o, key, lock.payOutputs)
      g == Grind(t, 1, lock, satoshis, ORDLOCK_SIGHASH, field, 0)
  IN  /\ CanGrind(t, 1, lock, satoshis, ORDLOCK_SIGHASH, field, 0)
      /\ Build(SetScript(g, 1, [made |-> "purchase", buyerOuts |-> t.outputs, trailing |-> <<>>,
                  preimage |-> RawPreimage(g, 1, lock, satoshis, ORDLOCK_SIGHASH)]), FALSE, {})

\* unlockTransferMulti takes before and after from its caller.
TransferWithData(signer, o, payer, newOwner, field) ==
  LET lock == Coin(o).lock  satoshis == Coin(o).satoshis
      t == WithData(o, payer, <<Pays(Rebuild(lock, newOwner), satoshis)>>)
  IN  /\ CanSign(lock.auth, signer) /\ CanGrind(t, 1, lock, satoshis, SIGHASH, field, 0)
      /\ LET done == UnlockTransferMulti(t, 1, signer, newOwner, lock, satoshis,
                                         t.outputs, <<>>, satoshis, field)
         IN  Build(done, FALSE, OwnerAsks(done, signer.signWith))

-----------------------------------------------------------------------------
(* A copy that somebody makes of a transaction on its way: an output goes  *)
(* elsewhere, the preimage is made anew or not, and the signatures stay.   *)

Diverted(t, j, key, owner) ==
  [t EXCEPT !.outputs[j].lock = IF "owner" \in DOMAIN @ THEN Rebuild(@, owner) ELSE P2pkh(key)]

Refitted(t) ==
  LET coin == Coin(t.inputs[1].utxo)
      us == t.inputs[1].script
      type == us.preimage.digest.type
      g == Grind(t, 1, coin.lock, coin.satoshis, type, "nLockTime", 0)
      fresh == [us EXCEPT !.preimage = RawPreimage(g, 1, coin.lock, coin.satoshis, type)]
  IN  IF us.made = "signature" THEN t
      ELSE SetScript(g, 1,
             CASE us.made = "purchase" -> [fresh EXCEPT !.buyerOuts = Serialized(SubSeq(t.outputs, 1, 1))]
               [] us.made \in {"transfer", "multi"} /\ t.outputs[1].lock # coin.lock ->
                    [fresh EXCEPT !.newOwner = t.outputs[1].lock.owner]
               [] OTHER -> fresh)

Redirect(b, j, key, owner, anew) ==
  LET t == Diverted(b.tx, j, key, owner)
      us == t.inputs[1].script
  IN  /\ b.sound /\ t # b.tx
      /\ anew /\ us.made # "signature" =>
           LET coin == Coin(t.inputs[1].utxo)
           IN  CanGrind(t, 1, coin.lock, coin.satoshis, us.preimage.digest.type, "nLockTime", 0)
      /\ Build(IF anew THEN Refitted(t) ELSE t, FALSE, {})

-----------------------------------------------------------------------------
(* The network. *)

\* A lock time binds only a transaction with an input that is not final.
Mature(t) ==
  t.nLockTime <= height \/ \A i \in DOMAIN t.inputs : t.inputs[i].sequence = FINAL

Valid(t) ==
  /\ \A i \in DOMAIN t.inputs : t.inputs[i].utxo \in DOMAIN utxos
  /\ IsInjective([i \in DOMAIN t.inputs |-> t.inputs[i].utxo])
  /\ \A i \in DOMAIN t.inputs : Accepts(t, i, Coin(t.inputs[i].utxo))
  /\ Total(t.outputs) <= Worth(t.inputs)
  /\ Mature(t)

\* The satoshis of the inputs flow into the outputs first in, first out.
Flow(t, found) ==
  LET source == CHOOSE i \in DOMAIN t.inputs : t.inputs[i].utxo = found.at
      position == Worth(SubSeq(t.inputs, 1, source - 1)) + found.offset
      Start(j) == Total(SubSeq(t.outputs, 1, j - 1))
      homes == {j \in DOMAIN t.outputs :
                  Start(j) <= position /\ position < Start(j) + t.outputs[j].satoshis}
  IN  IF \A i \in DOMAIN t.inputs : t.inputs[i].utxo # found.at THEN found
      ELSE IF homes = {} THEN [found EXCEPT !.at = NoOrdinal.at]
      ELSE LET j == Min(homes)
           IN  [found EXCEPT !.at = <<mined + 1, j>>, !.offset = position - Start(j)]

Broadcast(b) ==
  LET t == b.tx
      spent == {t.inputs[i].utxo : i \in DOMAIN t.inputs}
  IN  /\ Valid(t)
      /\ mined' = mined + 1
      /\ utxos' = [o \in (DOMAIN utxos \ spent) \cup ({mined + 1} \X DOMAIN t.outputs) |->
                     IF o \in DOMAIN utxos THEN utxos[o] ELSE t.outputs[o[2]]]
      /\ ordinal' = Flow(t, ordinal)
      /\ built' = {c \in built : \A i \in DOMAIN c.tx.inputs : c.tx.inputs[i].utxo \notin spent}
      /\ asked' = {a \in asked : a.coin \notin spent}
      /\ UNCHANGED height

FindBlock ==
  height < MaxHeight /\ height' = height + 1 /\ UNCHANGED <<utxos, mined, built, asked, ordinal>>

-----------------------------------------------------------------------------
Fields == {"nLockTime", "sequence"}
Claims(o) == {1, Coin(o).satoshis}
\* Signers of a scheme: all keys in some order, and those of them who sign.
Signers(auth) ==
  {[keys |-> keys, signWith |-> who] :
     keys \in {c.keys : c \in {c \in Owners : Len(c.keys) = auth.n}}, who \in SUBSET Keys}

Next ==
  \/ \E key \in Keys, o \in Of("p2pkh") \cap {ordinal.at}, terms \in Terms :
       \E coin \in Purse(key), satoshis \in Claims(o) : BuildListingTx(key, o, coin, terms, satoshis)
  \/ \E key \in Keys, o \in Of("ordlock"), field \in Fields :
       \E coin \in Purse(key), satoshis \in Claims(o) : BuildPurchaseTx(key, o, coin, satoshis, field)
  \/ \E key \in Keys, o \in Of("ordlock") : \E satoshis \in Claims(o) : Cancel(key, o, satoshis)
  \/ \E o \in Of("token"), owner \in Owners, field \in Fields :
       \E signer \in Signers(Coin(o).lock.auth) : TransferToken(signer, o, owner, field)
  \/ \E o \in Of("multi"), payer \in Keys, owner \in Owners, field \in Fields :
       \E signer \in Signers(Coin(o).lock.auth), coin \in Purse(payer),
          satoshis, kept \in Claims(o) :
         TransferOrdinalTx(signer, o, payer, coin, owner, satoshis, kept, field)
  \/ \E key \in Keys, o \in Of("ordlock"), field \in Fields : PurchaseWithData(key, o, field)
  \/ \E o \in Of("multi"), payer \in Keys, owner \in Owners, field \in Fields :
       \E signer \in Signers(Coin(o).lock.auth) : TransferWithData(signer, o, payer, owner, field)
  \/ \E o \in Of("pels"), field \in Fields : HopPels(o, field)
  \/ \E o \in Of("policy"), key \in Keys : SpendPolicy(o, key)
  \/ \E b \in built, key \in Keys, owner \in Owners, anew \in BOOLEAN :
       \E j \in DOMAIN b.tx.outputs : Redirect(b, j, key, owner, anew)
  \/ \E b \in built : Broadcast(b)
  \/ FindBlock

Spec == Init /\ [][Next]_vars

-----------------------------------------------------------------------------
(* What must hold. *)

NewOutputs ==
  LET added == DOMAIN utxos' \ DOMAIN utxos
  IN  [j \in 1 .. Cardinality(added) |-> utxos'[<<mined', j>>]]

\* The coin o is spent as its lock says: the owner of the key, or enough of
\* the owners of a token, signed exactly these outputs for it; a token and a
\* perpetual coin are there again, once, in the same code; a policy pays what
\* it names and, unlocked by its own unlock, not before its time.  The scripts
\* of a listing and of a token with other outputs around it see bytes: every
\* payment, in order, stands in the bytes of the outputs, or the seller took
\* the listing back, and the token stands in the bytes its owners signed.
\* Where no output carries data, these are outputs themselves.
SpentAsLocked(o) ==
  LET coin == utxos[o]  lock == coin.lock  outputs == NewOutputs
      signers == {a.key : a \in {a \in asked : a.coin = o /\ a.outputs = outputs}}
      Recreates(c) == "owner" \in DOMAIN c.lock /\ c.lock = Rebuild(lock, c.lock.owner)
      OwnersSigned ==
        Cardinality({k \in DOMAIN lock.owner.keys : lock.owner.keys[k] \in signers}) >= lock.auth.m
  IN  CASE lock.form = "p2pkh"  -> lock.key \in signers
        [] lock.form = "token"  ->
             OwnersSigned /\ Cardinality({j \in DOMAIN outputs : Recreates(outputs[j])}) = 1
        [] lock.form = "multi"  ->
             LET pieces == Serialized(outputs)
             IN  OwnersSigned /\ \E j \in DOMAIN pieces : Recreates(pieces[j])
        [] lock.form = "pels"   -> outputs = <<[coin EXCEPT !.satoshis = @ - lock.fee]>>
        [] lock.form = "policy" -> /\ lock.outputs = <<>> \/ outputs = lock.outputs
                                   /\ height >= lock.minLockTime
        [] lock.form = "ordlock" ->
             lock.seller \in signers \/ lock.payOutputs \in SubSeqs(Serialized(outputs))

\* Whatever is on its way, copied, redirected or laid out by others, coins
\* move as their locks say.
CoinsMoveAsLocked == [][\A o \in DOMAIN utxos \ DOMAIN utxos' : SpentAsLocked(o)]_vars

\* What a maker who erred in nothing built is valid while its coins are there
\* and its lock time has come: grinding for the covenant, which changes what
\* every other signature covers, comes before all of them, and signatures are
\* in the order in which the script looks for them.
FreshSpendsAccepted == \A b \in built : b.sound /\ Mature(b.tx) => Valid(b.tx)

\* The inscribed satoshi of an ordinal that is listed, sold, taken back and
\* handed on under a covenant is the first of an output of the ordinal's value.
OrdinalKept ==
  ordinal # NoOrdinal =>
    /\ ordinal.at \in DOMAIN utxos /\ ordinal.offset = 0
    /\ Coin(ordinal.at).satoshis = ordinal.satoshis
=============================================================================
