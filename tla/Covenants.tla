----------------------------- MODULE Covenants -----------------------------
(***************************************************************************)
(* The locks of lib/covenant, lib/smart_contract and lib/ordinals/ordlock, *)
(* what unlocks each, and the calls that make the unlocking scripts.       *)
(*                                                                         *)
(* A lock is a record of what its script was built from, and Accepts says  *)
(* what running the script comes to.  A covenant (OP_PUSH_TX) makes a      *)
(* signature out of a preimage the spender pushed and has OP_CHECKSIG      *)
(* compare it with the spending transaction: the pushed preimage passes    *)
(* when it is the true one and the signature it makes is a clean one.      *)
(* Hashes are what they hash and a signature is its key and what it        *)
(* signed.  Two scripts hash what the spender pushes around the bytes they *)
(* pin, so these may stand in the data of an output as well as be outputs: *)
(* Serialized takes outputs apart into pieces, and what is pushed is a     *)
(* sequence of pieces.  No piece is cut in two.                            *)
(***************************************************************************)
EXTENDS Sighash, SequencesExt

CONSTANTS
  Clean(_),    \* sFromPreimage: the signature made of a preimage is clean
  MaxTries     \* opts.maxTries, for both kinds of grinding

ASSUME MaxTriesAssumption == MaxTries \in Nat

\* Sequence numbers are read as signed: 0xffffffff, and the one before it.
FINAL == -1
NON_FINAL == -2
SIGHASH == [base |-> "ALL", acp |-> FALSE]
ORDLOCK_SIGHASH == [base |-> "ALL", acp |-> TRUE]

\* rawPreimage: lock and amount are those the caller names.
RawPreimage(t, i, lock, satoshis, type) ==
  [digest |-> Digest(t, i, type), lock |-> lock, satoshis |-> satoshis]

\* Mutant of SignInput: the outputs are left to others.
SignInputOnly(t, key, i, lock, satoshis, type) ==
  [key |-> key, signed |-> RawPreimage(t, i, lock, satoshis, [type EXCEPT !.base = "NONE"])]

SignInput(t, key, i, lock, satoshis, type) ==
  [key |-> key, signed |-> RawPreimage(t, i, lock, satoshis, type)]

\* OP_CHECKSIG, for input i of t that spends coin.
SigVerifies(t, i, coin, sig, key) ==
  sig = [key |-> key,
         signed |-> RawPreimage(t, i, coin.lock, coin.satoshis, sig.signed.digest.type)]

\* Mutant of Authenticated: any preimage of the coin will do.
AuthenticatedAny(t, i, coin, p, type) == p.lock = coin.lock /\ Clean(p)

\* pushTxCore with its type, and assertSighashType.
Authenticated(t, i, coin, p, type) ==
  p = RawPreimage(t, i, coin.lock, coin.satoshis, type) /\ Clean(p)

-----------------------------------------------------------------------------
(* Authorizers.  An owner is committed to by the hash of what he reveals:  *)
(* a public key, or the redeem script of m and the keys.                   *)

SingleKey == [name |-> "single-key", m |-> 1, n |-> 1]
Multisig(m, n) == [name |-> "multisig", m |-> m, n |-> n]
Commit(auth, keys) == [name |-> auth.name, m |-> auth.m, keys |-> keys]

\* The signatures are in descending order of their keys, as the script walks them.
Descending(f, n) == \A j, k \in 1 .. n : j < k => f[j] > f[k]

\* emit: the revealed owner is the committed one and signed this spend.  A key
\* is no redeem script, nor the other way round, and the script counts keys by
\* its own m and n.
Authorized(t, i, coin, auth, args, commit) ==
  /\ args.reveals = commit
  /\ commit.name = auth.name
  /\ Len(args.sigs) = auth.m /\ Len(commit.keys) >= auth.n
  /\ \E f \in [1 .. auth.m -> 1 .. auth.n] :
       /\ Descending(f, auth.m)
       /\ \A j \in 1 .. auth.m : SigVerifies(t, i, coin, args.sigs[j], commit.keys[f[j]])

\* unlockArgs: the signers stand where keys first names them (indexOf), from the
\* last to the first, and the first m of them sign.
Signing(keys, signWith) ==
  {j \in DOMAIN keys : keys[j] \in signWith /\ \A k \in 1 .. j - 1 : keys[k] # keys[j]}
SignersInOrder(auth, keys, signWith) ==
  CHOOSE f \in [1 .. auth.m -> Signing(keys, signWith)] :
    /\ Descending(f, auth.m)
    /\ \A j \in Signing(keys, signWith) : (\A k \in 1 .. auth.m : f[k] # j)
                                          => \A k \in 1 .. auth.m : j < f[k]

\* signer: all keys in order and those that sign, who must be among them.
CanSign(auth, signer) ==
  /\ Len(signer.keys) = auth.n
  /\ signer.signWith \subseteq {signer.keys[j] : j \in DOMAIN signer.keys}
  /\ Cardinality(signer.signWith) >= auth.m
UnlockArgs(t, i, lock, satoshis, signer) ==
  LET order == SignersInOrder(lock.auth, signer.keys, signer.signWith)
  IN  [sigs |-> [j \in DOMAIN order |->
                   SignInput(t, signer.keys[order[j]], i, lock, satoshis, SIGHASH)],
       reveals |-> Commit(lock.auth, signer.keys)]

-----------------------------------------------------------------------------
(* Locks. *)

P2pkh(key) == [form |-> "p2pkh", key |-> key]
PelsCovenant(fee) == [form |-> "pels", fee |-> fee]
\* minLockTime -1: none was asked.
Policy(outputs, minLockTime) ==
  [form |-> "policy", outputs |-> outputs, minLockTime |-> minLockTime]
\* valueCovenant: no more than the outputs.
ValueCovenant(outputs) == Policy(outputs, -1)
OwnershipToken(fee, auth, owner) ==
  [form |-> "token", fee |-> fee, auth |-> auth, owner |-> owner]
OwnershipTokenMulti(auth, owner) ==
  [form |-> "multi", auth |-> auth, owner |-> owner]
OrdLock(seller, payOutputs) ==
  [form |-> "ordlock", seller |-> seller, payOutputs |-> payOutputs]

\* An OP_RETURN output whose script holds other outputs, to its end.
Data(holds) == [form |-> "data", holds |-> holds]

Pays(lock, satoshis) == [lock |-> lock, satoshis |-> satoshis]

\* The bytes hashOutputs commits to.  An output with data stands for its head,
\* up to the data, and is followed by what it holds.
Pieces(o) == IF o.lock.form = "data" THEN <<o>> \o o.lock.holds ELSE <<o>>
FirstPieces(outputs) ==
  LET first[n \in 0 .. Len(outputs)] ==
        IF n = 0 THEN <<>> ELSE first[n - 1] \o Pieces(outputs[n])
  IN  first
Serialized(outputs) == FirstPieces(outputs)[Len(outputs)]

\* emitRebuild: the same code with another owner.
Rebuild(lock, owner) == [lock EXCEPT !.owner = owner]

-----------------------------------------------------------------------------
(* Whether the script-sig of input i of t unlocks coin.  One made for      *)
(* another form leaves other things on the stack and fails.                *)

KeySigned(t, i, coin, key) ==
  LET us == t.inputs[i].script
  IN  us.made = "signature" /\ us.key = key /\ SigVerifies(t, i, coin, us.sig, key)

\* The output is its own, less the fee.
AcceptsPels(t, i, coin) ==
  LET us == t.inputs[i].script  p == us.preimage
  IN  /\ us.made = "preimage" /\ Authenticated(t, i, coin, p, SIGHASH)
      /\ p.digest.outputs = <<Pays(p.lock, p.satoshis - coin.lock.fee)>>

\* assertOutputs of what was named, assertLockTimeAtLeast.
AcceptsPolicy(t, i, coin) ==
  LET us == t.inputs[i].script  p == us.preimage
  IN  /\ us.made = "preimage" /\ Authenticated(t, i, coin, p, SIGHASH)
      /\ coin.lock.outputs # <<>> => p.digest.outputs = coin.lock.outputs
      /\ p.digest.nLockTime >= coin.lock.minLockTime

OwnerSigned(t, i, coin) ==
  LET us == t.inputs[i].script  lock == us.preimage.lock
  IN  Authorized(t, i, coin, lock.auth, us.args, lock.owner)

\* The one output is the token with its new owner.
AcceptsToken(t, i, coin) ==
  LET us == t.inputs[i].script  p == us.preimage
  IN  /\ us.made = "transfer" /\ Authenticated(t, i, coin, p, SIGHASH)
      /\ OwnerSigned(t, i, coin)
      /\ p.digest.outputs = <<Pays(Rebuild(p.lock, us.newOwner), p.satoshis - coin.lock.fee)>>

\* The bytes of the token with its new owner, between bytes of the spender's.
AcceptsMulti(t, i, coin) ==
  LET us == t.inputs[i].script  p == us.preimage
  IN  /\ us.made = "multi" /\ Authenticated(t, i, coin, p, SIGHASH)
      /\ OwnerSigned(t, i, coin)
      /\ Serialized(p.digest.outputs) =
           us.before \o <<Pays(Rebuild(p.lock, us.newOwner), us.tokenValue)>> \o us.after

\* The seller's signature, or the bytes of the payments between bytes of the
\* buyer's.
AcceptsOrdLock(t, i, coin) ==
  LET us == t.inputs[i].script  p == us.preimage
  IN  \/ KeySigned(t, i, coin, coin.lock.seller)
      \/ /\ us.made = "purchase" /\ Authenticated(t, i, coin, p, ORDLOCK_SIGHASH)
         /\ Serialized(p.digest.outputs) =
              us.buyerOuts \o Serialized(coin.lock.payOutputs) \o us.trailing

\* An output with data is not spendable.
Accepts(t, i, coin) ==
  LET form == coin.lock.form
  IN  CASE form = "p2pkh"   -> KeySigned(t, i, coin, coin.lock.key)
        [] form = "pels"    -> AcceptsPels(t, i, coin)
        [] form = "policy"  -> AcceptsPolicy(t, i, coin)
        [] form = "token"   -> AcceptsToken(t, i, coin)
        [] form = "multi"   -> AcceptsMulti(t, i, coin)
        [] form = "ordlock" -> AcceptsOrdLock(t, i, coin)
        [] form = "data"    -> FALSE

-----------------------------------------------------------------------------
(* Grinding: the first nonce that makes the signature clean.               *)

WithNonce(t, i, field, nonce) ==
  IF field = "nLockTime" THEN [t EXCEPT !.nLockTime = nonce]
  ELSE [t EXCEPT !.inputs[i].sequence = NON_FINAL - nonce]

CleanNonces(t, i, lock, satoshis, type, field, start) ==
  {nonce \in start .. start + MaxTries - 1 :
     Clean(RawPreimage(WithNonce(t, i, field, nonce), i, lock, satoshis, type))}

\* grind gives up after MaxTries; GrindFrom is grind of nLockTime from a base.
CanGrind(t, i, lock, satoshis, type, field, start) ==
  CleanNonces(t, i, lock, satoshis, type, field, start) # {}
Grind(t, i, lock, satoshis, type, field, start) ==
  WithNonce(t, i, field, Min(CleanNonces(t, i, lock, satoshis, type, field, start)))

-----------------------------------------------------------------------------
(* Unlocking scripts.  Each operator gives the transaction with its script.*)

SetScript(t, i, us) == [t EXCEPT !.inputs[i].script = us]

\* signP2PKHInput, and cancel, which has a branch marker on top.
Signed(t, i, key, lock, satoshis, type) ==
  SetScript(t, i, [made |-> "signature", key |-> key,
                   sig |-> SignInput(t, key, i, lock, satoshis, type)])

\* Refused for a coin of one satoshi, which cannot pay a fee.
UnlockTransfer(t, i, signer, newOwner, lock, satoshis, field) ==
  LET g == Grind(t, i, lock, satoshis, SIGHASH, field, 0)
  IN  SetScript(g, i, [made |-> "transfer", newOwner |-> newOwner,
        args |-> UnlockArgs(g, i, lock, satoshis, signer),
        preimage |-> RawPreimage(g, i, lock, satoshis, SIGHASH)])

UnlockTransferMulti(t, i, signer, newOwner, lock, satoshis, before, after, tokenValue, field) ==
  LET g == Grind(t, i, lock, satoshis, SIGHASH, field, 0)
  IN  SetScript(g, i, [made |-> "multi", newOwner |-> newOwner,
        before |-> before, after |-> after, tokenValue |-> tokenValue,
        args |-> UnlockArgs(g, i, lock, satoshis, signer),
        preimage |-> RawPreimage(g, i, lock, satoshis, SIGHASH)])

\* transferOrdinal refuses to change the value of the token output.
CanTransferOrdinal(t, tokenIndex, ordinalSats) ==
  tokenIndex \in DOMAIN t.outputs /\ t.outputs[tokenIndex].satoshis = ordinalSats
TransferOrdinal(t, i, signer, newOwner, lock, ordinalSats, tokenIndex, field) ==
  UnlockTransferMulti(t, i, signer, newOwner, lock, ordinalSats,
    Serialized(SubSeq(t.outputs, 1, tokenIndex - 1)),
    Serialized(SubSeq(t.outputs, tokenIndex + 1, Len(t.outputs))), ordinalSats, field)

\* Policy.unlock: a floor makes the input non-final.
PolicyBase(t, i, minLockTime) ==
  IF minLockTime = -1 THEN t ELSE [t EXCEPT !.inputs[i].sequence = NON_FINAL]
GrindFrom(minLockTime) == IF minLockTime = -1 THEN 0 ELSE minLockTime
PolicyUnlock(t, i, lock, satoshis) ==
  LET g == Grind(PolicyBase(t, i, lock.minLockTime), i, lock, satoshis, SIGHASH,
                 "nLockTime", GrindFrom(lock.minLockTime))
  IN  SetScript(g, i, [made |-> "preimage", preimage |-> RawPreimage(g, i, lock, satoshis, SIGHASH)])

\* What a caller does with a perpetual coin: grind, then push the preimage.
PelsUnlock(t, i, lock, satoshis, field) ==
  LET g == Grind(t, i, lock, satoshis, SIGHASH, field, 0)
  IN  SetScript(g, i, [made |-> "preimage", preimage |-> RawPreimage(g, i, lock, satoshis, SIGHASH)])

\* purchase: the pinned block has to stand at payoutIndex.
CanPurchase(t, lock, payoutIndex) ==
  SubSeq(t.outputs, payoutIndex, payoutIndex + Len(lock.payOutputs) - 1) = lock.payOutputs
Purchase(t, i, lock, satoshis, payoutIndex, field) ==
  LET g == Grind(t, i, lock, satoshis, ORDLOCK_SIGHASH, field, 0)
  IN  SetScript(g, i, [made |-> "purchase",
        buyerOuts |-> Serialized(SubSeq(t.outputs, 1, payoutIndex - 1)),
        trailing |-> Serialized(SubSeq(t.outputs, payoutIndex + Len(lock.payOutputs), Len(t.outputs))),
        preimage |-> RawPreimage(g, i, lock, satoshis, ORDLOCK_SIGHASH)])
=============================================================================
