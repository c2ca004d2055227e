# TLA+ verification of @smartledger/bsv

This directory models the parts of `@smartledger/bsv` that keep state and
change it step by step, or that decide something from parts which come from
different hands at different times: the transaction builder of
`lib/transaction`, the script interpreter of `lib/script`, the simulated chain
of `utilities`, the light client of `lib/block` and `lib/spv`, the wallet page of
`lib/browser-utxo-manager-es5.js` and its miner, the credentials of `lib/vcjwt`,
`lib/didweb` and `lib/statuslist`, the anchors of `lib/notaryhash`, the
documents of the legal token protocol, `lib/ltp`, and the coins that move under
the covenants of `lib/covenant`, `lib/smart_contract` and `lib/ordinals`. TLC checks the models on
small instances; TLAPS proves the invariants of the builder, the simulated chain,
the wallet page, the credentials, the legal tokens, the covenants, the anchors and the
interpreter's conditionals, what the light client accepts of branches, headers and
whole blocks, and three refinements, for every value of the constants.

## 1. The system

The library is JavaScript: one thread, and most of it synchronous. What makes
it hard is long sequences of legal calls on an object that keeps derived state
(a change output, cached amounts, signatures); calls that throw after they have
assigned something; co-signers who answer late; a JSON file that several
functions load, change and save; browser tabs that each keep a copy of one
storage entry; calls that await a resolver while keys are rotated and lists are
replaced; documents signed by several parties and recorded by a store outside; transactions
that are ground until a script can check them, signed by several owners and
copied by others on their way.

| Component | State | Operations | Interacts with | What makes it correct |
|---|---|---|---|---|
| Transaction builder, `lib/transaction/transaction.js` | inputs, outputs, lock time, `_changeScript`, `_changeIndex`, `_fee`, `_feePerKb`, `_inputAmount`, `_outputAmount` | `from`, `uncheckedAddInput`, `removeInput`, `to`/`addData`/`addOutput`, `removeOutput`, `clearOutputs`, `change`, `fee`, `feePerKb`, `lockUntil*`, `sort*`, `shuffleOutputs`, `sign`, `getSignatures`, `applySignature`, `serialize`, `toObject`/`fromObject`, `toBuffer`/`fromBuffer` | calls its inputs, outputs and the signature hash; every change of inputs, outputs or fees ends in `_updateChangeOutput` | payments are the ones asked for, change is exact and never dust, caches are never stale, signatures commit to what the transaction is now |
| Inputs, `lib/transaction/input/*` | signatures, sequence number, output spent | `addSignature`, `clearSignatures`, `isFullySigned`, `getSignatures`, `_estimateSize` | called by the builder | never more signatures than the threshold, none of a stranger's key |
| Signature hash, `lib/transaction/sighash.js` | none | the FORKID preimage | read by inputs | covers what its type says |
| Simulated chain, `utilities/blockchain-state.js`, `lib/smartutxo.js` | one JSON file: `wallets`, `globalUTXOSet`, `spentUTXOs` | `registerWallet`, `addUTXO`, `spendUTXO`, `spendUTXOs`, `saveState`, `reset`, `init`, wallet import | every call loads and saves the whole file | no output spent twice or before it is known, no wallet lists what does not exist |
| Miner simulator, `utilities/miner-simulator.js` | the same file | `acceptTransaction`, `processTransaction` | calls the simulated chain | no double spend |
| Script interpreter, `lib/script/interpreter.js` | stack, alt stack, two conditional stacks, program counter, return flags, code separator, and buffers it shares with the script and with a process-wide constant | `verify`, `evaluate`, `step` | asks scripts and signatures about their form, and the transaction for a digest and its lock times | runs the opcodes it must and no others, in every era; stricter flags refuse more |
| Blocks and SPV, `lib/block`, `lib/spv` | header chain, partial merkle tree | `getMerkleRoot`, `MerkleBlock.validMerkleTree`, `filteredTxsHash`, `buildMerkleProof`, `verifyMerkleProof`, `verifyHeaderChain` | answers of nodes and explorers | accepts what the block and the chain hold and nothing else |
| Browser UTXO manager, `lib/browser-utxo-manager-es5.js` | three maps per tab, one storage entry for all | `addUTXO`, `spendUTXOs`, `getUTXOsForAddress`, `exportData`, `importData`, load and save | tabs share the storage | spent stays spent |
| SmartMiner, `lib/smartminer.js` | mempool, blocks | `acceptTransaction`, `mineBlock` | takes what the tabs send | no conflict in one chain |
| Credentials, `lib/vcjwt`, `lib/didweb`, `lib/statuslist` | documents and lists that are published, calls in flight | `issueVcJwt`, `verifyVcJwt`, `buildDidWebDocuments`, `rotateIssuerKey`, `createStatusList`, `updateStatusList`, `getCredentialStatusEntry` | await a resolver, read the clock | a verdict is one the published keys explain; a revocation is not lost |
| NotaryHash, `lib/notaryhash` | registry of signature suites | `createProof`, anchors in three modes, batch trees, certificates, `verifyCertificate` | headers of the chain | valid only when the chain anchors what the certificate says |
| Legal token protocol, `lib/ltp` | none of its own: signed documents and prepared requests | rights, transfers, obligations, fulfilments, registry, claims, proofs, anchors | a store outside, keys of several parties | a title has an unbroken history; the store shows what was recorded |
| Covenants and PUSHTX, ordinals, smart contracts, `lib/covenant`, `lib/ordinals`, `lib/smart_contract` | coins under scripts that read the transaction spending them | `grind`, `unlockTransfer`, `transferOrdinal`, `policy().unlock`, `buildListingTx`, `buildPurchaseTx`, `cancel` | the signature hash, several signers, the network | coins move only as their locks say, what a careful wallet builds is valid, an ordinal keeps its satoshi |
| GDAF, `lib/gdaf` | none | attestation, verification, schema checks, selective disclosure | cryptography | formats and signatures; what is disclosed verifies and is in the credential |
| Cryptography, keys, encodings, ECIES, mnemonics, utilities, command line | none that lives | conversions and number theory | | outside of what a model checker can say |

The hard behaviours, each at its line, are the `hazards` of `PROJECT.json`.

## 2. The modules

         Sighash               Ledger
            |                   ^  ^ implemented by
        TxObject       BlockchainState  BrowserPayments <- MCBrowserPayments, BrowserProofs
           |             |       |          |       |
       Transaction       | MinerSimulator BrowserUTXO SmartMiner
        |       |        |       |
        |       |        |   MCMinerSimulator
        |       |     MCBlockchainState, BlockchainStateProofs
        |   implements PaymentIntent
        |
       MCTransaction -> MCExchange, TransactionProofs

    ScriptNum -> ScriptOps -> Interpreter -> StructuredScript -> MCInterpreter
                                   |
                              InterpreterProofs

    MerkleTree -> Headers -> LightClient ------+
        |            |                         |
        |   AuditPath, Headers -> NotaryHash --+-> MCNotaryHash, SpvProofs
        |                                                            |
        +--> Disclosure ------------------------------------------+  |
                                                                  |  |
    LegalToken -> LegalTokens, Disclosure -> MCLegalTokens        |  |
                       |                                          |  |
                       +----------------------------------------> LegalTokensProofs

    DidWeb, VcJwt, StatusList -> CredentialService -> MCCredentialService, CredentialProofs
    Sighash -> Covenants -> CovenantChain -> MCCovenantChain, CovenantProofs

**Sighash** is the FORKID preimage with every hash replaced by what it hashes,
so that two digests are equal exactly when the code's preimages are, up to hash
collisions.

**TxObject** is the transaction object: a record with the fields of the
JavaScript object, the left-to-right sums and the ceiling division of its
amounts, and one operator per internal method. A call that throws
leaves what it had assigned: `UpdateChangeOutput` of a transaction with an input
whose output is unknown returns the object with the 0-satoshi probe and the
partial sum in `inputAmount`, exactly what the throw of `_getInputAmount` leaves
behind. Sequences count from 1, so `changeIndex` is `_changeIndex + 1`.

**Transaction** has two variables, the transaction `tx` and the signatures
`detached` that co-signers hold between `getSignatures` and `applySignature`;
one action per public call, each with the whole recomputation the call makes.
`Next` is `Build`, every call but the round trip through `toObject`, or that one:
an object read back has forgotten a fee rate and a fee of 0 that its change was
computed with, so what is said of the amount of the change (`ChangeExact`,
`NoChangeForgone`) is said of `BuildSpec`.

**PaymentIntent** is the abstract specification of the outputs: a list of
payments and what each request of an application does to it (`AddPayment`,
`RemovePayment`, `Clear`, `Rearrange`, `AdoptChange`, `Keep`). Transaction maps the
builder to it: the payments are the outputs without the change output.
`PaymentsAsAsked` says call by call which of them a step has to be: `addOutput` of an
output appends that output, `removeOutput(i)` takes the payment `i` (of the change
output, when it is the last, none), `clearOutputs` empties the list, a sort or shuffle
rearranges it, a transaction read from bytes adopts its change output where it stood,
and each of the other calls, `AnotherCall`, keeps the list as it is. Two calls are left
out, because the code breaks them: a `removeOutput` in front of the change output, or of a
change output that is not the last (the finding of `tx_remove`), and the round trip
through `toObject` of a change index of 0. The steps after such a call are claimed
like all others.

**Ledger** is the abstract specification of a UTXO ledger: each output is
unknown, unspent or spent, in that order; outputs may be spent together, and
only everything at once may be lost. When it may be, `LedgerKept` says of the file: on
`reset`, on `init`, and on a crash in the middle of a save (`LossExplained`). **BlockchainState** is the JSON file:
`file`, and the program that uses it (`pc`, the state `mem` it is writing, the
calls `todo` it has still to make). A call is a load followed by a save, and a
save empties the file before it writes it, so there is a state in between in
which a crash leaves a torn file. **MinerSimulator** runs `processTransaction` on
top of the same actions.

**ScriptNum** reads byte strings as booleans, script numbers and bit strings.
**ScriptOps** is every opcode but the conditionals and `OP_RETURN`, a function
from a machine to a machine. Where an opcode of the code writes into the buffer
it finds, the buffer may be the one of a chunk of the script (a push does not
copy it) or `Interpreter.true`, so a slot of the stack names its cell: `Overwrite`
changes every slot of that cell, and the code a later `OP_CHECKSIG` covers.
**Interpreter** is `verify`: a spend is chosen at the beginning, and each step
reads one chunk, keeps the program counter, `vfExec`, `vfElse`, `returned` and
`nonTopLevelReturnAfterGenesis` (here `suppressed`) as the code does, or ends one
script and begins the next.
**StructuredScript** says what a script means without any of those: nested
blocks with branches, read by recursive descent, and `Accepts`, what `verify`
should answer by that meaning. `RunsLikeStructured` compares the two; the opcodes
and the checks made of every chunk are the same operators in both, so what it
shows is the control flow, the hand-over between the scripts and that the stack
kept for a redeem script is not disturbed.

**MerkleTree** has the level by level tree of `block.js` (`GetMerkleTree`, a
function of the height), the depth-first reader of `merkleblock.js` with its two
cursors (hashes and bits used) and its failures (`Calls`, a function of the depth,
whose values say what a call at each position returns for every pair of cursors),
and the fold of `merkleproof.js`. Double SHA-256 is a free constructor, so two
roots are equal exactly when the trees are. **Headers** adds header ids, links and
work. **LightClient** has a tree of blocks found by miners, and a client who is
sent a merkle block, a branch or a run of headers, complete or with one damage (a
hash, bit, index or header dropped, changed or repeated); what it accepts is
compared with what the block or the chain holds.

**AuditPath** is the RFC 6962 tree of `notaryhash/merkle.js` (the recursion of
`root` and `path` over slices is one over the number of leaves, for every place a slice
may begin) and the fold with two counters; **NotaryHash** publishes full, hybrid and batch anchors in blocks, issues
a certificate, replaces up to two of its parts by those of another and verifies
it as `certificate.js` does, check by check.

**BrowserUTXO** is a manager per tab: `mem`, the address index and the spent map,
and the storage all tabs share; a save may fail without a word, and what was
loaded is what the storage had when the tab was opened. **SmartMiner** is the
mempool and the blocks cut from it. **BrowserPayments** composes the two: a tab
pays with what `spendUTXOs` gave it, and hands the transaction over, perhaps
twice. With one tab open at a time and nobody importing, the page implements
**Ledger**.

**DidWeb** builds and rotates the published documents, **VcJwt** issues and
verifies tokens, **StatusList** packs bits in bytes. **CredentialService** composes
them: an issuer who rotates keys, issues and hosts a list, and callers whose
`verifyVcJwt`, `getCredentialStatusEntry` or `updateStatusList` is split at its
`await`: what was read before it is kept in the call's record, what is read after
it is read from the state at that moment. The resolver answers with the keys
then published, or fails.

**LegalToken** has the documents of `lib/ltp` as values and their verification;
**LegalTokens** the calls that make them, the requests (`externalOperations`) they
prepare, and the store where the requests arrive in any order.

**Disclosure** is the salted merkle tree over the fields of a document that
`ltp/proof.js` and `gdaf/zk-prover.js` both have, level by level the tree that
`MerkleTree` has of a block, with what differs between them: how
arrays become fields, what value is shown, how a field finds its path and whose root
it is checked against. A holder prepares a proof, a part of it may be another's, and
the verdict is judged in every state, verification changing nothing.

**Covenants** has the locks as records of what their scripts were built from,
`Accepts`, what running each script comes to, the two kinds of owner, `Grind`,
and the calls that make unlocking scripts. A covenant accepts the preimage that
was pushed when it is the true one, of the right type, and `Clean`: makes a
signature in canonical form. The scripts of a listing and of a token among other
outputs hash what they pin between bytes of the spender's: `Serialized` is the bytes of
outputs as a sequence of pieces, in which an output with data is its head followed by
what the data holds, so that pinned bytes may lie in data, and the bytes around them
are any pieces. Every other script compares whole outputs. **CovenantChain** is who uses them: wallets and a
marketplace that build transactions over the unspent outputs, somebody who
copies a transaction on its way and redirects an output, with its preimage kept or
made anew, makers who lay out the outputs so that what a listing or a token pins is
data (`PurchaseWithData`, `TransferWithData`), and a network that takes whatever is valid, in any order, while
blocks are found. `ordinal` follows the inscribed satoshi from input to output,
first in, first out.

**MC...** modules are instances for TLC; MCTransaction and MCExchange also have the
partial next-state relations of the runs, each a choice among the actions of
Transaction (MCExchange tells two stories, `signing` and `transfer`, of which a
behaviour is one), and MCLegalTokens the desks that a run's behaviour is at: a title
that changes hands, an obligation, a registration, a disclosure. **...Proofs** modules hold
lemmas and theorems.

Where the model abstracts, by name:

- `EstimateFee` rounds up exactly; the code's quotient is a floating point
  number, which is exact at these sizes.
- `InputSize` counts a nominal 107 bytes per signature for a base input that was
  read with its script, where the code counts the script's own bytes.
- An amount is a natural: negative and fractional amounts are refused by
  `Output` and by the arguments of `to`.
- The same Output or Input object is never added twice (`_removeOutput` removes
  by identity and would remove both).
- A signature is valid exactly when the digest it signed is the digest of the
  transaction now; `verify` (a pure check) and the preimage without FORKID are
  left out.
- The form of a locking script is one of `ScriptClass`, which are the cases
  `_fromNonP2SH` and `_fromMultisigUtxo` tell apart.
- The totals, history and block height of the simulated chain are left out, and
  the miner's other validations are taken to have succeeded.
- Hash functions, the form of a signature, `verifySignature`, the validity of a
  public key and the parsing of a redeem script are constant operators of the
  interpreter (`Hash`, `SigForm`, `Verifies`, `IsPublicKey`, `Redeem`).
- Each `verify` has a new Interpreter in a new process, with a transaction: calls
  that reuse one, and `useGenesisLimits` and `setLimits`, are left out, and so is
  the step listener. The numbers 1000 (stack items) and 20 (keys) of the code
  are constants like the limits it names.
- A chunk has an opcode of the table or `RESERVED`, which stands for the invalid
  ones up to `OP_16`; a "long" push counts as one with `OP_PUSHDATA1`.
- One program at a time uses the state file. The code has no lock; two programs
  at once simply lose updates, and nothing is claimed of them.
- Outside the transaction builder a hash is the tuple of what it hashes and a
  signature is the key that made it together with what it covers. A document is a
  record with its signer; one whose status was changed after signing no longer
  matches its hash.
- Work of a header is one Boolean, `pow`; the arithmetic of targets is left out.
- Compression and base64 of a status list give back what they were given; bytes
  have `BitsPerByte` bits.
- A key's `kid` is the time of day when none is given, so two keys may share it.
- In `LegalTokens` a key signs for its owner (`KeyHolder`), a key that a caller names
  for an issuer or for the present owner is the true one (`right.js:338` takes his word,
  and what he names goes before the key in the DID), identical requests are one, and the
  store does nothing on an update of a token it does not have.
- `hashAlgorithm` is `SHA-256` in every proof, record and certificate of `NotaryHash` and
  left out; the check that compares it has nothing to tell apart.
- Amounts, dates and metadata of a browser record, and the validity of one
  transaction by itself, are left out of `BrowserPayments`.
- A transaction of `CovenantChain` has one input under a covenant, the first, and
  funding coins of one payer (the covenants leave sibling inputs alone by design,
  `pushtx.js:122`). `inputIndex`, `tokenIndex` and `sighashType` keep their defaults, one
  key signs once, wallets build over mined outputs only and never fund with the ordinal.
- The bytes of outputs are cut where outputs and the data of an `OP_RETURN` begin
  and end, and data runs to the end of its output; data within data, and pinned bytes
  that begin in the middle of something else, are left out. A new owner is a commitment
  of 20 bytes, which `unlockTransfer` checks and the scripts do not.
- Sequence numbers are read as signed 32-bit numbers there, so that final is -1;
  there is no minimum fee, and `p - fee` below 0 is no output value: a perpetual
  coin worth less than its fee stays where it is.
- The floor of a policy is a lock time, which the network applies only to inputs
  that are not final; `Policy.unlock` makes its input so, and only spends made by
  it are modelled.

## 3. The runs

| Run | Specification | What it asks | Distinct states |
|---|---|---|---|
| `tx_change` | MCTransaction, `ChangeSpec` | Is the change output where the transaction says, exact, not dust and never forgone? Are the caches right, after recomputations that threw half way too? Are the payments the ones asked for? | 145 000 |
| `tx_exchange` | MCExchange, `ExchangeSpec` | Does a signature survive that commits to other coins or payments? Can a multisig input get too many? Can an underfunded transaction pass the serialization checks after round trips through objects and bytes? Are the payments still the ones asked for? | 793 000 |
| `ledger` | MCBlockchainState, `Spec` | Does the file implement `Ledger`, forgetting everything only on a crash within a save, a reset or an init, and do wallets list only what exists? | 17 700 |
| `interpreter` | MCInterpreter, `Spec` | Does `verify` accept what the structured reading accepts? Do the conditional stacks mirror the nesting? Do flags called softfork safe only refuse more? Does trimming a number in place keep it? | 247 000 |
| `spv` | LightClient, `LCSpec` | Does a client accept exactly what the block holds: filters, branches under every index and header, whole blocks, runs of headers? | 108 000 |
| `notary` | MCNotaryHash, `Spec` | Does a certificate with parts of another ever verify without an anchor? Does an untouched one always? Does an audit path hold at its own index only? | 202 000 |
| `browser` | MCBrowserPayments, `Spec` | Does a spent output come back in a tab? Do the maps of a tab agree? Does a page used one tab at a time implement `Ledger`, and are its blocks free of conflicts? | 670 000 |
| `credentials` | MCCredentialService, `Spec` | Does every verdict follow from keys and a list that were published? Does a revocation take effect, fail or get overwritten by an overlapping update, and is nothing else changed? Does a rotation touch only its relationship? | 958 000 |
| `legal_tokens` | MCLegalTokens, `DeskSpec` | Has a title that verifies an unbroken history? Is what the store shows explained by what it recorded, in every order of arrival? Do the fields that verify in a selective disclosure belong to the document, and which honest ones verify? | 1 377 000 |
| `covenants` | MCCovenantChain, `Spec` | Do coins move only as their locks say, also when others lay out the bytes? Is what a careful wallet built valid? Does an ordinal keep its satoshi? | 259 000 |
| `tx_remove` | MCTransaction, `RemoveSpec` | Violated: `removeOutput` in front of the change output takes a second payment with it, or leaves two change outputs. | |
| `miner` | MCMinerSimulator, `MinerSpec` | Violated: two transactions that spend the same output are both accepted. | |

The last two are claims of a test and of the documentation that the code does
not keep; `findings` in `PROJECT.json` quotes them. Every other run finds no
error, and each of its properties is broken by a plausible mistake in the code
(`mutants` in `PROJECT.json`; the operators are in the modules, marked
"Mutant of").

### Bounds

*Builder.* `MaxInputs`, `MaxOutputs` and `MaxDetached` bound the transaction and
the signatures held; the guards of the actions name them. Two inputs and two
payments next to the change output are the smallest instance in which a
reordering moves the change output between payments, a removal shifts an index,
and an input with a known output stands before one without. The coins are chosen
so that the change falls just above, exactly on and just below the dust limit
(the fee of 654 leaves exactly 546 of the 1200 satoshis of coin `b`), and so that a
coin (`speck`) is worth hardly more than the fee for spending it. The two-of-three
coin makes a threshold that one co-signer cannot reach and three exceed; one
payment is enough for `tx_exchange`, whose questions are about what was signed or
read back, and with the change output it makes two outputs to reorder.

*Simulated chain.* `MaxBatch = 2` lets a batch fail between its calls; three
outputs of two addresses make wallets that share the global set.

*Interpreter.* `MCSpends` is a union: all pubkey scripts of up to four chunks
over seven control opcodes and of five over four of them, under two unlocking
scripts, before Genesis, after it and after Chronicle, which includes two nested
conditionals with an `OP_ELSE`, every place of an `OP_RETURN` among them and what
follows it; every byte string of up to three bytes over the edge values 0, 1,
128, 129 and 255; every opcode on fifteen stacks, which suit it or fail it in
each way its guards name, under four sets of flags; signatures with each defect
of form under eleven sets of flags, alone and in multisigs; script hashes with
redeem scripts that are good, malformed, unbalanced or leave nothing. Limits are
small (6 operations, 8 items, 20 and 40 bytes, numbers of 2 and 3 bytes) so that
each is met and passed; all but one of the error results of the model are
reached, the exception being the empty stack copy that a comment of the code says
cannot happen.

*SPV.* Nine transactions (`MaxTxs`; three fewer in all with each block more) make
a tree of five levels that is odd at several of them, with every filter; two and three blocks are for inclusion in the wrong
header and for forks. One damage to an answer: what one cannot do, the checks
being conjunctions over independent parts, several do not do either.

*NotaryHash.* Batches of three to eight leaves cover full, odd and lopsided
trees; two faults mix any two parts of two certificates.

*Browser.* Two tabs over one storage entry, one saving by itself and one not, and
two outputs, one of them without an address: any tab can hold what the other has
spent. Blocks of one transaction and three accepted ones let a conflict wait in
the mempool.

*Credentials.* Two callers, each with a call in flight, two calls each at most,
one rotation and one tick: the smallest instance where each `await` of one call
can have a rotation, an expiry or the other's update inside it. Bytes of two bits
and a list of four put two credentials in one byte. The keys include two with the
same `kid` and one without an algorithm.

*Legal tokens.* Three parties, of whom two share a key holder; deadlines and
percentages on both sides of the limits; five documents are a right handed on
twice and late. `MaxRequests = 6` leaves all requests of a registration, an
approval and a revocation in transit at once. The two documents whose fields are
disclosed have trees of five and four leaves (an array taken apart or not) and of
six: a node without a sibling among the leaves, above them, and none. Two nonces
give the same field two salts; up to two fields are shown, in any order and also
twice, and one part or one whole entry of a proof is another's.

*Covenants.* Three transactions on their way and four mined: list, buy, list
again and take back, or two hops of a token with a copy of each. One preimage in
three makes no clean signature, so that grinding from the first nonce fails and
succeeds; two heights let a policy of each floor come due. Listings and tokens are
also spent with what they pin inside data: that `CoinsMoveAsLocked` would not hold with
outputs in the place of pieces shows in two to four steps.

### Fairness and termination

`credentials` states the only fairness: a call that awaits the resolver gets its
answer or its failure, and a call that is ready returns (`WF` of each caller's
`ResolverAnswers \/ ResolverFails` and of `Return`). The first is a promise that
settles, which `fetch` and the resolvers handed to the library give, the second is
the event loop; no caller is promised to call again, no rotation and no update is
promised to happen. `RevocationTakesEffect` needs no more. Nothing else in this code
must eventually happen: a library object need not be called again.

For the same reason most runs do not check deadlock: a transaction, a list of
documents, an office or a chain of coins at its bounds may have no call left, and
`verify` returns. `ledger`, `browser` and `spv`, where something can always happen,
do check it.

## 4. The proofs

A theorem holds for every value of the constants that satisfies the named
assumptions of the modules. TLC evaluates each assumption on the values of a run.

| Module | Assumed |
|---|---|
| TxObject | amounts and sizes are naturals, keys are finitely many, a public key or its hash is matched by one key (`SingleKeyAssumption`), `Undefined` is no amount and no script |
| BlockchainState, BrowserUTXO, SmartMiner | an output has one owner, no special value is data, blocks hold at least one transaction |
| CredentialService, StatusList, VcJwt | a byte has bits, indices are those of the list, a credential of another issuer is another's, an algorithm is known of each key, clocks count naturals |
| Covenants, CovenantChain | `grind` counts its tries; owners are lists of keys with a threshold, fees and amounts are naturals, the outputs that listings and policies name are coins, an ordinal to begin with is worth something and is its owner's, a listing or a token of its own |
| NotaryHash | what is published is a proof or a batch of consecutive ones (`AnchorsAssumption`), no two anchors are the same transaction, blocks hold at least one |
| Disclosure | a document has fields, an array of a number of items (`DocumentsAssumption`) |
| LegalToken | a DID that embeds a key embeds the key its party signs with; nobody is no party |

The theorems about the interpreter and about the light client need no assumption.

| Theorem | Module | States |
|---|---|---|
| `TypeCorrect` | TransactionProofs | `Spec => []TypeOK` |
| `ChangeStaysWellFormed` | TransactionProofs | `Spec => []ChangeWellFormed` |
| `CachesStayCoherent` | TransactionProofs | `Spec => []CachesCoherent` |
| `ChangeStaysExact` | TransactionProofs | `BuildSpec => []ChangeExact` |
| `ChangeNeverForgone` | TransactionProofs | `BuildSpec => []NoChangeForgone` |
| `SerializedIsFunded` | TransactionProofs | `Spec => []SerializableIsFunded` |
| `BuilderImplementsIntent` | TransactionProofs | `Spec => PaymentsAsAsked`, the refinement of PaymentIntent |
| `ThresholdRespected` | TransactionProofs | `Spec => []SignaturesWithinThreshold` |
| `SignaturesStayCurrent` | TransactionProofs | `Spec => []SignaturesCoverPayments` |
| `TypeCorrect` | BlockchainStateProofs | `Spec => []TypeOK` |
| `ListsExist` | BlockchainStateProofs | `Spec => []ListedExist` |
| `ImplementsLedger` | BlockchainStateProofs | `Spec => LedgerKept`, the refinement of Ledger |
| `TabsStayCoherent` | BrowserProofs | `Spec => []TabCoherent` |
| `SpentOutputsStaySpent` | BrowserProofs | `Spec => SpentStaysSpent`, an action property |
| `CarefulPageKeepsLedger` | BrowserProofs | `Spec => OneTabKeepsLedger`, the refinement of Ledger |
| `MinerHoldsNoConflict` | BrowserProofs | `Spec => []NoConflictMined` |
| `DocumentsStayExact` | CredentialProofs | `Spec => []DocumentExact` |
| `RotationsStayScoped` | CredentialProofs | `Spec => RotationScoped`, an action property |
| `HostedListExact` | CredentialProofs | `Spec => []RevocationsExact` |
| `VerdictsAreExplained` | CredentialProofs | `Spec => []VerdictExplained` |
| `TitlesStayUnbroken` | LegalTokensProofs | `Spec => []TitleUnbroken` |
| `StoreStaysExplained` | LegalTokensProofs | `Spec => []RecordsExplainStore` |
| `DisclosureTheorem` | LegalTokensProofs | `DisclosureSpec => []DisclosureExact` |
| `CoinsStayLocked` | CovenantProofs | `Spec => CoinsMoveAsLocked`, an action property |
| `OrdinalStaysKept` | CovenantProofs | `Spec => []OrdinalKept` |
| `FreshSpendsStayValid` | CovenantProofs | `Spec => []FreshSpendsAccepted` |
| `NestingMirrored` | InterpreterProofs | `Spec => []ConditionalsMirrorNesting` |
| `InclusionTheorem` | SpvProofs | `LCSpec => []InclusionExact` |
| `HeaderChainTheorem` | SpvProofs | `LCSpec => []HeaderChainExact` |
| `MatchingBlockTheorem` | SpvProofs | `LCSpec => []MatchingBlockWhole` |
| `AcceptedFilterTheorem` | SpvProofs | `LCSpec => []AcceptedFilterSound` |
| `WholeFilterTheorem` | SpvProofs | `LCSpec => []WholeFilterExact` |
| `AuditPathTheorem` | SpvProofs | `NotarySpec => []AuditPathExact` |
| `AnchoredTheorem` | SpvProofs | `NotarySpec => []ValidMeansAnchored` |
| `HonestTheorem` | SpvProofs | `NotarySpec => []HonestCertificateValid` |

The runs check these properties under their own next-state relations, each of
which takes only steps of the module's `Next` (`Build` for the two about the
amount of the change), so what is proved covers what is run.

*The builder.* `ChangeInv` is the type invariant together with
`ChangeWellFormed`, and neither is inductive alone: `NewOutputOrder` looks for
the output the change index designates, and if there were none the new index
would be anything. The lemma `UpdateChangeType` says where
`_updateChangeOutput` leaves the change output whether it throws or not; every
call that ends in it then follows from one lemma. That totals are naturals rests
on an induction over the partial sums, done as a search for the least index at
which the statement fails (`LeastNatural`), after the recursive function has
been shown to exist.

*Amounts.* A total does not depend on the order of what is added: `Permuted`
moves the last summand of one order to its place in the other, by the same search
for a least counterexample. `FundingInv` adds to `ChangeInv` that a cache, when it
holds something, holds the sum, and that an input of a class that can sign knows
its output; every call clears the caches it makes stale or ends in a recomputation
that fills them, the ones that throw included. That is inductive by itself, and gives
`SerializableIsFunded`: the checks compare the caches. `SettledInv` adds that the
change is exact and not forgone. `_updateChangeOutput` establishes it
(`UpdateExact`) and the calls that do not end in it keep it, a reordering because
totals and sizes stay; the round trip through `toObject` does not, which is why the
two theorems are about `BuildSpec`.

*The refinement of PaymentIntent.* `PaymentsOf` leaves the change output out. A
recomputation removes it and appends it again, so the payments before and after are
the same sequence (`UpdateLeavesPayments`); `to`, `clearOutputs` and a `removeOutput`
that is a `SafeRemoval` do to the payments what the request of that name does, a
reordering of the outputs, wherever it puts the change output, is one of the payments,
and of each other call it is shown that it leaves them as they are.

*Signatures.* The threshold needs more than itself (`SigningInv`): an input of
a class with one key spends an output with one key, and every signature a
co-signer holds was made with a key of the output its digest names, so that one
that verifies belongs to the input. `SignaturesCoverPayments` is inductive given
the types: a call that changes inputs, payments or change clears every signature
there is when a change script is set, and the two kinds of call that clear none
keep what the property says, because a reordering of a reordering is one
(`OrderAgain`).

*The simulated chain.* The refinement maps the file to the status of each
output in the state in force, `Current`: the state being written counts as
written from the moment the save begins, since only a crash can still prevent
it, and then everything is lost at once, which `Forget` allows. No call that is
accepted leaves nothing of a chain that knew something (`ApplyKeepsSome`), so that such
a crash, `reset` and `init` are all that forgets (`LossStep`). The type
invariant contributes that the file is torn while it is being written.

*The wallet page.* `TabCoherent` is inductive by itself, whatever the storage holds.
The ledger is not kept by the tabs alone: `LedgerInv` says that as long as nobody was
careless one tab at most is open, what the page paid shows as spent, no two payments
share an output and the miner accepted each payment at most once. The refinement and
`NoConflictMined` follow; the miner's mempool and blocks only move transactions
(`SmartMiner` never compares two), so the wallet alone prevents a conflict.

*Credentials.* `ServiceInv` has a clause for each place a call can be in. While it
awaits the resolver, its `always` is within the keys published now, and its `ever`
around them: a rotation shrinks the one and extends the other, so a verdict reached
with the keys of any moment in between is explained. While updates do not overlap at
most one is in flight, and it was called with the list that is hosted now; together
with the arithmetic of one bit in a byte (`SetStatus`, for bytes of any width) that
makes the hosted list exact. A call keeps the record it began with although the
state moves on: this is what a test of an `async` function hardly reaches.

*Legal tokens.* `TitleUnbroken` speaks of rights that verify; the invariant needs
every right to descend from a first one (`Descends`), also an expired one or one whose
issuer was never its signer, and a transfer makes the next right from such a one
(`NextTitle`). `RecordsExplainStore` speaks of a store that has everything; what a
status shown now needs may still be under way, so `LegalInv` explains it by what was
recorded or will be (`Known`), and explains what each pending request will show in the
same way. A delivery then leaves `Known` as it is, whatever its turn. Ids are the
numbers of the documents in order, so that a store's entry has one document.

*The interpreter.* The conditional stacks have as many entries as the chunks
read open conditionals that they do not close. It is inductive once the two
stacks are known to be sequences of Booleans: each chunk adds to the nesting
what `Turn` says (`NestingStep`, from the cardinality of one more element), each
action does the same to the stacks, and `Execute` is never expanded, so the
theorem holds whatever the opcodes compute.

*Covenants.* Two of the properties speak of the moment a transaction is mined; `ChainInv`
keeps what its making promised of every transaction on its way until then. A signature
in it was asked of its key for exactly its coin and outputs (`asked`), so that a
signature that still verifies in a redirected copy covers outputs the owner saw
(`VerifiedWasAsked`, `AskedSigned`); a copy has the scripts of the original or
preimages made anew, and no way to more signatures (`RedirectSafe`, the one step
that needs every clause). Where a script compares whole outputs, only the first can be
a token of the code that is spent (`RecreatedOnce`); where it compares bytes, what it pins
stands among the pieces by the equation it checks (`Stands`, `RecreatedThere`), and what
wallets build passes it because their outputs are their own pieces (`SerializedCoins`,
`PlainSerialized`). The ordinal is the first input wherever it is spent, and the
first output is worth what its spender named, whether he was right or not; an honest
network accepts only the true value (`AcceptedClaim`), so first in, first out takes the
satoshi to the first output, at offset 0 (`FlowKeeps`). That the signers a multisig
needs can be put in the order of its script for any number of keys is
`SignersChosen`, from the highest positions that sign (`HighestExist`). For the
third property `ChainInv` also says what a maker who erred in nothing built: it unlocks
each of its coins and pays no more than they hold (`Spendable`). The preimage that was
ground is still the true one when the funding is signed, since that changes other
scripts only (`PreimagePasses`, `AlikeAccepted`); the owner named by the lock is
authorized by the signatures chosen for him (`OwnerAuthorized`); and what is paid, the
covenant's outputs and the change put together, is summed by parts (`TotalConcat`).
A block that leaves the coins of such a transaction leaves it spendable
(`StaysSpendable`).

*Trees.* What the light client and the verifier conclude from a tree of hashes is an
induction over its levels, done each time as a search for the least height, or the least
number of nodes, at which the statement fails (`LeastNatural`), after the recursive
functions have been shown to exist. The state adds little: `LCInv` says that each block
holds the payments of its own position under the header made of them (`BlocksFound`), so
that no two blocks share a transaction, a root or an id (`SameRootShares`,
`RootsDiffer`, `IdsDiffer`), and that the answer checked was computed from them. Every
level but the top has more than one node and the next is half as wide, rounded up
(`Narrowing`, `TreeShape`). Whatever branch folds to a root meets a node of the tree at
each turn (`FoldInTree`), hence is as high as the tree (`FoldHeight`), and the halved
index is the place of that node (`FoldPlace`): the transaction is in the block, at its
own position, which is `InclusionExact` with `HonestFold` for the other direction. The
first failure in a run of headers is found by the same search
(`HeaderChainExactHolds`). For `MatchingBlockWhole`, two lists with one root have
equal levels from the top down until one of them has an odd level whose last node the
other spells out twice (`RepeatedLast`): below it the lists differ by as many
transactions as that node is over.

*Merkle blocks.* The reader of a merkle block walks a tree it has never seen, with one
cursor in the hashes and one in the bits. The widths it calculates from the number of
transactions are those of the tree (`CalculatedWidth`, `CalculatedTree`), its calls are
unfolded once and for all (`CallRecurrence`, `CallCases`), and none of them gives back a
hash (`CallsAdvance`). The soundness goes down from the root: where the hash of a call is a
node of the tree, those of the two calls below are its children, since a hash has one
preimage, and what the calls matched are transactions under that node, in their order
(`SoundCall`, `SoundStep`, `CallsSound`). The traversal for the matches and those that ask
for one transaction differ in what they collect only (`AskedAsWhole`); a single hash is
taken to match nothing (`OneHashNoMatch`), and `AcceptedTop` puts the verdicts together.
The completeness goes up from the leaves: what is sent is cut into parts, one for each
subtree that is opened (`PartCases`, `PartsGood`), and a call whose cursors are at the
beginning of its part uses exactly that part and returns the node and the matches under
it (`ReadsAs`, `ReadStep`, `PartsRead`), the padding of the bits to bytes included, so
that the whole traversal returns the root (`SentRead`). `AcceptedFilterSound` needs
both: a message that arrives whole under the header of another block must have been read
before it can be said that its root is another. A damage leaves either the header or the
hashes and bits as they were, and the number of transactions always
(`DamageArrives`).

*Audit paths.* The tree of a batch is not level by level: it is split at a power of two
(`SplitPoint`), and `foldPath` sees neither the split nor the subtree, only two
counters. The bridge is that a fold within one half of the tree is the fold within
the whole as long as the half has nodes left to join (`LeftIn`, `RightIn`, `Embedded`):
in the left half the counters run in parallel, in the right half, whose leaves may be
fewer, the loop that climbs makes up for the levels that are missing there
(`ClimbEqual`, `RightStep`). With it one induction over the number of leaves shows that what
folds to the root is a leaf with its own path (`PathSound`, `InclusionSound`) and a
second one that its own path does (`PathComplete`, `InclusionComplete`). That eight
leaves can be read as seven for the first six is `SevenAsEight` and `SixOfSeven`.

*The notary.* `NotaryInv` keeps the chain (each block ends with its anchor, each anchor is
one that may be published) and the certificate: it has the form of a certificate
whatever was replaced in it, and an untouched one is as it was handed out, with the
envelope of its own block if any (`CertKept`). The verdict is taken apart check by check
(`Verdict`, `AnchorVerdict`); the record found in the transaction is the first that was
put there (`RecordInTransaction`), and one that matches commits to the certificate
(`MatchCommits`), in batch mode by `InclusionSound` with the leaf count that the
record has. Where `ValidMeansAnchored` needs the soundness of the branch and of the audit
path, `HonestCertificateValid` needs that both are complete (`FoldsToOwn`, `OwnBatch`) and
that no other header has the root (`RawTxsDiffer`, since a transaction is in one block).

*Selective disclosure* (in LegalTokensProofs, with the lemmas of SpvProofs about the tree).
A path made of a tree is folded from the bottom, and what folds to
the root passes, from the top down, through nodes of the tree (`ProofInTree`): since no
hash of a field is a node, the path is as long as the tree is high and starts at a leaf
(`ProofHeight`), and a leaf's hash has the path, the value and the salt of one field in it
(`FieldSound`). The other way, a path that leaves no level out is the branch of a block
with its side noted (`WholePath`), one that leaves a level out is too short to be right
(`LonePath`), and where that happens is where the widths of the levels are odd, which is
how `UnderLoneNode` puts it (`LoneNodes`). `DiscInv` says that a proof stays a proof,
whatever is another's in it, and that an untouched one shows what was prepared (`Shows`).

*Only model-checked.* Liveness (`RevocationTakesEffect`), which is beyond the prover. What
compares the interpreter with the structured reading of a script (`RunsLikeStructured`,
`StricterFlagsRefuseMore`), which rests on recursive operators, and `TrimmingKeepsNumber`, about byte strings of any length.

## 5. Not modelled, and known disagreements

### Where the code and its documentation part, beyond the two findings

The models do what the code does in each of these; no property claims the
contrary.

- `fromObject(toObject())` loses a change index of 0, a fee of 0 and the fee rate
  (`transaction.js:370`); `docs/api/TRANSACTIONS.md:130` says it fully restores the
  transaction.
- A lock time set after signing changes what was signed and clears nothing, and
  `isFullySigned` stays true; `docs/api/TRANSACTIONS.md:104` says it is true only of
  valid signatures.
- The checks of a signature's form are an else-if chain (`interpreter.js:686`):
  with `LOW_S` set, the hash type that `STRICTENC` refuses is not looked at.
- Every true pushed by `OP_EQUAL` is one buffer (`interpreter.js:262`, `:1926`), and
  the bitwise opcodes write into their operand: after `1 1 EQUAL 1 XOR`, equal
  operands compare to 0, in later scripts of the process too.
- `MerkleBlock.filteredTxsHash` returns nothing for a block of one transaction
  that matches (`merkleblock.js:179`): one hash is taken for a filter without a match.
- `rotateIssuerKey` publishes a key set of the new key alone, so tokens of the
  earlier keys stop verifying at that moment.
- Legal tokens: a token of before a transfer can be handed on again; one that
  someone other than its issuer hands on no longer verifies; a fulfilment of 0 %
  counts as 100 (`obligation.js:374`); the guard "already fulfilled"
  (`obligation.js:347`) and the status `OVERDUE` are never met by tokens as issued; the
  correlative obligations that a right creates do not verify in `obligation.js`;
  `requireApproval || true` (`registry.js:40`) cannot be turned off, and
  `registry.js:125` reads the flag from another level of the configuration; several
  wrappers of `ltp/index.js` (`:35`, `:74`, `:83`, `:286` to `:446`) call functions that
  do not exist.
- Selective disclosure (`ltp/proof.js:621` to `:713`, `gdaf/zk-prover.js:470` to `:536`):
  the tree pairs the last node of an odd level with itself, the path leaves that level
  out and the fold misses the root, so what an honest holder shows of the fields under
  it is refused. A legal token of `right.js` with one claim has 22 fields when it is
  signed, and the last six cannot be shown. No item of an array can either, because
  `_getNestedValue` splits a path at its dots (`proof.js:739`). `DisclosureExact` says
  exactly which fields these are.
- `ordlock.js:9` says that the outputs of a purchase are exactly `buyerOutputs ||
  payBlob || trailingOutputs`, that taking the ordinal without recreating the payments is
  the one thing nobody can do (`:13`), and that a purchase pays every party or fails (`:20`).
  The script (`:181` to `:184`) hashes bytes: the payments may stand in the data of an
  `OP_RETURN` output, where they pay nobody. The same goes for the token output of
  `token.js:140` (`:160` to `:166`), although there the owners sign the outputs.
  `CoinsMoveAsLocked` says what the scripts do enforce.
- `transferOrdinal` says that an exact value keeps the inscribed satoshi
  (`token.js:249`); with a `tokenIndex` that moves the token behind other outputs the
  first satoshi goes elsewhere. The model keeps the default.

### Not modelled

- Cryptography, keys, addresses, encodings, ECIES, mnemonics: number theory and
  pure conversions; a signature is modelled by what it signs.
- `script.js` beyond what the interpreter asks of it (parsing, classification,
  builders of standard scripts), the parsing of blocks, headers and transactions:
  one input, one output, no state; a fuzzer compares them with other libraries
  better than a model does.
- Inscriptions and BSV-20: formats of one output.
- The rest of `lib/smart_contract`: preimage readers, covenant text builders, the
  debugger, the stack examiner, the tester and the 1147-line opcode table, which
  display or generate scripts; `covenant-interface.js`, which wraps a preimage.
- `ltp/claim.js`: claims are checked against schemas, each in one call over one
  document; the signature and validity proofs of `ltp/proof.js`, likewise;
  `ltp/anchor.js`: the commitment contains the time it was made, and what it reads
  back from a transaction is text that it decodes as hexadecimal (`anchor.js:322`),
  so there is no round trip to check.
- GDAF but for the selective disclosure of `zk-prover.js`: formats, schemas, hash
  commitments that are opened whole, signatures over canonical JSON, and a resolver
  that computes a document from the DID it is given and keeps nothing.
- The command line, conformance harness, demos, examples and tests.
- `browser-utxo-manager.js`, which does not parse as JavaScript; the package loads
  the ES5 version.

### What could follow

Several covenant inputs in one transaction, and a policy whose floor is spent by others
than its own `unlock`.
