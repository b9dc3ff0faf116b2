# did-go-sdk: a TLA+ model

This directory models the Go SDK of memo DIDs and mfile DIDs (`src/`): the
controllers, which change DIDs on a chain through signed calls; the resolvers,
which put documents together from many chain queries; and the client of the file
proof contracts, whose methods are sequences of queries and transactions of an
account others use too. TLC checks the models on small instances; TLAPS proves
every safety property of all five components, and what DID URLs denote, for every
instance. Liveness stays with TLC.

## 1. The system

| Part | State | Operations | Talks to |
|---|---|---|---|
| Memo controller, `memo/controller.go` | a key and contract addresses, fixed at construction | seven `Get…Message` / `X` pairs, `CreateUnregisteredDID`, `CheckTx` | proxy contract |
| Memo resolver, `memo/resolver.go` | an address | `Resolve`, `Dereference`, `GetMasterKey`, `QueryAll…` | account contract |
| Mfile controller, `mfile/controller.go` | as the memo controller | eight `Get…Message` / `X` pairs, its own `CheckTx` | proxy contract |
| Mfile resolver, `mfile/resolver.go` | an address | `Resolve`, `QueryAllRead` | file contract |
| File proof client, `file-proof/proof.go` | a key, contract addresses, a fixed gas limit | thirteen methods that send transactions (`AddFile`, `Pledge`, `BeSubmitter`, proofs, challenge rounds, withdrawals, alterations), `IsSubmitterWinner`, its own `CheckTx`, getters and event filters | file proof, pledge, token and auth contracts |
| DID types, `types/` | none | parsing, method indices, key formats | - |
| Contracts | the DIDs, files, pledges and proofs themselves | accept or revert a transaction, answer a query | not in the repository |

The SDK keeps no state of its own: everything is on the chain, and every
operation is a sequence of remote calls between which anybody else may act.
That is where its difficulty lies.

* **A change of a DID is three calls.** `GetXMessage` reads the DID's nonce and builds the
  message; the user signs it; `X` estimates gas, sends a transaction and polls
  its receipt in `CheckTx` at most ten times. The nonce may be stale when the
  signature is used, the answer to the sending may be lost, the transaction may
  land after `CheckTx` gave up, and the caller may send the same signature again.
* **A read is many calls.** `Resolve` asks for the deactivation flag, the number of
  methods, each method, the events of four relations, and two more queries for
  every event. The contract changes in between, and a delegation expires.
* **A payment is two transactions.** `AddFile`, `Pledge` and others approve an
  allowance, wait for it, and send the transaction that spends it. Any step may
  fail or be given up, the price or the pledge may change between the query and
  the spending, and a second client of the account overwrites the allowance.
* **Queries fail** halfway, and some errors are dropped (`memo/resolver.go:210`
  and `165`).

What makes the parts correct: a controller sends a request only while it can be
accepted, and tells its caller the truth about it or "unknown"; a resolver never shows what was never true, never omits what was
true all along, and says exactly what the contract says when nothing changes;
the file proof client, undisturbed, pays exactly what a method costs and leaves no
allowance behind, and what it reports of a transaction is true; every call returns.

## 2. Modules

| Module | Models | Lines of the source |
|---|---|---|
| `SignedCall` | message, signature, sending, receipt, polls; used by both controllers | `memo/controller.go:139-198, 560-586` |
| `SignedRequests` | the abstract promise of that protocol: requests, nonces, answers | - |
| `DidUrls` | fragments of DID URLs: which are parsed, which method they mean, which the SDK writes | `types/memo_did.go:20, 89-159, 186-241` |
| `MemoRegistry` | account contract (external); extends `DidUrls` | as `memo/` uses it |
| `MemoController` | every message and call of the memo controller; extends `SignedCall` and `MemoRegistry` | `memo/controller.go:102-500, 560-642` |
| `MemoResolver` | `Resolve` and `Dereference`, one step per query; extends `MemoRegistry` | `memo/resolver.go:80-360`, `types/memo_document.go:34-91` |
| `MfileRegistry` | file contract (external) | as `mfile/` uses it |
| `MfileController` | every message and call of the mfile controller; extends `SignedCall` and `MfileRegistry` | `mfile/controller.go:76-527` |
| `MfileResolver` | `Resolve` and `QueryAllRead`; extends `MfileRegistry` | `mfile/resolver.go:51-178` |
| `FileProofContracts` | setting, pledges, allowances, proofs and challenges (external) | as `file-proof/` uses them |
| `FileProof` | the methods of `ProofInstance`; extends `FileProofContracts` | `file-proof/proof.go:103-536, 667-705, 806-841, 941-1081, 1110-1140`, `file-proof/types.go:257-295` |
| `SignedCallProofs` | lemmas about the call protocol, for both controllers | - |
| `MemoRegistryProofs` | theorems about `DidUrls`, lemmas about the account contract | - |
| `MfileRegistryProofs` | lemmas about the file contract | - |
| `MemoControllerProofs`, `MfileControllerProofs` | theorems about the controllers, each an implementation of `SignedRequests` | - |
| `MemoResolverProofs`, `MfileResolverProofs` | theorems about the resolvers | - |
| `FileProofProofs` | theorems about `FileProof` | - |
| `MC…` | instances for TLC | - |

**The controllers.** `held[c]` is the signed message a caller has in hand, `txs[c]`
the transactions of its account in nonce order with the status their receipt
will show, `pc[c]` the place in the protocol or the value the last call
returned, `polls[c]` the loop counter of `CheckTx`. A caller is a process with a
controller and an account of its own. `Send`, `SendAnswerLost` and `SendFails`
are the three outcomes of the binding's call; no gas limit is set on the
transactor, so the binding estimates first and a call that would revert is not
sent. `Mine` is the chain; a caller's transactions are mined in their order,
those of different callers in any.

**The resolvers.** `phase` names the next query; `todo`, `events`, `size`, `at`,
`holds`, `veri`, `methods`, `found` (or `doc`, `reads`) are the local variables of
the functions.

**The file proof client.** A method is the sequence of steps its `Plan` gives,
each a query, a sending or a `CheckTx`; `todo[c]` is what is left of it, `known[c]` the
amount to be approved (or the cycle `IsSubmitterWinner` read), `receipt[c]` and
`polls[c]` belong to the running `CheckTx`, `answer[c]` is what the last call returned.
`queue[a]` holds the transactions of an account that are not mined yet, in nonce
order, and each remembers the client that waits for it, which is nobody once
`CheckTx` gave up. The transactor has a gas limit (`proof.go:88`), so nothing is
estimated and a transaction that will revert is sent. `ReceiptSeen` has the three ways of
`CheckTx` to speak of a revert: "exceed gas limit" when `GasUsed` differs from
`CumulativeGasUsed`, the reason the replay in `getErrorReason` gives, and a panic
when that replay succeeds.

**DID URLs.** A fragment is a word or `key-` and digits, and the digits are some
zeros and a number. The contract keeps the relations of a DID by URL, so two
URLs of one method are two entries; `isNotPositiveNumber` (`memo_did.go:229`) refuses
only `0`, so `key-00` is parsed, and so is `key-01`, another name of `key-1`. A
number too long for an `int` has the index -1 (`memo_did.go:186`).

**History.** The variables `ever`, `always`, `current`, `closed`, `quiet`, `prices`,
`pairs`, and in `FileProof` `before`, `began` and `done`, are history variables: the
code has none of them, no guard reads them, and the properties compare the
answer with them.

**The contracts are assumptions.** The repository holds only their bindings'
import. The model takes from the SDK and its tests: a request is accepted only
with the nonce its DID has, and moves the nonce by one; a DID is created once
with nonce 0 and takes no request after its deactivation; events are never
taken back; a delegation is stored as its expiry time. For a relation whose
message is built with another DID's nonce (`memo/controller.go:321` and `395`)
the model lets the contract check the nonce of the DID the transaction names.
The contract rebuilds the signed message from the arguments of the transaction. A
negative `expireTime` is 64 bits after zeros in the message and a sign-extended word
in the transaction (`memo/controller.go:329` and `367`), so it is never accepted from
this SDK (`Rebuilt`). Other writers can store any word, and the resolver cuts it to an
`int64` (`memo/resolver.go:313`): the chain of `MemoResolver` executes whatever is
admissible, with such an expiry time among the rest.

What the sources leave open, whether the contract refuses a relation that is
already there or to a method that does not exist, is the constant
`StrictContract`. No theorem depends on it. The runs of the resolver that must pass
and `memo_requests` have `FALSE`, which allows more; `memo_race` and the runs that
refute a sentence of the README have `TRUE`, so that no looseness of the contract is to
blame. Of a contract that is not strict two things happen that the properties allow: a
relation to a method not yet there counts as valid, since nothing has deactivated the
method, and a read that meets it fails unless the method is created in time; and a delegation that is renewed in mid-call may be judged by
the old expiry time, so that `ValidThroughoutIsListed` speaks of one grant, a
relation, a URL and what was stored for it, that was valid all along.

Of the file proof contracts the model takes what a method costs, who takes it out of
which allowance, and the conditions the client itself knows of (the cycle, a
challenge that is open, the nonce of an alteration). Everything else they may
check is one step, `MineRefused`, which may revert any transaction. A challenge is
in one of three states: status 0, between 1 and 10, and 11 in `GetChallengeInfo`.
What other accounts do is the set `Deeds`, and a penalty may reduce a pledge at
any time. `AddFile` computes `end - start` unchecked, so the span of a file may be
negative, and the client approves the product modulo 2^256; the contract is taken to
charge nothing for such a file, or to refuse it. `IsSubmitterWinner` takes the status
11 for the end of a challenge (`proof.go:1037-1043`), and so does the model;
`TestChallengeCn` (`proof_test.go:537`) takes 0 for it.

Of the file contract: the registration of a file asks `GetNonce`, the counter of the
memo contract, for the file's identifier (`mfile/controller.go:91`). What it answers
is not in the repository, and the model takes 0, with which a registration is
accepted.

Operators introduced as "Faulty variant" are not part of any specification: each
is a plausible mistake in the definition that follows it, and replacing the
definition by it makes TLC find the violation of the property it is meant for.

## 3. Runs

| Run | Shows | Bounds |
|---|---|---|
| `memo_race` | type; `NonceOrder`; nil can be relied on; `ImplementsSignedRequests` | 2 callers, 2 transactions each, 2 polls, 4 requests on one DID of a strict contract |
| `memo_requests` | nil can be relied on for every kind of request; only supported types reach the contract; no signature for a nonce to come; calls return | 1 caller, 3 transactions, 2 polls, all kinds, 2 DIDs, the index -1 and the expiry time -1 among the arguments |
| `read_login` | `Resolve` and `Dereference` while methods and logins come and go, one of them under two names, and the master key is added as a login; the methods listed; they return | 1 DID, 2 keys, 5 changes |
| `read_delegation` | a delegation to another DID that expires, is taken back, given again and rotated, or runs to a time that is no `int64`, and fragments that do not name a method | 2 DIDs, 3 changes each, 3 instants |
| `mfile_reads` | `NonceOrder`; nil can be relied on; `ImplementsSignedRequests` | 2 callers, 2 transactions each, 3 requests |
| `mfile_requests` | type; nil can be relied on for every kind of request, on a file that changes hands | 1 caller, 4 transactions |
| `file_document` | the readers, the price and the controller a document shows; `Resolve` returns | 1 file, 5 changes, 1 purchase, 3-bit price, a reader whose name does not parse |
| `proof_money` | an undisturbed nil paid exactly; a transaction unpaid for was disturbed; answers are true | 2 clients of one account, 2 calls, 2 polls, 1 alteration of the setting, a file that does not fit and one of negative span |
| `proof_contest` | no proof of a cycle over before the call; the verdict is of a cycle of the call; calls return | 1 client, 3 calls, 2 cycles, 2 polls, another account that challenges and turns the cycle |
| `readme_proxy`, `readme_master`, `readme_verify` | where the code differs from the README | as `read_login` |

Two callers with two transactions each are enough for what the protocol is about:
a stale nonce needs one other caller, a repeated signature two transactions of
one account, and a transaction that lands after a retry both. Two polls tell the
first from the last; ten, or thirty, change nothing but the length. The reads have at most
five changes because a deactivation, a removal and a renewed relation need four
and a creation before them. The price is 3 bits wide so that one of three prices
does not fit; 64 in the code. In `proof_money` two calls are one of each client, or
a call after one that was given up: what can disturb a payment is one other
transaction of the account, a setting or a penalty. `Half = 4` and `Word = 64` stand for
2^63 and 2^256: a size of 4 is negative as an `int64`, and its product is packed
modulo 64. In the memo models `Half` and `Uint256` stand for
the same: 4 and 16 for the resolver, so that the stored 15 is -1 as an `int64` and the
instants 1 to 3 fit; 2 and 8 for the controller. `IntLimit = 4` stands for 2^63 in the index of a method. In
`proof_contest` two cycles and three calls are a proof, a second proof in the next
cycle, and the question who won.

`MaxTxs`, `MaxChanges`, `MaxBought`, `MaxTime`, `MaxCalls`, `MaxCycle` and `MaxAlter` are
bounds of the model, in the guards that name them; the fragments, requests, calls
and settings are sets each instance gives. Deadlock is checked in every run but
the two of `FileProof`, whose behaviours end when the calls are used up.
Symmetry permutes the callers, which no definition tells
apart, in the runs of two callers, which check no liveness.

**What was found.** Three sentences of the README are not what the code does:
a proxy access method added as in its example, with the expiry time 0, is never
listed, because 0 is before the clock (`README.md:436`); the master key
stays listed as a login method after its removal (`README.md:375`); the keys of
a relation are written without the `0x` that `VerifySignature` compares with, so
none but the master key verifies a signature (`README.md:314`). Each has a run
that TLC must find violated.

**Fairness.** `memo_requests` assumes weak fairness of `PollReceipt` only: the loop
of `CheckTx` sleeps, asks and counts by itself. Nothing is assumed of the chain,
which may never mine, or of the callers. `read_login` and `file_document` assume weak
fairness of `ReaderStep`: each query is answered or fails, as an HTTP call does.
`FileProof` assumes weak fairness of `ClientStep`, for both reasons; it says nothing
of `Begin` or of the chain.

## 4. Proofs

Each proof module states its theorems for any callers, DIDs, files, requests, calls
and bounds. A theorem `Spec => []P` of an invariant `P` that some run checks is proved
from an inductive invariant, named where it is defined; each was checked by TLC as an
invariant before it was proved.

| Module | Theorem | States |
|---|---|---|
| `MemoRegistryProofs` | `UrlNamesItsMethod` | the URL written for a method gives back its index |
| | `OtherNamesHaveZeros` | any other URL of the method has leading zeros |
| `MemoControllerProofs` | `TypeCorrect`, `NonceOrderHolds` | `TypeOK`, `NonceOrder` |
| | `NoSignatureIsAhead`, `KeysAreSupported` | `NoSignatureFromTheFuture`, `OnlySupportedTypes` |
| | `NilCanBeReliedOn`, `PromiseKept` | `NilIsInForce`, `ImplementsSignedRequests` |
| `MfileControllerProofs` | `TypeCorrect`, `NonceOrderHolds`, `NilCanBeReliedOn`, `PromiseKept` | `TypeOK`, `NonceOrder`, `NilIsInForce`, `ImplementsSignedRequests` |
| `MemoResolverProofs` | `TypeCorrect`, `DeactivatedGetsNothing`, `KeysAreOfTheCall`, `QuietResolve` | `TypeOK`, `DeactivatedIsEmpty`, `KeysWereCurrent`, `QuietResolveIsExact` |
| | `ListedHadTheRight`, `NobodyIsMissed`, `ActiveMethodsListed` | `ListedWasValid`, `ValidThroughoutIsListed`, `ActiveMethodsAreListed` |
| `MfileResolverProofs` | `TypeCorrect`, `ReadersAreOfTheCall`, `PriceIsOfItsController`, `QuietResolve` | `TypeOK`, `ReadersAreThoseOfTheCall`, `NoPriceOfALaterController`, `QuietResolveIsExact` |
| `FileProofProofs` | `TypeCorrect`, `AnswersAreTrue`, `NoStaleProof`, `WinnerOfItsCycle` | `TypeOK`, `AnswerIsTrue`, `NoStaleProofSent`, `WinnerIsOfItsCycle` |
| | `UnpaidIsDisturbed`, `QuietCallIsExact` | `UnpaidWasDisturbed`, `QuietCallPaysExactly` |

**The controllers.** `NonceOrder` is the core: the nonce of a DID has passed every
transaction that is settled, and a pending one which it has not passed would be
accepted now. The second part is there because the estimate accepted it when it was
sent and because only an accepted request on the same DID could change the verdict,
and that one moves the nonce past it; that is also why a failed transaction was
overtaken. For a strict contract the argument needs that a method once there stays
there and that a relation changes only with its DID's nonce. `OnlySupportedTypes` is
strengthened by the same of the messages in hand and of the transactions in flight
(`SupportedInFlight`).

`NilIsInForce` needs two more invariants: whatever landed is in force unless something
on the same subject landed later (`EffectHolds`), and who waits watches a transaction
of the message in hand, so that after nil that message has landed (`AnswerHolds`, of
`SignedCallProofs`, the same for both controllers). For memo DIDs the first one
rests on what a request leaves behind (`ExecutedIsInForce`) and on what each later
request on the DID may undo of it (`InForceKept`).

`PromiseKept` maps messages to `Prepare`, sent transactions to `Issue`, accepted
ones to `Apply`, reverted ones and further polls to a stutter and the end of
`CheckTx` to `Answer`; "execution failed" maps to the definite "no" only because of
`NonceOrder`. The mfile controller follows the same way, with a nonce 0 in its
registration message.

**The memo resolver.** `Shape` says where a call is and what it has in hand, and
`RegHistory` that every entry of a relation has an event, which is why filtering
events finds it. `FlagInv` carries the deactivation flag, `HistoryInv` says that what is
true now is in the history of the running call. `KeysInv` and `ListedInv` speak of what is
listed and also of the entry in the hands of the loop: between the query for its flag
and the reading of the clock, if that entry can still be listed, it was valid at an
instant of the call. The interesting case is an entry removed between the two
queries; it was valid when its flag was read, if its method was not deactivated then,
and the method, which no request activates again, can only have been deactivated since,
in which case it is not listed. An expiry time that `Int64` cuts only becomes
smaller (`Int64Cuts`), so that nobody is listed by the cut. `CoverInv` is the dual: who
was valid throughout by one grant whose time fits is listed, or still among the
events, or its relation is yet to be queried; and what the loop has read of it is what
that grant says. `MethodsInv` says the same of the methods before the loop index.
`QuietResolve` adds `QuietInv`: while nothing changes the history stands still, and
what was valid throughout, what was valid at some instant and what is valid now are
the same.

**The mfile resolver.** Purchases are filtered before grants, so `ReadersOK` says of
each instant whom the pending events and the list together still cover; a reader
bought or granted after both were filtered was not there all along. `PricesOK` says
which pairs of price and controller the call can still show; that the price is read
before the controller is what makes it inductive.

**The file proof client.** `StateOK` says that what is left of a call is a rest of its
plan. `QueueOK` is about who waits for whom: a transaction in a queue that names a
client is the transaction that client's running `CheckTx` waits for, it is the
only one, and the client has no receipt yet. That is why a receipt is never taken for
another's, however many transactions were given up (`Truthful`). `FreshOK` and
`WinnerOK` bound the cycle a call has read by those of the call. `MoneyOK` is the ledger of
an undisturbed call: at each place of each plan, what the allowance, the pledge and
the amount in hand are. It needs `QueueOK` to know that what is mined for the client
is what its plan sent, and everything else that is mined and moves its accounts
disturbs the call.

**Assumptions.** They are the named ASSUMEs of the constants: `MaxPolls`, `IntLimit`,
`Half`, `Uint256`, `Word`, `MaxCycle` and `MaxTime` are positive numbers, other bounds are
numbers, there is a DID (a file) to resolve, `NoAuth`, `NoKey`, `NoMemo` and `Nobody` are
none of what they stand beside, fragments are fragments, expiry times are integers, and
those of the controller within an `int64`, prices and balances are numbers, the
requests and calls are among those the code can make, a client has one account, and
`StrictContract` is one of the two.

**Only model-checked.** Liveness: `EveryCallReturns` and `CallReturns`, which rest on
fairness, are out of the prover's reach. The three properties taken from sentences of
the README are refuted, by a counterexample of TLC.

## 5. Not modelled, and what comes next

Not modelled: the identifier part of DIDs, which libraries parse, and the JSON
forms; the texts of the messages, hashes and salts (`CreateUnregisteredDID`), so
that a signature is of a request and a DID is a value; `GetMasterKey`, a single
query; the constructors; an event iterator that ends early with an error nobody
asks for; the getters and event filters of `proof.go` that no method uses, and the
bytes of curve points, proofs and hashes in `file-proof/types.go`: a proof is its
point, a challenge its state. The commented-out purchase calls of the memo
controller are gone from the code; purchases appear as steps of the file
contract.

Plan, in this order:

1. An abstract specification of a read: a call whose answer is chosen at one step
   from what was true during it, with the two resolvers shown to implement it; the
   invariants of section 4 are the ones that refinement needs.
2. The same for a payment: `FileProof` against a call that pays at once or not at all,
   as long as nobody disturbs it.
3. The getters of `proof.go` that callers combine themselves, such as the point for a proof
   and its cycle.
