---------------------------- MODULE MemoRegistry ----------------------------
(***************************************************************************)
(* The account contract behind did:memo, which is not part of the          *)
(* repository: modelled from how src/memo/controller.go and                *)
(* src/memo/resolver.go use it and from what the tests expect of it.       *)
(*                                                                         *)
(* What the model takes from that use:                                     *)
(*   - a request is accepted only if the signature is of the message the  *)
(*     contract rebuilds from the arguments of the transaction and from    *)
(*     the nonce of the DID it names, and moves that nonce by one (a fresh *)
(*     GetNonce precedes every signature);                                 *)
(*   - a DID is created once, with nonce 0; a deactivated DID refuses all  *)
(*     requests (the end of TestBasic);                                    *)
(*   - adding to a relation emits an event that is never taken back        *)
(*     (QueryAll* reads the Add events and then asks whether it still      *)
(*     holds);                                                             *)
(*   - a delegation is stored as its expiry time, a uint256, the other     *)
(*     relations as a flag.                                                *)
(* What the sources leave open is the constant StrictContract.             *)
(***************************************************************************)
EXTENDS DidUrls, Sequences

CONSTANTS
    Dids,           \* memo DIDs
    MTypes,         \* verification method types
    Keys,           \* public keys
    Fragments,      \* the fragments of the DID URLs in use
    Expiries,       \* expiry times a request passes
    Half,           \* the first number an int64 does not hold (2^63)
    Uint256,        \* the first number a word of the contract does not hold (2^256)
    StrictContract  \* TRUE: a relation is added only if absent and for an
                    \* existing method, and removed only if present

ASSUME FragmentsAssumption == Fragments \subseteq Fragment
ASSUME ExpiryAssumption == Expiries \subseteq Int
ASSUME WidthAssumption == Half \in Nat \ {0} /\ Uint256 \in Nat \ {0}
ASSUME StrictAssumption == StrictContract \in BOOLEAN

VARIABLE reg    \* reg[d]: what the contract stores and has emitted for DID d

Relations == {"authentication", "assertion", "delegation", "recovery"}

\* The DID URLs in use.  The contract keeps the relations of a DID by URL, so two
\* URLs of one verification method are two entries.
Urls == [did : Dids, fragment : Fragments]

\* What GetMethodIndex makes of their fragments.
Indexes == {GetMethodIndex(f) : f \in Fragments}

CreateDID == [kind : {"createDID"}, did : Dids, mtype : MTypes, key : Keys]
AddVeri == [kind : {"addVeri"}, did : Dids, mtype : MTypes, key : Keys]
UpdateVeri == [kind : {"updateVeri"}, did : Dids, index : Indexes,
               mtype : MTypes, key : Keys]
DeactivateVeri == [kind : {"deactivateVeri"}, did : Dids, index : Indexes]
AddRelation == [kind : {"addRelation"}, did : Dids, relation : Relations,
                url : Urls, expiry : Expiries]
RemoveRelation == [kind : {"removeRelation"}, did : Dids, relation : Relations,
                   url : Urls]
DeactivateDID == [kind : {"deactivateDID"}, did : Dids]

\* The requests the controller can put to the contract.
MemoRequests ==
    CreateDID \cup AddVeri \cup UpdateVeri \cup DeactivateVeri
        \cup AddRelation \cup RemoveRelation \cup DeactivateDID

Method == [mtype : MTypes, key : Keys, deactivated : BOOLEAN]

Entry == [deactivated : BOOLEAN,
          nonce : Nat,
          methods : Seq(Method),
          rel : [Relations -> [Urls -> Nat]],
          added : [Relations -> Seq(Urls)]]

RegTypeOK == reg \in [Dids -> Entry]

EmptyEntry ==
    [deactivated |-> FALSE,
     nonce |-> 0,
     methods |-> <<>>,
     rel |-> [r \in Relations |-> [u \in Urls |-> 0]],
     added |-> [r \in Relations |-> <<>>]]

RegInit == reg = [d \in Dids |-> EmptyEntry]

-----------------------------------------------------------------------------

Registered(d) == reg[d].methods # <<>>

\* -1 is packed into the largest word, which is no index.
HasMethod(d, i) == 0 <= i /\ i < Len(reg[d].methods)

\* Verification method i of d (GetVeri): indices start at 0.
MethodAt(d, i) == reg[d].methods[i + 1]

\* What AddAuth, AddAssertion, AddDelegation and AddRecovery store.  An expiry is
\* packed into a word of the contract.
Stored(op) == IF op.relation = "delegation" THEN op.expiry % Uint256 ELSE 1

\* The expiry in the message: 64 bits, after zeros up to the width of a word.
ExpiryInMessage(op) == op.expiry % (2 * Half)

\* Whether the signed message is the one the contract rebuilds, the nonce aside:
\* a negative expiry is not the same word in the two.
Rebuilt(op) ==
    op.kind = "addRelation" /\ op.relation = "delegation" => ExpiryInMessage(op) = Stored(op)

\* The conditions under which the contract accepts a request of each kind,
\* the nonce aside.
Admissible(op) ==
    /\ ~ reg[op.did].deactivated
    /\ Registered(op.did) <=> op.kind # "createDID"
    /\ op.kind \in {"updateVeri", "deactivateVeri"} => HasMethod(op.did, op.index)
    /\ op.kind = "addRelation" /\ StrictContract =>
          /\ reg[op.did].rel[op.relation][op.url] = 0
          /\ HasMethod(op.url.did, GetMethodIndex(op.url.fragment))
    /\ op.kind = "removeRelation" /\ StrictContract =>
          reg[op.did].rel[op.relation][op.url] # 0

\* A signed request is taken if it is admissible and its message is the one the
\* contract rebuilds.
Accepts(op, nonce) == nonce = reg[op.did].nonce /\ Rebuilt(op) /\ Admissible(op)

\* The entry of op.did after an accepted request.
NewMethod(op) == [mtype |-> op.mtype, key |-> op.key, deactivated |-> FALSE]

Changed(e, op) ==
    CASE op.kind \in {"createDID", "addVeri"} ->
            [e EXCEPT !.methods = Append(@, NewMethod(op))]
      [] op.kind = "updateVeri" ->
            [e EXCEPT !.methods[op.index + 1].mtype = op.mtype,
                      !.methods[op.index + 1].key = op.key]
      [] op.kind = "deactivateVeri" ->
            [e EXCEPT !.methods[op.index + 1].deactivated = TRUE]
      [] op.kind = "addRelation" ->
            [e EXCEPT !.rel[op.relation][op.url] = Stored(op),
                      !.added[op.relation] = Append(@, op.url)]
      [] op.kind = "removeRelation" ->
            [e EXCEPT !.rel[op.relation][op.url] = 0]
      [] OTHER ->
            [e EXCEPT !.deactivated = TRUE]

\* The contract executes an accepted request.
Execute(op) ==
    reg' = [reg EXCEPT ![op.did] =
              [Changed(reg[op.did], op) EXCEPT !.nonce = reg[op.did].nonce + 1]]
=============================================================================
