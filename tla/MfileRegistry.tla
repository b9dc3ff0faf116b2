---------------------------- MODULE MfileRegistry ----------------------------
(***************************************************************************)
(* The file contract behind did:mfile, which is not part of the            *)
(* repository: modelled from how src/mfile/controller.go and               *)
(* src/mfile/resolver.go use it.  As with MemoRegistry, a request is       *)
(* accepted only with the nonce of the file it names and moves that nonce  *)
(* by one.  Every request but the purchase of a read permission is signed  *)
(* by the file's controller ("the owner of the DID" in the README).        *)
(***************************************************************************)
EXTENDS Integers, Sequences

CONSTANTS
    Files,      \* mfile DIDs
    Memos,      \* memo DIDs: controllers and readers
    Encodes,    \* how the identifier was made of the file's content
    Ftypes,     \* file types, 0 for private
    Prices,
    Keywords,   \* keyword lists
    NoMemo,     \* the controller of a file nobody registered
    NoEncode    \* and its encoding

ASSUME FtypesAssumption == Ftypes \subseteq Nat
ASSUME PricesAssumption == Prices \subseteq Nat
ASSUME NoMemoAssumption == NoMemo \notin Memos

VARIABLES
    files,      \* files[f]: what the contract stores and has emitted for file f
    memos       \* the memo DIDs that are registered

RegisterFile == [kind : {"registerFile"}, did : Files, by : Memos, encode : Encodes,
                 ftype : Ftypes, price : Prices, keywords : Keywords]
ChangeOwner == [kind : {"changeController"}, did : Files, by : Memos, controller : Memos]
ChangeFtype == [kind : {"changeFtype"}, did : Files, by : Memos, ftype : Ftypes]
ChangeFilePrice == [kind : {"changePrice"}, did : Files, by : Memos, price : Prices]
ChangeWords == [kind : {"changeKeywords"}, did : Files, by : Memos, keywords : Keywords]
GrantRead == [kind : {"grantRead"}, did : Files, by : Memos, reader : Memos]
DeactivateRead == [kind : {"deactivateRead"}, did : Files, by : Memos, reader : Memos]
DeactivateFile == [kind : {"deactivateFile"}, did : Files, by : Memos]

\* The requests the controller can put to the contract; "by" signed it.
MfileRequests ==
    RegisterFile \cup ChangeOwner \cup ChangeFtype \cup ChangeFilePrice
        \cup ChangeWords \cup GrantRead \cup DeactivateRead \cup DeactivateFile

\* Read permission: none, granted for free, or bought.
NoRead == 0
Granted == 1
Bought == 2

Entry == [deactivated : BOOLEAN,
          nonce : Nat,
          controller : Memos \cup {NoMemo},
          encode : Encodes \cup {NoEncode},
          ftype : Nat,
          price : Nat,
          keywords : Keywords \cup {<<>>},
          read : [Memos -> {NoRead, Granted, Bought}],
          bought : Seq(Memos),
          granted : Seq(Memos)]

FilesTypeOK == files \in [Files -> Entry] /\ memos \subseteq Memos

EmptyEntry ==
    [deactivated |-> FALSE, nonce |-> 0, controller |-> NoMemo,
     encode |-> NoEncode, ftype |-> 0, price |-> 0, keywords |-> <<>>,
     read |-> [m \in Memos |-> NoRead], bought |-> <<>>, granted |-> <<>>]

FilesInit ==
    /\ files = [f \in Files |-> EmptyEntry]
    /\ memos = {}

-----------------------------------------------------------------------------

Registered(f) == files[f].controller # NoMemo

\* The conditions under which the contract accepts a request, the nonce aside:
\* a controller must be a registered memo DID (mfile/controller_test.go,
\* TestBasic) and sign, and a deactivated file takes no requests.
Admissible(op) ==
    /\ ~ files[op.did].deactivated
    /\ Registered(op.did) <=> op.kind # "registerFile"
    /\ IF op.kind = "registerFile" THEN op.by \in memos ELSE op.by = files[op.did].controller

Accepts(op, nonce) == nonce = files[op.did].nonce /\ Admissible(op)

\* A purchased permission is not revoked (README, Revoke Read Permission).
Changed(e, op) ==
    CASE op.kind = "registerFile" ->
            [e EXCEPT !.controller = op.by, !.encode = op.encode, !.ftype = op.ftype,
                      !.price = op.price, !.keywords = op.keywords]
      [] op.kind = "changeController" -> [e EXCEPT !.controller = op.controller]
      [] op.kind = "changeFtype" -> [e EXCEPT !.ftype = op.ftype]
      [] op.kind = "changePrice" -> [e EXCEPT !.price = op.price]
      [] op.kind = "changeKeywords" -> [e EXCEPT !.keywords = op.keywords]
      [] op.kind = "grantRead" ->
            [e EXCEPT !.read[op.reader] = IF @ = Bought THEN Bought ELSE Granted,
                      !.granted = Append(@, op.reader)]
      [] op.kind = "deactivateRead" ->
            [e EXCEPT !.read[op.reader] = IF @ = Bought THEN Bought ELSE NoRead]
      [] OTHER -> [e EXCEPT !.deactivated = TRUE]

\* The contract executes an accepted request.
Execute(op) ==
    /\ files' = [files EXCEPT ![op.did] =
                   [Changed(files[op.did], op) EXCEPT !.nonce = files[op.did].nonce + 1]]
    /\ UNCHANGED memos

\* Somebody buys a read permission; the SDK has no call for it any more.
BuyRead(f, m) ==
    /\ Registered(f) /\ ~ files[f].deactivated
    /\ files' = [files EXCEPT ![f].read[m] = Bought, ![f].bought = Append(@, m)]
    /\ UNCHANGED memos

\* A memo DID is registered through src/memo.
MemoRegistered(m) ==
    /\ m \notin memos
    /\ memos' = memos \cup {m}
    /\ UNCHANGED files
=============================================================================
