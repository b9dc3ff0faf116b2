--------------------------- MODULE MfileController ---------------------------
(***************************************************************************)
(* MfileDIDController (src/mfile/controller.go): the signed calls of       *)
(* SignedCall against the file contract of MfileRegistry.                  *)
(***************************************************************************)
EXTENDS SignedCall, MfileRegistry

ASSUME RequestsAssumption == Requests \subseteq MfileRequests

chainVars == <<files, memos>>
vars == <<callVars, chainVars>>

Init == CallInit /\ FilesInit

Asks(kind) == {op \in Requests : op.kind = kind}

-----------------------------------------------------------------------------
(* The messages.                                                            *)

\* The nonce comes from GetNonce, which answers for memo DIDs.  What it answers for
\* the identifier of a file, a content hash, is the contract's own: taken to be 0, the
\* nonce of a DID that is not there.
GetRegisterDIDMessage(c) ==
    /\ \E op \in Asks("registerFile") : Obtain(c, op, 0)
    /\ UNCHANGED chainVars

\* The others embed the nonce the file has now.
Current(c, kind) ==
    /\ \E op \in Asks(kind) : Obtain(c, op, files[op.did].nonce)
    /\ UNCHANGED chainVars

GetChangeControllerMessage(c) == Current(c, "changeController")
GetChangeFileTypeMessage(c) == Current(c, "changeFtype")
GetChangePriceMessage(c) == Current(c, "changePrice")
GetChangeKeywordsMessage(c) == Current(c, "changeKeywords")
GetAddRelationShipMessage(c) == Current(c, "grantRead")
GetDeactivateRelationShipMessage(c) == Current(c, "deactivateRead")
GetDeactivateDIDMessage(c) == Current(c, "deactivateFile")

\* Any of them may return an error instead: an unknown relation type, no node.
MessageRefused(c) == Refuse(c) /\ UNCHANGED chainVars

-----------------------------------------------------------------------------
(* The calls.                                                               *)

Invoke(c, kind) ==
    /\ held[c] # NoAuth
    /\ held[c].op.kind = kind
    /\ Call(c, Accepts(held[c].op, held[c].nonce))
    /\ UNCHANGED chainVars

RegisterDID(c) == Invoke(c, "registerFile")
ChangeController(c) == Invoke(c, "changeController")
ChangeFileType(c) == Invoke(c, "changeFtype")
ChangePrice(c) == Invoke(c, "changePrice")
ChangeKeywords(c) == Invoke(c, "changeKeywords")
AddRelationShip(c) == Invoke(c, "grantRead")
DeactivateRelationShip(c) == Invoke(c, "deactivateRead")
DeactivateDID(c) == Invoke(c, "deactivateFile")

\* A block contains the next transaction of c's account.
Mine(c, i) ==
    /\ NextToMine(c, i)
    /\ LET t == txs[c][i] IN
          \/ Accepts(t.op, t.nonce) /\ Execute(t.op) /\ Settle(c, i, TRUE)
          \/ ~ Accepts(t.op, t.nonce) /\ UNCHANGED chainVars /\ Settle(c, i, FALSE)

\* mfile has its own copy of CheckTx.
PollReceipt(c) == CheckTx(c) /\ UNCHANGED chainVars

AskMessage(c) ==
    \/ GetRegisterDIDMessage(c)
    \/ GetChangeControllerMessage(c)
    \/ GetChangeFileTypeMessage(c)
    \/ GetChangePriceMessage(c)
    \/ GetChangeKeywordsMessage(c)
    \/ GetAddRelationShipMessage(c)
    \/ GetDeactivateRelationShipMessage(c)
    \/ GetDeactivateDIDMessage(c)
    \/ MessageRefused(c)

CallX(c) ==
    \/ RegisterDID(c)
    \/ ChangeController(c)
    \/ ChangeFileType(c)
    \/ ChangePrice(c)
    \/ ChangeKeywords(c)
    \/ AddRelationShip(c)
    \/ DeactivateRelationShip(c)
    \/ DeactivateDID(c)

\* Memo DIDs are registered elsewhere meanwhile.
Elsewhere == (\E m \in Memos : MemoRegistered(m)) /\ UNCHANGED callVars

Next ==
    \/ \E c \in Callers :
          \/ AskMessage(c)
          \/ CallX(c)
          \/ \E i \in DOMAIN txs[c] : Mine(c, i)
          \/ PollReceipt(c)
    \/ Elsewhere

Spec == Init /\ [][Next]_vars

-----------------------------------------------------------------------------
(* Properties                                                               *)

\* The state of the protocol and of the contract has its type.
TypeOK == CallTypeOK /\ FilesTypeOK

\* What a request leaves behind in its file.
InForce(op) ==
    LET f == files[op.did] IN
    CASE op.kind = "registerFile" -> f.controller # NoMemo
      [] op.kind = "changeController" -> f.controller = op.controller
      [] op.kind = "changeFtype" -> f.ftype = op.ftype
      [] op.kind = "changePrice" -> f.price = op.price
      [] op.kind = "changeKeywords" -> f.keywords = op.keywords
      [] op.kind = "grantRead" -> f.read[op.reader] # NoRead
      [] op.kind = "deactivateRead" -> f.read[op.reader] # Granted
      [] OTHER -> f.deactivated

ReadKinds == {"grantRead", "deactivateRead"}

\* Requests that decide the same thing.
SameSubject(op, other) ==
    /\ op.did = other.did
    /\ \/ op.kind = other.kind /\ op.kind \notin ReadKinds
       \/ op.kind \in ReadKinds /\ other.kind \in ReadKinds /\ op.reader = other.reader

\* A caller whose last call returned nil can rely on it: what it asked for is in
\* force in the file, unless a request on the same subject took effect later.  It
\* takes CheckTx to report on the very transaction of the call, after others
\* of the same account with the same or the opposite request were given up.
NilIsInForce ==
    \A c \in Callers :
        pc[c] = "ok" =>
            \/ InForce(held[c].op)
            \/ \E s \in Landed : /\ SameSubject(TxOf(s).op, held[c].op)
                                 /\ TxOf(s).nonce > held[c].nonce

\* The nonce of the file has passed every transaction that has a receipt, and a
\* pending one that it has not passed would be accepted now, as it was when it was
\* sent: however requests on one file cross each other, a nonce is never given to
\* two of them, and a revert has no other cause than a request that came first.
Passed(t) == t.nonce < files[t.op.did].nonce

InOrder(t) ==
    /\ t.status = "pending" => Passed(t) \/ Accepts(t.op, t.nonce)
    /\ t.status # "pending" => Passed(t)
    /\ t.status = "ok" => Registered(t.op.did)

NonceOrder == \A c \in Callers : \A i \in DOMAIN txs[c] : InOrder(txs[c][i])

\* SignedRequests counts what took effect on a file.
nonceBar == [f \in Files |-> files[f].nonce]

Promise == INSTANCE SignedRequests WITH
    Dids <- Files, sent <- sentBar, applied <- Landed, nonceOf <- nonceBar, answer <- answerBar

\* The calls of the mfile controller keep the promise of SignedRequests too.
ImplementsSignedRequests == Promise!AbsSpec
=============================================================================
