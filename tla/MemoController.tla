--------------------------- MODULE MemoController ---------------------------
(***************************************************************************)
(* MemoDIDController (src/memo/controller.go): several callers, each with  *)
(* its own controller and account, change memo DIDs through the signed     *)
(* calls of SignedCall against the contract of MemoRegistry.               *)
(***************************************************************************)
EXTENDS SignedCall, MemoRegistry

ASSUME RequestsAssumption == Requests \subseteq MemoRequests

\* The expireTime of GetAddRelationShipMessage and AddRelationShip is an int64.
ASSUME Int64Assumption == Expiries \subseteq -Half .. Half - 1

vars == <<callVars, reg>>

Init == CallInit /\ RegInit

\* The method types getVerificationMethod knows; the messages that carry a new
\* key are refused for any other.
SupportedTypes ==
    {"EcdsaSecp256k1VerificationKey2019", "Ed25519VerificationKey2018",
     "EcdsaSecp256k1RecoveryMethod2020"}

getVerificationMethod(mtype) == mtype \in SupportedTypes

Asks(kind) == {op \in Requests : op.kind = kind}

-----------------------------------------------------------------------------
(* The messages.  All but the first embed the nonce the chain holds now.    *)

\* A DID that is about to be created has nonce 0, which is not asked for.
GetRegisterMessage(c) ==
    /\ \E op \in Asks("createDID") :
          getVerificationMethod(op.mtype) /\ Obtain(c, op, 0)
    /\ UNCHANGED reg

\* Faulty variant of GetAddVerificationMethodMessage: any type is signed for.
GetAddMessageUnchecked(c) ==
    /\ \E op \in Asks("addVeri") : Obtain(c, op, reg[op.did].nonce)
    /\ UNCHANGED reg

GetAddVerificationMethodMessage(c) ==
    /\ \E op \in Asks("addVeri") :
          getVerificationMethod(op.mtype) /\ Obtain(c, op, reg[op.did].nonce)
    /\ UNCHANGED reg

GetUpdateVerificationMethodMessage(c) ==
    /\ \E op \in Asks("updateVeri") :
          getVerificationMethod(op.mtype) /\ Obtain(c, op, reg[op.did].nonce)
    /\ UNCHANGED reg

GetDeactivateVerificationMethodMessage(c) ==
    /\ \E op \in Asks("deactivateVeri") : Obtain(c, op, reg[op.did].nonce)
    /\ UNCHANGED reg

\* The relation messages ask for the nonce of the DID in the URL, while the
\* transaction names the DID whose relation changes.
GetAddRelationShipMessage(c) ==
    /\ \E op \in Asks("addRelation") : Obtain(c, op, reg[op.url.did].nonce)
    /\ UNCHANGED reg

GetDeactivateRelationShipMessage(c) ==
    /\ \E op \in Asks("removeRelation") : Obtain(c, op, reg[op.url.did].nonce)
    /\ UNCHANGED reg

\* Faulty variant of GetDeactivateDIDMessage: signs for the nonce after this one.
GetDeactivateDIDMessageAhead(c) ==
    /\ \E op \in Asks("deactivateDID") : Obtain(c, op, reg[op.did].nonce + 1)
    /\ UNCHANGED reg

GetDeactivateDIDMessage(c) ==
    /\ \E op \in Asks("deactivateDID") : Obtain(c, op, reg[op.did].nonce)
    /\ UNCHANGED reg

\* Any of them may return an error instead: unsupported arguments, no node.
MessageRefused(c) == Refuse(c) /\ UNCHANGED reg

-----------------------------------------------------------------------------
(* The calls.  Each sends the signed request it is given.                   *)

Invoke(c, kind) ==
    /\ held[c] # NoAuth
    /\ held[c].op.kind = kind
    /\ Call(c, Accepts(held[c].op, held[c].nonce))
    /\ UNCHANGED reg

RegisterDID(c) == Invoke(c, "createDID")
AddVerificationMethod(c) == Invoke(c, "addVeri")
UpdateVerificationMethod(c) == Invoke(c, "updateVeri")
DeactivateVerificationMethod(c) == Invoke(c, "deactivateVeri")
AddRelationShip(c) == Invoke(c, "addRelation")
DeactivateRelationShip(c) == Invoke(c, "removeRelation")
DeactivateDIDCall(c) == Invoke(c, "deactivateDID")

\* A block contains the next transaction of c's account: the contract executes
\* it, or it reverts and changes nothing.
Mine(c, i) ==
    /\ NextToMine(c, i)
    /\ LET t == txs[c][i] IN
          \/ Accepts(t.op, t.nonce) /\ Execute(t.op) /\ Settle(c, i, TRUE)
          \/ ~ Accepts(t.op, t.nonce) /\ UNCHANGED reg /\ Settle(c, i, FALSE)

PollReceipt(c) == CheckTx(c) /\ UNCHANGED reg

AskMessage(c) ==
    \/ GetRegisterMessage(c)
    \/ GetAddVerificationMethodMessage(c)
    \/ GetUpdateVerificationMethodMessage(c)
    \/ GetDeactivateVerificationMethodMessage(c)
    \/ GetAddRelationShipMessage(c)
    \/ GetDeactivateRelationShipMessage(c)
    \/ GetDeactivateDIDMessage(c)
    \/ MessageRefused(c)

CallX(c) ==
    \/ RegisterDID(c)
    \/ AddVerificationMethod(c)
    \/ UpdateVerificationMethod(c)
    \/ DeactivateVerificationMethod(c)
    \/ AddRelationShip(c)
    \/ DeactivateRelationShip(c)
    \/ DeactivateDIDCall(c)

Next ==
    \E c \in Callers :
        \/ AskMessage(c)
        \/ CallX(c)
        \/ \E i \in DOMAIN txs[c] : Mine(c, i)
        \/ PollReceipt(c)

Spec == Init /\ [][Next]_vars

\* The loop of CheckTx goes on by itself: it sleeps, asks and counts.  Nothing
\* is assumed of the callers or of the chain, which may never mine.
FairSpec == Spec /\ \A c \in Callers : WF_vars(PollReceipt(c))

-----------------------------------------------------------------------------
(* Properties                                                               *)

\* The state of the protocol and of the contract has its type.
TypeOK == CallTypeOK /\ RegTypeOK

\* What a request leaves behind in its DID.
Carries(m, op) == m.mtype = op.mtype /\ m.key = op.key

InForce(op) ==
    LET e == reg[op.did] IN
    CASE op.kind = "createDID" -> e.methods # <<>> /\ Carries(e.methods[1], op)
      [] op.kind = "addVeri" -> \E i \in 2 .. Len(e.methods) : Carries(e.methods[i], op)
      [] op.kind = "updateVeri" ->
            HasMethod(op.did, op.index) /\ Carries(MethodAt(op.did, op.index), op)
      [] op.kind = "deactivateVeri" ->
            HasMethod(op.did, op.index) /\ MethodAt(op.did, op.index).deactivated
      [] op.kind = "addRelation" -> e.rel[op.relation][op.url] = Stored(op)
      [] op.kind = "removeRelation" -> e.rel[op.relation][op.url] = 0
      [] OTHER -> e.deactivated

RelationKinds == {"addRelation", "removeRelation"}

\* Whether other decides anew what op decided.  Nothing does so for a deactivation.
Undoes(other, op) ==
    /\ other.did = op.did
    /\ \/ /\ other.kind = "updateVeri"
          /\ \/ op.kind = "createDID" /\ other.index = 0
             \/ op.kind = "addVeri" /\ other.index > 0
             \/ op.kind = "updateVeri" /\ other.index = op.index
       \/ /\ {other.kind, op.kind} \subseteq RelationKinds
          /\ other.relation = op.relation
          /\ other.url = op.url

\* A caller whose last call returned nil can rely on it: what it asked for is in
\* force in the DID, unless a request that took effect later undoes it.  CheckTx
\* must report on the very transaction of the call, after others of the same
\* account, with the same signature or the opposite request, were given up.
NilIsInForce ==
    \A c \in Callers :
        pc[c] = "ok" =>
            \/ InForce(held[c].op)
            \/ \E s \in Landed : /\ Undoes(TxOf(s).op, held[c].op)
                                 /\ TxOf(s).nonce > held[c].nonce

\* The DID whose nonce a message embeds.
NonceSource(op) == IF op.kind \in {"addRelation", "removeRelation"} THEN op.url.did ELSE op.did

\* A signature never waits for a nonce its DID has still to reach, where it
\* would be refused now and take effect at some later time.  It holds for the
\* requests whose message embeds the nonce of the DID the transaction names.
NoSignatureFromTheFuture ==
    \A c \in Callers :
        held[c] # NoAuth /\ NonceSource(held[c].op) = held[c].op.did =>
            held[c].nonce <= reg[held[c].op.did].nonce

\* Only keys of a type getVerificationMethod knows reach the contract, although
\* AddVerificationMethod, UpdateVerificationMethod and RegisterDID do not look
\* at the type they send.
OnlySupportedTypes ==
    \A d \in Dids : \A i \in DOMAIN reg[d].methods :
        getVerificationMethod(reg[d].methods[i].mtype)

\* Every call returns, mined or not: CheckTx gives up (the bounded loop).
EveryCallReturns == \A c \in Callers : pc[c] = "waiting" ~> pc[c] # "waiting"

\* The nonce of the DID has passed every transaction that is not pending, and a
\* pending one that it has not passed would be accepted now, as it was when it was
\* sent: however often a signature is sent again, a revert ("mined but execution
\* failed") has no other cause than a request that came first.
Passed(t) == t.nonce < reg[t.op.did].nonce

InOrder(t) ==
    /\ t.status = "pending" => Passed(t) \/ Accepts(t.op, t.nonce)
    /\ t.status # "pending" => Passed(t)
    /\ t.status = "ok" => Registered(t.op.did)
    /\ t.status = "ok" /\ t.op.kind = "deactivateDID" => reg[t.op.did].deactivated

NonceOrder == \A c \in Callers : \A i \in DOMAIN txs[c] : InOrder(txs[c][i])

\* SignedRequests counts what took effect on a DID.
nonceBar == [d \in Dids |-> reg[d].nonce]

Promise == INSTANCE SignedRequests WITH
    sent <- sentBar, applied <- Landed, nonceOf <- nonceBar, answer <- answerBar

\* Every call keeps the promise of SignedRequests: nil is returned only if the
\* request of that call took effect, "execution failed" only if it never will, a
\* request leaves only while its nonce is current and takes effect in nonce order.
ImplementsSignedRequests == Promise!AbsSpec
=============================================================================
