------------------------ MODULE MemoControllerProofs ------------------------
(***************************************************************************)
(* Proofs about MemoController, for any callers, requests and bounds: its  *)
(* invariants, and that it implements SignedRequests.                      *)
(***************************************************************************)
EXTENDS MemoController, MemoRegistryProofs, SignedCallProofs

-----------------------------------------------------------------------------
(* Types.                                                                   *)

\* The requests with a key, which getVerificationMethod must know the type of.
Supported(op) ==
    op.kind \in {"createDID", "addVeri", "updateVeri"} => getVerificationMethod(op.mtype)

\* A message embeds the nonce of the DID it takes it from, or 0, and no key of an
\* unknown type.
LEMMA AskMessageEffect ==
    ASSUME TypeOK, NEW c \in Callers, AskMessage(c)
    PROVE  /\ UNCHANGED <<txs, polls, reg>> /\ pc[c] # "waiting"
           /\ \/ Refuse(c)
              \/ \E op \in Requests : \E n \in Nat :
                    Obtain(c, op, n) /\ Supported(op) /\ n <= reg[NonceSource(op)].nonce
  <1>1. \A d \in Dids : reg[d].nonce \in Nat
    BY DEF TypeOK, RegTypeOK, Entry
  <1>2. \A op \in Requests : op.did \in Dids
    BY RequestFields, RequestsAssumption
  <1>3. \A op \in Asks("addRelation") \cup Asks("removeRelation") :
            op \in Requests /\ op.url.did \in Dids
    BY RequestFields, RequestsAssumption DEF Asks, Urls
  <1>. DEFINE Asked(op, n) == Obtain(c, op, n) /\ Supported(op) /\ n <= reg[NonceSource(op)].nonce
              Answered == \/ Refuse(c)
                          \/ \E op \in Requests : \E n \in Nat : Asked(op, n)
  <1>4. ASSUME NEW op \in Requests, NEW n \in Nat, Obtain(c, op, n),
               op.kind \notin {"addRelation", "removeRelation"},
               n <= reg[op.did].nonce, Supported(op)
        PROVE  Answered
    BY <1>4 DEF NonceSource
  <1>5. ASSUME NEW op \in Requests, op.kind \in {"addRelation", "removeRelation"},
               Obtain(c, op, reg[op.url.did].nonce), op.url.did \in Dids
        PROVE  Answered
    <2>1. Supported(op) /\ NonceSource(op) = op.url.did /\ reg[op.url.did].nonce \in Nat
      BY <1>1, <1>5 DEF Supported, NonceSource
    <2>. QED  BY <1>5, <2>1
  <1>6. UNCHANGED reg /\ Answered
    <2>. HIDE DEF Answered
    <2>1. CASE GetRegisterMessage(c)
      BY <2>1, <1>1, <1>2, <1>4 DEF GetRegisterMessage, Asks, Supported
    <2>2. CASE GetAddVerificationMethodMessage(c)
      BY <2>2, <1>1, <1>2, <1>4 DEF GetAddVerificationMethodMessage, Asks, Supported
    <2>3. CASE GetUpdateVerificationMethodMessage(c)
      BY <2>3, <1>1, <1>2, <1>4 DEF GetUpdateVerificationMethodMessage, Asks, Supported
    <2>4. CASE GetDeactivateVerificationMethodMessage(c)
      BY <2>4, <1>1, <1>2, <1>4 DEF GetDeactivateVerificationMethodMessage, Asks, Supported
    <2>5. CASE GetAddRelationShipMessage(c)
      BY <2>5, <1>3, <1>5 DEF GetAddRelationShipMessage, Asks
    <2>6. CASE GetDeactivateRelationShipMessage(c)
      BY <2>6, <1>3, <1>5 DEF GetDeactivateRelationShipMessage, Asks
    <2>7. CASE GetDeactivateDIDMessage(c)
      BY <2>7, <1>1, <1>2, <1>4 DEF GetDeactivateDIDMessage, Asks, Supported
    <2>8. CASE MessageRefused(c)
      BY <2>8 DEF MessageRefused, Answered
    <2>. QED  BY <2>1, <2>2, <2>3, <2>4, <2>5, <2>6, <2>7, <2>8 DEF AskMessage
  <1>7. UNCHANGED <<txs, polls>> /\ pc[c] # "waiting"
    BY <1>6 DEF Obtain, Refuse, MayAsk
  <1>. QED  BY <1>6, <1>7

\* Every X is the same call, with the contract's verdict on the held request.
LEMMA CallXEffect ==
    ASSUME NEW c \in Callers, CallX(c)
    PROVE  /\ held[c] # NoAuth
           /\ Call(c, Accepts(held[c].op, held[c].nonce))
           /\ UNCHANGED reg
  BY DEF CallX, RegisterDID, AddVerificationMethod, UpdateVerificationMethod,
         DeactivateVerificationMethod, AddRelationShip, DeactivateRelationShip,
         DeactivateDIDCall, Invoke

\* A mined transaction was pending; it is executed if the contract accepts it now.
LEMMA MineSettles ==
    ASSUME TypeOK, NEW c \in Callers, NEW i \in DOMAIN txs[c], Mine(c, i)
    PROVE  LET t == txs[c][i] IN
           /\ t \in Tx /\ t.op \in MemoRequests /\ t.op.did \in Dids /\ t.nonce \in Nat
           /\ t.status = "pending"
           /\ \/ Accepts(t.op, t.nonce) /\ Execute(t.op) /\ Settle(c, i, TRUE)
              \/ ~ Accepts(t.op, t.nonce) /\ UNCHANGED reg /\ Settle(c, i, FALSE)
  <1>1. txs[c][i] \in Tx
    BY DEF TypeOK, CallTypeOK
  <1>. QED  BY <1>1, RequestsAssumption, RequestFields DEF Mine, NextToMine, Tx

\* The state has its type: the first conjunct of every invariant below.
THEOREM TypeCorrect == Spec => []TypeOK
  <1>1. Init => TypeOK
    <2>1. EmptyEntry \in Entry
      BY DEF EmptyEntry, Entry
    <2>. QED  BY <2>1, CallInitType DEF Init, RegInit, RegTypeOK, TypeOK
  <1>2. TypeOK /\ [Next]_vars => TypeOK'
    <2>. SUFFICES ASSUME TypeOK, [Next]_vars PROVE CallTypeOK' /\ RegTypeOK'
      BY DEF TypeOK
    <2>0. CallTypeOK /\ RegTypeOK
      BY DEF TypeOK
    <2>1. ASSUME NEW c \in Callers, AskMessage(c) PROVE CallTypeOK' /\ RegTypeOK'
      BY <2>0, <2>1, AskMessageEffect, AskKeepsType DEF RegTypeOK
    <2>2. ASSUME NEW c \in Callers, CallX(c) PROVE CallTypeOK' /\ RegTypeOK'
      <3>1. Accepts(held[c].op, held[c].nonce) \in BOOLEAN
        BY DEF Accepts, Admissible
      <3>. QED  BY <2>0, <2>2, <3>1, CallXEffect, CallKeepsType DEF RegTypeOK
    <2>3. ASSUME NEW c \in Callers, NEW i \in DOMAIN txs[c], Mine(c, i)
          PROVE  CallTypeOK' /\ RegTypeOK'
      <3>1. RegTypeOK'
        BY <2>0, <2>3, MineSettles, ExecuteEffect DEF Accepts, RegTypeOK
      <3>2. \E a \in BOOLEAN : Settle(c, i, a)
        BY <2>3 DEF Mine
      <3>. QED  BY <2>0, <3>1, <3>2, SettleKeepsType
    <2>4. ASSUME NEW c \in Callers, PollReceipt(c) PROVE CallTypeOK' /\ RegTypeOK'
      BY <2>0, <2>4, CheckTxKeepsType DEF PollReceipt, RegTypeOK
    <2>5. CASE UNCHANGED vars
      BY <2>0, <2>5 DEF vars, callVars, CallTypeOK, RegTypeOK
    <2>. QED  BY <2>1, <2>2, <2>3, <2>4, <2>5 DEF Next
  <1>. QED  BY <1>1, <1>2, PTL DEF Spec

-----------------------------------------------------------------------------
(* Nonces.                                                                  *)

\* What the contract would accept before a request on another DID, it accepts
\* after it: the only thing of another DID a request depends on is that a method
\* exists, and methods stay.
LEMMA AcceptsIsStable ==
    ASSUME RegTypeOK, NEW op \in MemoRequests, Admissible(op), Execute(op),
           NEW q \in MemoRequests, NEW n \in Nat, q.did # op.did, Accepts(q, n)
    PROVE  Accepts(q, n)'
  <1>. DEFINE i == GetMethodIndex(q.url.fragment)
  <1>1. /\ q.did \in Dids
        /\ q.kind = "addRelation" => q.url.did \in Dids /\ i \in Int
    <2>1. q.did \in Dids /\ (q.kind = "addRelation" => q.url \in Urls)
      BY RequestFields
    <2>2. q.kind = "addRelation" => q.url.did \in Dids /\ q.url.fragment \in Fragment
      BY <2>1, FragmentsAssumption DEF Urls
    <2>. QED  BY <2>1, <2>2, MethodIndexIsInt
  <1>2. reg'[q.did] = reg[q.did]
    BY <1>1, ExecuteEffect
  <1>3. q.kind = "addRelation" /\ HasMethod(q.url.did, i) => HasMethod(q.url.did, i)'
    <2>. SUFFICES ASSUME q.kind = "addRelation", HasMethod(q.url.did, i)
                  PROVE  HasMethod(q.url.did, i)'
      OBVIOUS
    <2>1. Len(reg'[q.url.did].methods) >= Len(reg[q.url.did].methods)
      BY <1>1, ExecuteEffect
    <2>2. /\ Len(reg[q.url.did].methods) \in Nat
          /\ Len(reg'[q.url.did].methods) \in Nat
      BY <1>1, ExecuteEffect DEF RegTypeOK, Entry
    <2>3. 0 <= i /\ i < Len(reg[q.url.did].methods) /\ i \in Int
      BY <1>1 DEF HasMethod
    <2>4. \A x, y, z \in Int : x < y /\ z >= y => x < z
      OBVIOUS
    <2>5. i < Len(reg'[q.url.did].methods)
      <3>. HIDE DEF i
      <3>. QED  BY <2>1, <2>2, <2>3, <2>4
    <2>. QED  BY <2>3, <2>5 DEF HasMethod
  <1>. QED  BY <1>2, <1>3 DEF Accepts, Admissible, Registered, HasMethod

\* An executed request keeps every other transaction in order: one on the same
\* DID that was acceptable is passed now, one on another DID is as it was.
LEMMA ExecuteKeepsOrder ==
    ASSUME RegTypeOK, NEW op \in MemoRequests, Admissible(op), Execute(op),
           NEW t \in Tx, InOrder(t)
    PROVE  InOrder(t)'
  <1>1. t.op \in MemoRequests /\ t.op.did \in Dids /\ t.nonce \in Nat /\ op.did \in Dids
    BY RequestFields, RequestsAssumption DEF Tx
  <1>2. /\ reg[t.op.did].nonce \in Nat /\ reg'[t.op.did].nonce \in Nat
        /\ reg'[t.op.did].nonce >= reg[t.op.did].nonce
        /\ reg[t.op.did].deactivated => reg'[t.op.did].deactivated
        /\ Len(reg'[t.op.did].methods) >= Len(reg[t.op.did].methods)
        /\ reg[t.op.did].methods \in Seq(Method) /\ reg'[t.op.did].methods \in Seq(Method)
    BY <1>1, ExecuteEffect DEF RegTypeOK, Entry
  <1>3. Passed(t) => Passed(t)'
    BY <1>1, <1>2 DEF Passed
  <1>4. Registered(t.op.did) => Registered(t.op.did)'
    BY <1>2 DEF Registered
  <1>5. Accepts(t.op, t.nonce) => Passed(t)' \/ Accepts(t.op, t.nonce)'
    <2>1. CASE t.op.did = op.did
      BY <2>1, <1>1, <1>2, ExecuteEffect DEF Accepts, Passed
    <2>2. CASE t.op.did # op.did
      BY <2>2, <1>1, AcceptsIsStable
    <2>. QED  BY <2>1, <2>2
  <1>. QED  BY <1>2, <1>3, <1>4, <1>5 DEF InOrder

\* A mined transaction that the contract accepts had the nonce of its DID, which
\* has passed it now; one that it refuses had been passed before.
LEMMA MineEffect ==
    ASSUME TypeOK, NonceOrder, NEW c \in Callers, NEW i \in DOMAIN txs[c], Mine(c, i)
    PROVE  \/ /\ Accepts(txs[c][i].op, txs[c][i].nonce)
              /\ Execute(txs[c][i].op)
              /\ Settle(c, i, TRUE)
           \/ Passed(txs[c][i]) /\ UNCHANGED reg /\ Settle(c, i, FALSE)
  <1>1. Passed(txs[c][i]) \/ Accepts(txs[c][i].op, txs[c][i].nonce)
    BY MineSettles DEF NonceOrder, InOrder
  <1>. QED  BY <1>1, MineSettles

\* The inductive step of NonceOrder.
LEMMA NonceOrderStep == TypeOK /\ TypeOK' /\ NonceOrder /\ [Next]_vars => NonceOrder'
  <1>. SUFFICES ASSUME TypeOK, TypeOK', NonceOrder, [Next]_vars PROVE NonceOrder'
    OBVIOUS
  <1>0. \A b \in Callers : \A j \in DOMAIN txs[b] : txs[b][j] \in Tx /\ InOrder(txs[b][j])
    <2>. SUFFICES ASSUME NEW b \in Callers, NEW j \in DOMAIN txs[b]
                  PROVE  txs[b][j] \in Tx /\ InOrder(txs[b][j])
      OBVIOUS
    <2>1. txs[b] \in Seq(Tx)
      BY DEF TypeOK, CallTypeOK
    <2>. QED  BY <2>1 DEF NonceOrder
  <1>s. SUFFICES ASSUME NEW b \in Callers, NEW j \in DOMAIN txs'[b]
                 PROVE  InOrder(txs[b][j])'
    BY DEF NonceOrder
  <1>1. CASE UNCHANGED <<txs, reg>>
    <2>1. j \in DOMAIN txs[b] /\ InOrder(txs[b][j])
      BY <1>1, <1>0
    <2>. QED  BY <1>1, <2>1 DEF InOrder, Passed, Accepts, Admissible, Registered, HasMethod
  <1>2. ASSUME NEW c \in Callers, CallX(c) PROVE InOrder(txs[b][j])'
    <2>1. /\ held[c] # NoAuth /\ UNCHANGED reg
          /\ Call(c, Accepts(held[c].op, held[c].nonce))
      BY <1>2, CallXEffect
    <2>2. CASE txs' = txs
      BY <1>1, <2>1, <2>2
    <2>3. CASE /\ Len(txs[c]) < MaxTxs /\ txs' = [txs EXCEPT ![c] = Append(@, NewTx(c))]
               /\ Accepts(held[c].op, held[c].nonce)
      <3>1. /\ \A d \in Callers : d # c => txs'[d] = txs[d]
            /\ Len(txs'[c]) = Len(txs[c]) + 1
            /\ \A k \in DOMAIN txs[c] : txs'[c][k] = txs[c][k]
            /\ txs'[c][Len(txs[c]) + 1] = NewTx(c)
            /\ txs'[c] \in Seq(Tx) /\ txs[c] \in Seq(Tx)
        BY <2>1, <2>3, SendEffect DEF TypeOK, CallTypeOK
      <3>2. CASE b = c /\ j = Len(txs[c]) + 1
        <4>1. /\ txs'[b][j].status = "pending" /\ txs'[b][j].op = held[c].op
              /\ txs'[b][j].nonce = held[c].nonce
          BY <3>1, <3>2 DEF NewTx
        <4>. QED  BY <2>1, <2>3, <4>1 DEF InOrder, Accepts, Admissible, Registered, HasMethod
      <3>3. CASE ~ (b = c /\ j = Len(txs[c]) + 1)
        <4>1. j \in DOMAIN txs[b] /\ txs'[b][j] = txs[b][j]
          BY <3>1, <3>3
        <4>2. InOrder(txs[b][j])
          BY <1>0, <4>1
        <4>. QED  BY <2>1, <4>1, <4>2
                  DEF InOrder, Passed, Accepts, Admissible, Registered, HasMethod
      <3>. QED  BY <3>2, <3>3
    <2>4. Accepts(held[c].op, held[c].nonce) \in BOOLEAN
      BY DEF Accepts, Admissible
    <2>. QED  BY <2>1, <2>2, <2>3, <2>4, CallEffect
  <1>3. ASSUME NEW c \in Callers, NEW i \in DOMAIN txs[c], Mine(c, i)
        PROVE  InOrder(txs[b][j])'
    <2>. DEFINE t == txs[c][i]
    <2>1. t \in Tx /\ t.op \in MemoRequests /\ t.op.did \in Dids /\ t.nonce \in Nat
      BY <1>3, MineSettles
    <2>2. CASE Accepts(t.op, t.nonce) /\ Execute(t.op) /\ Settle(c, i, TRUE)
      <3>1. /\ j \in DOMAIN txs[b]
            /\ <<b, j>> # <<c, i>> => txs'[b][j] = txs[b][j]
            /\ txs'[b][j].op = txs[b][j].op /\ txs'[b][j].nonce = txs[b][j].nonce
            /\ txs'[c][i].status = "ok"
        <4>1. PICK a \in BOOLEAN : a = TRUE /\ Settle(c, i, a)
          BY <2>2, Zenon
        <4>2. /\ j \in DOMAIN txs[b]
              /\ <<b, j>> # <<c, i>> => txs'[b][j] = txs[b][j]
              /\ txs'[b][j].op = txs[b][j].op /\ txs'[b][j].nonce = txs[b][j].nonce
              /\ txs'[c][i].status = IF a THEN "ok" ELSE "failed"
          BY <4>1, SettledTx DEF TypeOK
        <4>. QED  BY <4>1, <4>2
      <3>2. CASE <<b, j>> # <<c, i>>
        <4>1. InOrder(txs[b][j]) /\ txs[b][j] \in Tx /\ txs'[b][j] = txs[b][j]
          BY <1>0, <3>1, <3>2
        <4>2. ASSUME NEW u \in Tx, InOrder(u) PROVE InOrder(u)'
          BY <4>2, <2>1, <2>2, ExecuteKeepsOrder DEF Accepts, TypeOK
        <4>3. ASSUME NEW u, u = txs'[b][j], InOrder(u)' PROVE InOrder(txs[b][j])'
          BY <4>3 DEF InOrder, Passed, Accepts, Admissible, Registered, HasMethod
        <4>. QED  BY <4>1, <4>2, <4>3
      <3>3. CASE <<b, j>> = <<c, i>>
        <4>1. /\ reg'[t.op.did].nonce = reg[t.op.did].nonce + 1
              /\ reg[t.op.did].nonce \in Nat /\ reg'[t.op.did].methods # <<>>
              /\ t.op.kind = "deactivateDID" => reg'[t.op.did].deactivated
          BY <2>1, <2>2, ExecuteEffect DEF Accepts, TypeOK, RegTypeOK, Entry
        <4>2. /\ txs'[b][j].status = "ok" /\ txs'[b][j].op = t.op
              /\ txs'[b][j].nonce = t.nonce /\ t.nonce = reg[t.op.did].nonce
          BY <2>2, <3>1, <3>3 DEF Accepts
        <4>3. Passed(txs[b][j])' /\ Registered(txs[b][j].op.did)'
          BY <4>1, <4>2 DEF Passed, Registered
        <4>. QED  BY <4>1, <4>2, <4>3 DEF InOrder
      <3>. QED  BY <3>2, <3>3
    <2>3. CASE Passed(t) /\ UNCHANGED reg /\ Settle(c, i, FALSE)
      <3>1. /\ j \in DOMAIN txs[b]
            /\ <<b, j>> # <<c, i>> => txs'[b][j] = txs[b][j]
            /\ txs'[b][j].op = txs[b][j].op /\ txs'[b][j].nonce = txs[b][j].nonce
            /\ txs'[c][i].status = "failed"
        <4>1. PICK a \in BOOLEAN : a = FALSE /\ Settle(c, i, a)
          BY <2>3, Zenon
        <4>2. /\ j \in DOMAIN txs[b]
              /\ <<b, j>> # <<c, i>> => txs'[b][j] = txs[b][j]
              /\ txs'[b][j].op = txs[b][j].op /\ txs'[b][j].nonce = txs[b][j].nonce
              /\ txs'[c][i].status = IF a THEN "ok" ELSE "failed"
          BY <4>1, SettledTx DEF TypeOK
        <4>. QED  BY <4>1, <4>2
      <3>2. CASE <<b, j>> # <<c, i>>
        <4>1. InOrder(txs[b][j]) /\ txs'[b][j] = txs[b][j]
          BY <1>0, <3>1, <3>2
        <4>. QED  BY <2>3, <4>1 DEF InOrder, Passed, Accepts, Admissible, Registered, HasMethod
      <3>3. CASE <<b, j>> = <<c, i>>
        <4>1. /\ txs'[b][j].status = "failed" /\ txs'[b][j].op = t.op
              /\ txs'[b][j].nonce = t.nonce
          BY <3>1, <3>3
        <4>. QED  BY <2>3, <4>1 DEF InOrder, Passed
      <3>. QED  BY <3>2, <3>3
    <2>. QED  BY <1>3, <2>2, <2>3, MineEffect
  <1>4. ASSUME NEW c \in Callers, AskMessage(c) \/ PollReceipt(c) PROVE InOrder(txs[b][j])'
    BY <1>1, <1>4, AskMessageEffect, PollEffect DEF PollReceipt, TypeOK
  <1>. QED  BY <1>1, <1>2, <1>3, <1>4 DEF Next, vars, callVars

\* The nonce of a DID has passed every transaction that is not pending.
THEOREM NonceOrderHolds == Spec => []NonceOrder
  <1>1. Init => NonceOrder
    BY DEF Init, CallInit, NonceOrder
  <1>2. Spec => []TypeOK
    BY TypeCorrect
  <1>. QED  BY <1>1, <1>2, NonceOrderStep, PTL DEF Spec

\* The nonce of a DID only grows.
LEMMA NonceGrows ==
    ASSUME TypeOK, [Next]_vars, NEW d \in Dids
    PROVE  reg[d].nonce \in Nat /\ reg'[d].nonce \in Nat /\ reg'[d].nonce >= reg[d].nonce
  <1>1. reg[d].nonce \in Nat
    BY DEF TypeOK, RegTypeOK, Entry
  <1>2. CASE UNCHANGED reg
    BY <1>1, <1>2
  <1>3. ASSUME NEW c \in Callers, NEW i \in DOMAIN txs[c], Mine(c, i), ~ UNCHANGED reg
        PROVE  reg'[d].nonce \in Nat /\ reg'[d].nonce >= reg[d].nonce
    <2>1. txs[c][i].op \in MemoRequests /\ Admissible(txs[c][i].op) /\ Execute(txs[c][i].op)
      BY <1>3, MineSettles DEF Accepts
    <2>2. RegTypeOK' /\ reg'[d].nonce >= reg[d].nonce
      BY <2>1, ExecuteEffect DEF TypeOK
    <2>. QED  BY <2>2 DEF RegTypeOK, Entry
  <1>4. ASSUME NEW c \in Callers, AskMessage(c) \/ CallX(c) \/ PollReceipt(c)
        PROVE  UNCHANGED reg
    BY <1>4, AskMessageEffect, CallXEffect DEF PollReceipt
  <1>. QED  BY <1>1, <1>2, <1>3, <1>4 DEF Next, vars

\* No signature waits for a nonce its DID has still to reach: a message embeds a
\* nonce the DID has reached, and a nonce only grows.
THEOREM NoSignatureIsAhead == Spec => []NoSignatureFromTheFuture
  <1>1. Init => NoSignatureFromTheFuture
    BY DEF Init, CallInit, NoSignatureFromTheFuture
  <1>2. TypeOK /\ NoSignatureFromTheFuture /\ [Next]_vars => NoSignatureFromTheFuture'
    <2>. SUFFICES ASSUME TypeOK, NoSignatureFromTheFuture, [Next]_vars,
                         NEW b \in Callers, held'[b] # NoAuth,
                         NonceSource(held'[b].op) = held'[b].op.did
                  PROVE  held'[b].nonce <= reg'[held'[b].op.did].nonce
      BY DEF NoSignatureFromTheFuture, NonceSource
    <2>1. CASE held'[b] = held[b]
      <3>1. held[b] \in Auth /\ held[b].op.did \in Dids /\ held[b].nonce \in Nat
        <4>1. held[b] \in Auth
          BY <2>1 DEF TypeOK, CallTypeOK
        <4>. QED  BY <4>1, RequestsAssumption, RequestFields DEF Auth
      <3>2. held[b].nonce <= reg[held[b].op.did].nonce
        BY <2>1 DEF NoSignatureFromTheFuture, NonceSource
      <3>3. /\ reg[held[b].op.did].nonce \in Nat /\ reg'[held[b].op.did].nonce \in Nat
            /\ reg'[held[b].op.did].nonce >= reg[held[b].op.did].nonce
        BY <3>1, NonceGrows
      <3>. QED  BY <2>1, <3>1, <3>2, <3>3
    <2>2. ASSUME NEW c \in Callers, AskMessage(c), held'[b] # held[b]
          PROVE  held'[b].nonce <= reg'[held'[b].op.did].nonce
      <3>1. CASE Refuse(c)
        BY <2>2, <3>1 DEF Refuse, TypeOK, CallTypeOK
      <3>2. ASSUME NEW op \in Requests, NEW n \in Nat, Obtain(c, op, n),
                   n <= reg[NonceSource(op)].nonce, UNCHANGED reg
            PROVE  held'[b].nonce <= reg'[held'[b].op.did].nonce
        <4>1. held'[b] = [op |-> op, nonce |-> n]
          BY <2>2, <3>2 DEF Obtain, TypeOK, CallTypeOK
        <4>. QED  BY <3>2, <4>1
      <3>. QED  BY <2>2, <3>1, <3>2, AskMessageEffect
    <2>3. ASSUME ~ \E c \in Callers : AskMessage(c) PROVE held' = held
      <3>1. ASSUME NEW c \in Callers, CallX(c) PROVE held' = held
        BY <3>1, CallXEffect DEF Call, Send, SendAnswerLost, SendFails
      <3>2. ASSUME NEW c \in Callers, NEW i \in DOMAIN txs[c], Mine(c, i) PROVE held' = held
        BY <3>2 DEF Mine, Settle
      <3>3. ASSUME NEW c \in Callers, PollReceipt(c) PROVE held' = held
        BY <3>3, PollEffect DEF PollReceipt, TypeOK
      <3>. QED  BY <2>3, <3>1, <3>2, <3>3 DEF Next, vars, callVars
    <2>. QED  BY <2>1, <2>2, <2>3
  <1>. QED  BY <1>1, <1>2, TypeCorrect, PTL DEF Spec

-----------------------------------------------------------------------------
(* Keys.                                                                    *)

\* Why OnlySupportedTypes holds although no X looks at the type: every request with
\* a key that is held or was sent went through a message that did.
SupportedInFlight ==
    /\ \A c \in Callers : held[c] # NoAuth => Supported(held[c].op)
    /\ \A c \in Callers : \A i \in DOMAIN txs[c] : Supported(txs[c][i].op)

\* A step keeps keys of unsupported types out of the signed messages and transactions.
LEMMA SupportedStep == TypeOK /\ SupportedInFlight /\ [Next]_vars => SupportedInFlight'
  <1>. SUFFICES ASSUME TypeOK, SupportedInFlight, [Next]_vars PROVE SupportedInFlight'
    OBVIOUS
  <1>1. ASSUME NEW c \in Callers, AskMessage(c) PROVE SupportedInFlight'
    <2>1. \A b \in Callers : held'[b] # NoAuth => Supported(held'[b].op)
      <3>1. CASE Refuse(c)
        BY <3>1 DEF Refuse, SupportedInFlight, TypeOK, CallTypeOK
      <3>2. ASSUME NEW op \in Requests, NEW n \in Nat, Obtain(c, op, n), Supported(op)
            PROVE  \A b \in Callers : held'[b] # NoAuth => Supported(held'[b].op)
        <4>1. \A b \in Callers : held'[b] = held[b] \/ held'[b].op = op
          BY <3>2 DEF Obtain, TypeOK, CallTypeOK
        <4>. QED  BY <3>2, <4>1 DEF SupportedInFlight
      <3>. QED  BY <1>1, <3>1, <3>2, AskMessageEffect
    <2>. QED  BY <1>1, <2>1, AskMessageEffect DEF SupportedInFlight, Supported
  <1>2. ASSUME NEW c \in Callers, CallX(c) PROVE SupportedInFlight'
    <2>1. held[c] # NoAuth /\ Call(c, Accepts(held[c].op, held[c].nonce)) /\ UNCHANGED held
      BY <1>2, CallXEffect DEF Call, Send, SendAnswerLost, SendFails
    <2>2. CASE txs' = txs
      BY <2>1, <2>2 DEF SupportedInFlight, Supported
    <2>3. CASE Len(txs[c]) < MaxTxs /\ txs' = [txs EXCEPT ![c] = Append(@, NewTx(c))]
      <3>1. /\ \A b \in Callers : b # c => txs'[b] = txs[b]
            /\ Len(txs'[c]) = Len(txs[c]) + 1
            /\ \A k \in DOMAIN txs[c] : txs'[c][k] = txs[c][k]
            /\ txs'[c][Len(txs[c]) + 1] = NewTx(c)
            /\ txs'[c] \in Seq(Tx) /\ txs[c] \in Seq(Tx)
        BY <2>1, <2>3, SendEffect DEF TypeOK, CallTypeOK
      <3>2. Supported(NewTx(c).op)
        BY <2>1 DEF SupportedInFlight, NewTx
      <3>3. ASSUME NEW b \in Callers, NEW k \in DOMAIN txs'[b] PROVE Supported(txs'[b][k].op)
        <4>1. CASE b = c /\ k = Len(txs[c]) + 1
          BY <3>1, <3>2, <4>1
        <4>2. CASE ~ (b = c /\ k = Len(txs[c]) + 1)
          <5>1. k \in DOMAIN txs[b] /\ txs'[b][k] = txs[b][k]
            BY <3>1, <4>2
          <5>. QED  BY <5>1 DEF SupportedInFlight
        <4>. QED  BY <4>1, <4>2
      <3>. QED  BY <2>1, <3>3 DEF SupportedInFlight, Supported
    <2>. QED  BY <2>1, <2>2, <2>3 DEF Call, Send, SendAnswerLost, SendFails
  <1>3. ASSUME NEW c \in Callers, NEW i \in DOMAIN txs[c], Mine(c, i) PROVE SupportedInFlight'
    <2>1. PICK a \in BOOLEAN : Settle(c, i, a)
      BY <1>3 DEF Mine
    <2>2. ASSUME NEW b \in Callers, NEW k \in DOMAIN txs'[b] PROVE Supported(txs'[b][k].op)
      <3>1. k \in DOMAIN txs[b] /\ txs'[b][k].op = txs[b][k].op
        BY <2>1, SettledTx DEF TypeOK
      <3>. QED  BY <3>1 DEF SupportedInFlight
    <2>. QED  BY <2>1, <2>2 DEF Settle, SupportedInFlight, Supported
  <1>4. ASSUME NEW c \in Callers, PollReceipt(c) PROVE SupportedInFlight'
    BY <1>4, PollEffect DEF PollReceipt, TypeOK, SupportedInFlight, Supported
  <1>5. CASE UNCHANGED vars
    BY <1>5 DEF vars, callVars, SupportedInFlight, Supported
  <1>. QED  BY <1>1, <1>2, <1>3, <1>4, <1>5 DEF Next

\* Only keys of a type getVerificationMethod knows reach the contract.
THEOREM KeysAreSupported == Spec => []OnlySupportedTypes
  <1>1. Init => SupportedInFlight /\ OnlySupportedTypes
    BY DEF Init, CallInit, RegInit, EmptyEntry, SupportedInFlight, OnlySupportedTypes
  <1>2. /\ TypeOK /\ SupportedInFlight /\ OnlySupportedTypes /\ [Next]_vars
        => SupportedInFlight' /\ OnlySupportedTypes'
    <2>. SUFFICES ASSUME TypeOK, SupportedInFlight, OnlySupportedTypes, [Next]_vars
                  PROVE  OnlySupportedTypes'
      BY SupportedStep
    <2>1. CASE UNCHANGED reg
      BY <2>1 DEF OnlySupportedTypes, getVerificationMethod
    <2>2. ASSUME NEW op \in MemoRequests, Supported(op), Admissible(op), Execute(op)
          PROVE  OnlySupportedTypes'
      <3>. SUFFICES ASSUME NEW d \in Dids, NEW i \in DOMAIN reg'[d].methods
                    PROVE  getVerificationMethod(reg'[d].methods[i].mtype)
        BY DEF OnlySupportedTypes, getVerificationMethod
      <3>1. \/ /\ i \in DOMAIN reg[d].methods
               /\ reg'[d].methods[i].mtype = reg[d].methods[i].mtype
            \/ /\ op.kind \in {"createDID", "addVeri", "updateVeri"}
               /\ reg'[d].methods[i].mtype = op.mtype
        BY <2>2, ExecuteTypes DEF TypeOK
      <3>. QED  BY <2>2, <3>1 DEF OnlySupportedTypes, Supported
    <2>3. ASSUME NEW c \in Callers, NEW i \in DOMAIN txs[c], Mine(c, i)
          PROVE  OnlySupportedTypes'
      BY <2>1, <2>2, <2>3, MineSettles DEF Accepts, SupportedInFlight
    <2>4. ASSUME NEW c \in Callers, AskMessage(c) \/ CallX(c) \/ PollReceipt(c)
          PROVE  UNCHANGED reg
      BY <2>4, AskMessageEffect, CallXEffect DEF PollReceipt
    <2>. QED  BY <2>1, <2>3, <2>4 DEF Next, vars
  <1>. QED  BY <1>1, <1>2, TypeCorrect, PTL DEF Spec

-----------------------------------------------------------------------------
(* What a nil stands for.                                                   *)

\* A landed transaction is one of some caller, it is well typed and passed.
LEMMA LandedFacts ==
    ASSUME TypeOK, NonceOrder, NEW id \in Landed
    PROVE  /\ TxOf(id) \in Tx /\ TxOf(id).nonce \in Nat
           /\ TxOf(id).op \in MemoRequests /\ TxOf(id).op.did \in Dids
           /\ Passed(TxOf(id)) /\ Registered(TxOf(id).op.did)
  <1>1. /\ id[1] \in Callers /\ id[2] \in DOMAIN txs[id[1]]
        /\ TxOf(id) = txs[id[1]][id[2]] /\ TxOf(id).status = "ok"
    BY DEF Landed, TxOf
  <1>2. txs[id[1]] \in Seq(Tx)
    BY <1>1 DEF TypeOK, CallTypeOK
  <1>3. TxOf(id) \in Tx
    BY <1>1, <1>2
  <1>4. TxOf(id).op \in MemoRequests /\ TxOf(id).op.did \in Dids /\ TxOf(id).nonce \in Nat
    BY <1>3, RequestsAssumption, RequestFields DEF Tx
  <1>. QED  BY <1>1, <1>3, <1>4 DEF NonceOrder, InOrder

\* What a step does to the landed transactions: nothing, or one that was pending
\* joins them, is executed and carries the nonce its DID had.
LEMMA LandedStep ==
    ASSUME TypeOK, [Next]_vars
    PROVE  /\ \A id \in Landed : TxOf(id)' = TxOf(id)
           /\ \/ Landed' = Landed /\ UNCHANGED reg
              \/ \E c \in Callers : \E i \in DOMAIN txs[c] :
                    /\ Landed' = Landed \cup {<<c, i>>} /\ <<c, i>> \notin Landed
                    /\ TxOf(<<c, i>>)'.op = txs[c][i].op
                    /\ TxOf(<<c, i>>)'.nonce = txs[c][i].nonce
                    /\ Accepts(txs[c][i].op, txs[c][i].nonce) /\ Execute(txs[c][i].op)
                    /\ txs[c][i].op \in MemoRequests
  <1>1. ASSUME txs' = txs
        PROVE  Landed' = Landed /\ \A id \in Landed : TxOf(id)' = TxOf(id)
    BY <1>1 DEF Landed, TxOf
  <1>2. ASSUME NEW c \in Callers, NEW i \in DOMAIN txs[c], Mine(c, i)
        PROVE  /\ \A id \in Landed : TxOf(id)' = TxOf(id)
               /\ \/ Landed' = Landed /\ UNCHANGED reg
                  \/ /\ Landed' = Landed \cup {<<c, i>>} /\ <<c, i>> \notin Landed
                     /\ TxOf(<<c, i>>)'.op = txs[c][i].op
                     /\ TxOf(<<c, i>>)'.nonce = txs[c][i].nonce
                     /\ Accepts(txs[c][i].op, txs[c][i].nonce) /\ Execute(txs[c][i].op)
                     /\ txs[c][i].op \in MemoRequests
    <2>1. txs[c][i].status = "pending" /\ txs[c][i].op \in MemoRequests
      BY <1>2, MineSettles
    <2>2. PICK a \in BOOLEAN :
             /\ Settle(c, i, a)
             /\ a => Accepts(txs[c][i].op, txs[c][i].nonce) /\ Execute(txs[c][i].op)
             /\ ~ a => UNCHANGED reg
      BY <1>2, MineSettles
    <2>. QED  BY <2>1, <2>2, SettleLands DEF TypeOK
  <1>3. ASSUME NEW c \in Callers, CallX(c)
        PROVE  /\ Landed' = Landed /\ \A id \in Landed : TxOf(id)' = TxOf(id)
               /\ UNCHANGED reg
    <2>1. held[c] # NoAuth
          /\ \/ txs' = txs
             \/ Len(txs[c]) < MaxTxs /\ txs' = [txs EXCEPT ![c] = Append(@, NewTx(c))]
      BY <1>3, CallXEffect DEF Call, Send, SendAnswerLost, SendFails
    <2>. QED  BY <1>1, <1>3, <2>1, CallXEffect, SendLandsNothing DEF TypeOK
  <1>4. ASSUME NEW c \in Callers, AskMessage(c) \/ PollReceipt(c) PROVE UNCHANGED <<txs, reg>>
    BY <1>4, AskMessageEffect, PollEffect DEF PollReceipt, TypeOK
  <1>5. CASE UNCHANGED vars
    BY <1>1, <1>5 DEF vars, callVars
  <1>. QED  BY <1>1, <1>2, <1>3, <1>4, <1>5 DEF Next

\* What was in force stays in force when a request is executed, unless that request
\* undoes it: methods stay where they are, and only an update changes their keys.
LEMMA InForceKept ==
    ASSUME RegTypeOK, NEW op \in MemoRequests, Admissible(op), Execute(op),
           NEW q \in MemoRequests, Registered(q.did), InForce(q)
    PROVE  InForce(q)' \/ Undoes(op, q)
  <1>. SUFFICES ASSUME ~ Undoes(op, q) PROVE InForce(q)'
    OBVIOUS
  <1>. DEFINE e == reg[q.did]
              f == reg'[q.did]
  <1>1. q.did \in Dids /\ e.methods \in Seq(Method) /\ f.methods \in Seq(Method)
    BY RequestFields, ExecuteEffect DEF RegTypeOK, Entry
  <1>2. /\ Len(f.methods) >= Len(e.methods)
        /\ e.deactivated => f.deactivated
        /\ Len(f.methods) \in Nat /\ Len(e.methods) \in Nat
    BY <1>1, ExecuteEffect
  <1>k. ASSUME NEW i \in DOMAIN e.methods, Carries(e.methods[i], q),
               ~ (op.kind = "updateVeri" /\ op.did = q.did /\ i = op.index + 1)
        PROVE  i \in DOMAIN f.methods /\ Carries(f.methods[i], q)
    BY <1>1, <1>k, ExecuteKeepsMethod DEF Carries
  <1>3. CASE q.kind = "createDID"
    <2>1. 1 \in DOMAIN e.methods /\ Carries(e.methods[1], q)
      BY <1>1, <1>3 DEF InForce
    <2>2. ~ (op.kind = "updateVeri" /\ op.did = q.did /\ 1 = op.index + 1)
      BY <1>3, RequestFields DEF Undoes
    <2>3. 1 \in DOMAIN f.methods /\ Carries(f.methods[1], q)
      BY <2>1, <2>2, <1>k
    <2>. QED  BY <1>1, <1>3, <2>3 DEF InForce, Carries
  <1>4. CASE q.kind = "addVeri"
    <2>1. PICK i \in 2 .. Len(e.methods) : Carries(e.methods[i], q)
      BY <1>4 DEF InForce
    <2>2. ~ (op.kind = "updateVeri" /\ op.did = q.did /\ i = op.index + 1)
      BY <1>4, RequestFields DEF Undoes
    <2>3. i \in DOMAIN f.methods /\ Carries(f.methods[i], q)
      BY <1>1, <2>1, <2>2, <1>k
    <2>4. i \in 2 .. Len(f.methods)
      BY <1>1, <2>1, <2>3
    <2>. QED  BY <1>4, <2>3, <2>4 DEF InForce, Carries
  <1>5. CASE q.kind = "updateVeri"
    <2>1. /\ q.index \in Int /\ q.index + 1 \in DOMAIN e.methods
          /\ Carries(e.methods[q.index + 1], q)
      BY <1>1, <1>5, RequestFields DEF InForce, HasMethod, MethodAt
    <2>2. ~ (op.kind = "updateVeri" /\ op.did = q.did /\ q.index + 1 = op.index + 1)
      BY <1>5, <2>1, RequestFields DEF Undoes
    <2>3. q.index + 1 \in DOMAIN f.methods /\ Carries(f.methods[q.index + 1], q)
      BY <2>1, <2>2, <1>k
    <2>4. HasMethod(q.did, q.index)'
      BY <1>1, <2>1, <2>3 DEF HasMethod
    <2>. QED  BY <1>5, <2>3, <2>4 DEF InForce, Carries, MethodAt
  <1>6. CASE q.kind = "deactivateVeri"
    <2>1. /\ q.index \in Int /\ q.index + 1 \in DOMAIN e.methods
          /\ e.methods[q.index + 1].deactivated
      BY <1>1, <1>6, RequestFields DEF InForce, HasMethod, MethodAt
    <2>2. f.methods[q.index + 1].deactivated
      BY <1>1, <2>1, ExecuteMethods
    <2>3. HasMethod(q.did, q.index)'
      <3>1. q.index < Len(e.methods) /\ 0 <= q.index
        BY <1>1, <2>1
      <3>2. 0 <= q.index /\ q.index < Len(f.methods)
        <4>. HIDE DEF e, f
        <4>. QED  BY <1>2, <2>1, <3>1
      <3>. QED  BY <3>2 DEF HasMethod
    <2>. QED  BY <1>6, <2>2, <2>3 DEF InForce, MethodAt
  <1>7. CASE q.kind \in RelationKinds
    <2>1. q.relation \in Relations /\ q.url \in Urls
      BY <1>7, RequestFields DEF RelationKinds
    <2>2. f.rel[q.relation][q.url] = e.rel[q.relation][q.url]
      <3>1. ~ (/\ op.did = q.did /\ op.kind \in {"addRelation", "removeRelation"}
               /\ op.relation = q.relation /\ op.url = q.url)
        BY <1>7 DEF Undoes, RelationKinds
      <3>. QED  BY <1>1, <2>1, <3>1, ExecutedRelation
    <2>3. CASE q.kind = "addRelation"
      BY <2>2, <2>3 DEF InForce, Stored
    <2>4. CASE q.kind = "removeRelation"
      BY <2>2, <2>4 DEF InForce
    <2>. QED  BY <1>7, <2>3, <2>4 DEF RelationKinds
  <1>8. CASE q.kind \notin {"createDID", "addVeri", "updateVeri", "deactivateVeri",
                            "addRelation", "removeRelation"}
    BY <1>2, <1>8 DEF InForce
  <1>. QED  BY <1>3, <1>4, <1>5, <1>6, <1>7, <1>8 DEF RelationKinds

\* An executed request is in force.
LEMMA ExecutedIsInForce ==
    ASSUME RegTypeOK, NEW op \in MemoRequests, Admissible(op), Execute(op)
    PROVE  InForce(op)'
  <1>. DEFINE f == reg'[op.did]
  <1>1. /\ op.kind = "createDID" => f.methods # <<>> /\ Carries(f.methods[1], op)
        /\ op.kind = "addVeri" => \E i \in 2 .. Len(f.methods) : Carries(f.methods[i], op)
        /\ op.kind = "updateVeri" =>
              HasMethod(op.did, op.index)' /\ Carries(f.methods[op.index + 1], op)
        /\ op.kind = "deactivateVeri" =>
              HasMethod(op.did, op.index)' /\ f.methods[op.index + 1].deactivated
    BY ExecutedMethod DEF Carries
  <1>2. op.kind \in RelationKinds =>
           f.rel[op.relation][op.url] = IF op.kind = "addRelation" THEN Stored(op) ELSE 0
    BY RequestFields, ExecutedRelation DEF RelationKinds
  <1>3. op.kind = "deactivateDID" => f.deactivated
    BY ExecuteEffect
  <1>4. op.kind \in {"createDID", "addVeri", "updateVeri", "deactivateVeri",
                     "addRelation", "removeRelation", "deactivateDID"}
    BY DEF MemoRequests, CreateDID, AddVeri, UpdateVeri, DeactivateVeri, AddRelation,
           RemoveRelation, DeactivateDID
  <1>5. CASE op.kind \in {"createDID", "addVeri", "updateVeri", "deactivateVeri"}
    BY <1>1, <1>5 DEF InForce, Carries, MethodAt
  <1>6. CASE op.kind \in {"addRelation", "removeRelation", "deactivateDID"}
    BY <1>2, <1>3, <1>6 DEF InForce, RelationKinds, Stored
  <1>. QED  BY <1>4, <1>5, <1>6

\* The first half of why NilIsInForce holds: what a landed transaction asked for is
\* in force, or one that undoes it landed later.
EffectHolds ==
    \A t \in Landed :
        \/ InForce(TxOf(t).op)
        \/ \E s \in Landed : /\ Undoes(TxOf(s).op, TxOf(t).op)
                             /\ TxOf(s).nonce > TxOf(t).nonce

\* A step leaves every landed transaction in force or undone.
LEMMA EffectStep == TypeOK /\ NonceOrder /\ EffectHolds /\ [Next]_vars => EffectHolds'
  <1>. SUFFICES ASSUME TypeOK, NonceOrder, EffectHolds, [Next]_vars,
                       NEW t \in Landed', NEW u, u = TxOf(t)'
                PROVE  \/ InForce(u.op)'
                       \/ \E s \in Landed' : /\ Undoes(TxOf(s)'.op, u.op)
                                             /\ TxOf(s)'.nonce > u.nonce
    BY DEF EffectHolds, Undoes, InForce, HasMethod, MethodAt, Carries, Stored
  <1>1. t \in Landed => u = TxOf(t)
    BY LandedStep
  <1>2. ASSUME t \in Landed, ~ InForce(u.op)
        PROVE  \E s \in Landed' : /\ Undoes(TxOf(s)'.op, u.op)
                                  /\ TxOf(s)'.nonce > u.nonce
    <2>1. PICK s \in Landed : Undoes(TxOf(s).op, u.op) /\ TxOf(s).nonce > u.nonce
      BY <1>1, <1>2 DEF EffectHolds
    <2>2. s \in Landed' /\ TxOf(s)' = TxOf(s)
      BY LandedStep
    <2>. QED  BY <2>1, <2>2
  <1>3. CASE Landed' = Landed /\ UNCHANGED reg
    <2>1. InForce(u.op) => InForce(u.op)'
      BY <1>3 DEF InForce, HasMethod, MethodAt, Carries, Stored
    <2>. QED  BY <1>2, <1>3, <2>1
  <1>4. ASSUME NEW c \in Callers, NEW i \in DOMAIN txs[c], NEW v \in Tx, v = txs[c][i],
               Landed' = Landed \cup {<<c, i>>},
               TxOf(<<c, i>>)'.op = v.op, TxOf(<<c, i>>)'.nonce = v.nonce,
               Accepts(v.op, v.nonce), Execute(v.op), v.op \in MemoRequests
        PROVE  \/ InForce(u.op)'
               \/ \E s \in Landed' : /\ Undoes(TxOf(s)'.op, u.op)
                                     /\ TxOf(s)'.nonce > u.nonce
    <2>1. RegTypeOK /\ Admissible(v.op)
      BY <1>4 DEF TypeOK, Accepts
    <2>2. CASE t = <<c, i>>
      <3>1. u.op = v.op
        BY <1>4, <2>2
      <3>. QED  BY <1>4, <2>1, <3>1, ExecutedIsInForce
    <2>3. CASE t \in Landed /\ InForce(u.op)
      <3>1. /\ u.op \in MemoRequests /\ Registered(u.op.did) /\ u.nonce \in Nat
            /\ u.nonce < reg[u.op.did].nonce
        BY <1>1, <2>3, LandedFacts DEF Passed
      <3>2. InForce(u.op)' \/ Undoes(v.op, u.op)
        BY <1>4, <2>1, <2>3, <3>1, InForceKept
      <3>3. Undoes(v.op, u.op) => v.nonce > u.nonce
        <4>1. Undoes(v.op, u.op) => v.op.did = u.op.did
          BY DEF Undoes
        <4>2. reg[u.op.did].nonce \in Nat
          BY <3>1, <2>1, RequestFields DEF RegTypeOK, Entry
        <4>. QED  BY <1>4, <3>1, <4>1, <4>2 DEF Accepts
      <3>. QED  BY <1>4, <3>2, <3>3
    <2>. QED  BY <1>2, <1>4, <2>2, <2>3
  <1>5. \A c \in Callers : \A i \in DOMAIN txs[c] : txs[c][i] \in Tx
    BY DEF TypeOK, CallTypeOK
  <1>6. CASE ~ (Landed' = Landed /\ UNCHANGED reg)
    <2>1. PICK c \in Callers : \E i \in DOMAIN txs[c] :
             /\ Landed' = Landed \cup {<<c, i>>}
             /\ TxOf(<<c, i>>)'.op = txs[c][i].op
             /\ TxOf(<<c, i>>)'.nonce = txs[c][i].nonce
             /\ Accepts(txs[c][i].op, txs[c][i].nonce) /\ Execute(txs[c][i].op)
             /\ txs[c][i].op \in MemoRequests
      BY <1>6, LandedStep
    <2>2. PICK i \in DOMAIN txs[c] :
             /\ Landed' = Landed \cup {<<c, i>>}
             /\ TxOf(<<c, i>>)'.op = txs[c][i].op
             /\ TxOf(<<c, i>>)'.nonce = txs[c][i].nonce
             /\ Accepts(txs[c][i].op, txs[c][i].nonce) /\ Execute(txs[c][i].op)
             /\ txs[c][i].op \in MemoRequests
      BY <2>1
    <2>. QED  BY <1>4, <1>5, <2>2
  <1>. QED  BY <1>3, <1>6

\* The second half: a nil means that the signed message held has landed.
LEMMA AnswerStaysTrue == TypeOK /\ AnswerHolds /\ [Next]_vars => AnswerHolds'
  <1>. SUFFICES ASSUME TypeOK, AnswerHolds, [Next]_vars PROVE AnswerHolds'
    OBVIOUS
  <1>l. /\ Landed \subseteq Landed' /\ \A id \in Landed : TxOf(id)' = TxOf(id)
        /\ CallTypeOK
    BY LandedStep DEF TypeOK
  <1>1. ASSUME NEW c \in Callers, AskMessage(c) PROVE AnswerHolds'
    BY <1>1, <1>l, AskMessageEffect, AnswerHoldsStep
  <1>2. ASSUME NEW c \in Callers, CallX(c) PROVE AnswerHolds'
    <2>1. Accepts(held[c].op, held[c].nonce) \in BOOLEAN
      BY DEF Accepts, Admissible
    <2>. QED  BY <1>2, <1>l, <2>1, CallXEffect, AnswerHoldsStep
  <1>3. ASSUME NEW c \in Callers, NEW i \in DOMAIN txs[c], Mine(c, i) PROVE AnswerHolds'
    <2>1. \E a \in BOOLEAN : Settle(c, i, a)
      BY <1>3 DEF Mine
    <2>. QED  BY <1>l, <2>1, AnswerHoldsStep
  <1>4. ASSUME NEW c \in Callers, PollReceipt(c) PROVE AnswerHolds'
    BY <1>4, <1>l, AnswerHoldsStep DEF PollReceipt
  <1>5. CASE UNCHANGED vars
    BY <1>5, <1>l, AnswerHoldsStep DEF vars
  <1>. QED  BY <1>1, <1>2, <1>3, <1>4, <1>5 DEF Next

\* A caller whose call returned nil can rely on it.
THEOREM NilCanBeReliedOn == Spec => []NilIsInForce
  <1>1. Init => EffectHolds /\ AnswerHolds
    BY DEF Init, CallInit, EffectHolds, AnswerHolds, Landed
  <1>2. TypeOK /\ EffectHolds /\ AnswerHolds => NilIsInForce
    <2>. SUFFICES ASSUME EffectHolds, AnswerHolds, NEW c \in Callers, pc[c] = "ok"
                  PROVE  \/ InForce(held[c].op)
                         \/ \E s \in Landed : /\ Undoes(TxOf(s).op, held[c].op)
                                              /\ TxOf(s).nonce > held[c].nonce
      BY DEF NilIsInForce
    <2>1. PICK t \in Landed : Bare(TxOf(t)) = held[c]
      BY DEF AnswerHolds
    <2>2. held[c].op = TxOf(t).op /\ held[c].nonce = TxOf(t).nonce
      BY <2>1 DEF Bare
    <2>. QED  BY <2>2 DEF EffectHolds
  <1>. QED  BY <1>1, <1>2, EffectStep, AnswerStaysTrue, TypeCorrect, NonceOrderHolds, PTL
            DEF Spec

-----------------------------------------------------------------------------
(* The promise of SignedRequests.                                           *)

\* A message obtained or refused, and a call that sends nothing, prepare a call.
LEMMA PrepareStep ==
    ASSUME TypeOK, NEW c \in Callers, pc[c] # "waiting",
           NEW p \in {"signed", "error"}, pc' = [pc EXCEPT ![c] = p],
           UNCHANGED <<txs, reg>>
    PROVE  Promise!Prepare(c)
  <1>1. answerBar' = [answerBar EXCEPT ![c] = AnswerOf(p)] /\ AnswerOf(p) \in {"none", "unknown"}
    BY AnswerStep DEF AnswerOf, TypeOK
  <1>2. answerBar[c] # "open"
    BY DEF answerBar, AnswerOf
  <1>3. UNCHANGED <<sentBar, Landed, nonceBar>>
    BY DEF sentBar, Landed, nonceBar
  <1>. QED  BY <1>1, <1>2, <1>3 DEF Promise!Prepare

\* A sent transaction is an issued request, whether or not its answer is lost.
LEMMA IssueStep ==
    ASSUME TypeOK, NEW c \in Callers, MayCall(c), Len(txs[c]) < MaxTxs,
           Accepts(held[c].op, held[c].nonce),
           NEW p \in {"waiting", "error"}, pc' = [pc EXCEPT ![c] = p],
           txs' = [txs EXCEPT ![c] = Append(@, NewTx(c))], UNCHANGED reg
    PROVE  Promise!Issue(c)
  <1>. DEFINE a == [op |-> held[c].op, nonce |-> nonceBar[held[c].op.did]]
  <1>1. answerBar' = [answerBar EXCEPT ![c] = AnswerOf(p)] /\ AnswerOf(p) \in {"open", "unknown"}
    BY AnswerStep DEF AnswerOf, TypeOK
  <1>2. answerBar[c] # "open"
    BY DEF MayCall, answerBar, AnswerOf
  <1>3. held[c].op \in Requests /\ held[c].op.did \in Dids
    <2>1. held[c] \in Auth
      BY DEF MayCall, TypeOK, CallTypeOK
    <2>. QED  BY <2>1, RequestsAssumption, RequestFields DEF Auth
  <1>4. a = Bare(NewTx(c))
    BY <1>3 DEF Accepts, nonceBar, NewTx, Bare
  <1>5. sentBar' = [sentBar EXCEPT ![c] = Append(@, a)]
    BY <1>4, SentStep DEF MayCall, TypeOK
  <1>6. Landed' = Landed /\ nonceBar' = nonceBar
    BY SendLandsNothing DEF MayCall, nonceBar, TypeOK
  <1>. QED  BY <1>1, <1>2, <1>3, <1>5, <1>6 DEF Promise!Issue

\* A mined transaction takes effect at its nonce, or it reverts and stutters.
LEMMA ApplyStep ==
    ASSUME TypeOK, NEW c \in Callers, NEW i \in DOMAIN txs[c], Mine(c, i)
    PROVE  Promise!Apply(c, i) \/ UNCHANGED <<sentBar, Landed, nonceBar, answerBar>>
  <1>. DEFINE op == txs[c][i].op
  <1>1. op \in MemoRequests /\ op.did \in Dids /\ txs[c][i].status = "pending"
    BY MineSettles
  <1>2. PICK a \in BOOLEAN :
           /\ Settle(c, i, a)
           /\ a => Accepts(op, txs[c][i].nonce) /\ Execute(op)
           /\ ~ a => UNCHANGED reg
    BY MineSettles
  <1>3. UNCHANGED <<sentBar, answerBar>>
    BY <1>2, SettleSendsNothing DEF TypeOK
  <1>4. Landed' = IF a THEN Landed \cup {<<c, i>>} ELSE Landed
    BY <1>1, <1>2, SettleLands DEF TypeOK
  <1>5. CASE ~ a
    BY <1>2, <1>3, <1>4, <1>5 DEF nonceBar
  <1>6. CASE a
    <2>1. /\ reg'[op.did].nonce = reg[op.did].nonce + 1
          /\ \A d \in Dids : d # op.did => reg'[d] = reg[d]
      BY <1>1, <1>2, <1>6, ExecuteEffect DEF TypeOK, Accepts
    <2>2. nonceBar' = [nonceBar EXCEPT ![op.did] = @ + 1]
      BY <1>1, <2>1 DEF nonceBar
    <2>3. /\ i \in DOMAIN sentBar[c] /\ sentBar[c][i].op = op
          /\ sentBar[c][i].nonce = txs[c][i].nonce
      BY DEF sentBar, Bare
    <2>4. txs[c][i].nonce = nonceBar[op.did]
      BY <1>1, <1>2, <1>6 DEF Accepts, nonceBar
    <2>. QED  BY <1>3, <1>4, <1>6, <2>2, <2>3, <2>4 DEF Promise!Apply
  <1>. QED  BY <1>5, <1>6

\* What CheckTx returns is the truth about the last request, or is not definite.
LEMMA AnswerIsTrue ==
    ASSUME TypeOK, NonceOrder, NEW c \in Callers, PollReceipt(c)
    PROVE  Promise!Answer(c) \/ UNCHANGED <<sentBar, Landed, nonceBar, answerBar>>
  <1>. DEFINE n == Len(txs[c])
              t == txs[c][n]
  <1>0. CallTypeOK /\ CheckTx(c) /\ UNCHANGED reg
    BY DEF PollReceipt, TypeOK
  <1>1. UNCHANGED <<sentBar, Landed, nonceBar>> /\ pc[c] = "waiting"
    BY <1>0, PollEffect DEF sentBar, Landed, nonceBar
  <1>2. answerBar[c] = "open"
    BY <1>1 DEF answerBar, AnswerOf
  <1>3. n \in DOMAIN txs[c] /\ n \in 1 .. MaxTxs /\ t \in Tx /\ n = Len(sentBar[c])
        /\ sentBar[c][n].nonce = t.nonce /\ sentBar[c][n].op = t.op /\ t.op.did \in Dids
    <2>1. n \in DOMAIN txs[c] /\ n \in 1 .. MaxTxs /\ t \in Tx /\ n = Len(sentBar[c])
          /\ sentBar[c][n].nonce = t.nonce /\ sentBar[c][n].op = t.op
      BY <1>0, <1>1, WatchedIsLastSent
    <2>. QED  BY <2>1, RequestsAssumption, RequestFields DEF Tx
  <1>4. CASE UNCHANGED pc
    BY <1>1, <1>4 DEF answerBar
  <1>5. CASE pc' = [pc EXCEPT ![c] = "notPackaged"]
    <2>1. answerBar' = [answerBar EXCEPT ![c] = "unknown"]
      BY <1>0, <1>5, AnswerStep DEF AnswerOf
    <2>. QED  BY <1>1, <1>2, <2>1 DEF Promise!Answer
  <1>6. CASE pc' = [pc EXCEPT ![c] = "ok"] /\ t.status = "ok"
    <2>1. answerBar' = [answerBar EXCEPT ![c] = "yes"]
      BY <1>0, <1>6, AnswerStep DEF AnswerOf
    <2>2. <<c, n>> \in Landed
      BY <1>3, <1>6 DEF Landed
    <2>. QED  BY <1>1, <1>2, <1>3, <2>1, <2>2 DEF Promise!Answer
  <1>7. CASE pc' = [pc EXCEPT ![c] = "failed"] /\ t.status = "failed"
    <2>1. answerBar' = [answerBar EXCEPT ![c] = "no"]
      BY <1>0, <1>7, AnswerStep DEF AnswerOf
    <2>2. <<c, n>> \notin Landed
      BY <1>7 DEF Landed
    <2>3. t.nonce < nonceBar[t.op.did]
      BY <1>3, <1>7 DEF NonceOrder, InOrder, Passed, nonceBar
    <2>4. Promise!Overtaken(c, n)
      BY <1>3, <2>2, <2>3 DEF Promise!Overtaken
    <2>. QED  BY <1>1, <1>2, <1>3, <2>1, <2>4 DEF Promise!Answer
  <1>. QED  BY <1>0, <1>4, <1>5, <1>6, <1>7, PollEffect

\* Every step is a step of SignedRequests or a stutter.
LEMMA PromiseStep ==
    TypeOK /\ NonceOrder /\ [Next]_vars => [Promise!AbsNext]_(Promise!absVars)
  <1>. SUFFICES ASSUME TypeOK, NonceOrder, [Next]_vars
                PROVE  \/ Promise!AbsNext
                       \/ UNCHANGED <<sentBar, Landed, nonceBar, answerBar>>
    BY DEF Promise!absVars
  <1>1. CASE UNCHANGED vars
    BY <1>1 DEF vars, callVars, sentBar, Landed, nonceBar, answerBar
  <1>2. ASSUME NEW c \in Callers, AskMessage(c) PROVE Promise!Prepare(c)
    BY <1>2, AskMessageEffect, PrepareStep DEF Obtain, Refuse
  <1>3. ASSUME NEW c \in Callers, CallX(c) PROVE Promise!Prepare(c) \/ Promise!Issue(c)
    <2>1. Call(c, Accepts(held[c].op, held[c].nonce)) /\ UNCHANGED reg
      BY <1>3, CallXEffect
    <2>2. CASE SendFails(c)
      BY <2>1, <2>2, PrepareStep DEF SendFails, MayCall
    <2>3. CASE Send(c, Accepts(held[c].op, held[c].nonce))
      BY <2>1, <2>3, IssueStep DEF Send
    <2>4. CASE SendAnswerLost(c, Accepts(held[c].op, held[c].nonce))
      BY <2>1, <2>4, IssueStep DEF SendAnswerLost
    <2>. QED  BY <2>1, <2>2, <2>3, <2>4 DEF Call
  <1>4. ASSUME NEW c \in Callers, NEW i \in DOMAIN txs[c], Mine(c, i)
        PROVE  \/ Promise!Apply(c, i) /\ i \in DOMAIN sentBar[c]
               \/ UNCHANGED <<sentBar, Landed, nonceBar, answerBar>>
    BY <1>4, ApplyStep DEF sentBar
  <1>5. ASSUME NEW c \in Callers, PollReceipt(c)
        PROVE  Promise!Answer(c) \/ UNCHANGED <<sentBar, Landed, nonceBar, answerBar>>
    BY <1>5, AnswerIsTrue
  <1>. QED  BY <1>1, <1>2, <1>3, <1>4, <1>5 DEF Next, Promise!AbsNext

\* Every call keeps the promise of SignedRequests, whatever callers and chain do.
THEOREM PromiseKept == Spec => ImplementsSignedRequests
  <1>1. Init => Promise!AbsInit
    BY DEF Init, CallInit, RegInit, EmptyEntry, Promise!AbsInit, sentBar, Landed,
           nonceBar, answerBar, AnswerOf
  <1>. QED  BY <1>1, PromiseStep, TypeCorrect, NonceOrderHolds, PTL
            DEF Spec, ImplementsSignedRequests, Promise!AbsSpec
=============================================================================
