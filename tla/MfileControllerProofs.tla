------------------------ MODULE MfileControllerProofs ------------------------
(***************************************************************************)
(* Proofs about MfileController, for any callers, requests and bounds: its *)
(* invariants, and that it implements SignedRequests.                      *)
(***************************************************************************)
EXTENDS MfileController, MfileRegistryProofs, SignedCallProofs

-----------------------------------------------------------------------------
(* Types.                                                                   *)

\* A message embeds a natural number, obtained without moving the chain.
LEMMA AskMessageEffect ==
    ASSUME TypeOK, NEW c \in Callers, AskMessage(c)
    PROVE  /\ UNCHANGED <<txs, polls, chainVars>> /\ pc[c] # "waiting"
           /\ \/ Refuse(c)
              \/ \E op \in Requests : \E n \in Nat : Obtain(c, op, n)
  <1>1. ASSUME NEW k, Current(c, k)
        PROVE  UNCHANGED chainVars /\ \E op \in Requests : \E n \in Nat : Obtain(c, op, n)
    <2>1. \A op \in Requests : files[op.did].nonce \in Nat
      BY RequestFields, RequestsAssumption DEF TypeOK, FilesTypeOK, Entry
    <2>. QED  BY <1>1, <2>1 DEF Current, Asks
  <1>2. /\ UNCHANGED chainVars
        /\ Refuse(c) \/ \E op \in Requests : \E n \in Nat : Obtain(c, op, n)
    <2>1. CASE GetRegisterDIDMessage(c)
      BY <2>1 DEF GetRegisterDIDMessage, Asks
    <2>2. CASE MessageRefused(c)
      BY <2>2 DEF MessageRefused
    <2>3. CASE \E k : Current(c, k)
      BY <1>1, <2>3
    <2>. QED  BY <2>1, <2>2, <2>3
              DEF AskMessage, GetChangeControllerMessage, GetChangeFileTypeMessage,
                  GetChangePriceMessage, GetChangeKeywordsMessage, GetAddRelationShipMessage,
                  GetDeactivateRelationShipMessage, GetDeactivateDIDMessage
  <1>3. UNCHANGED <<txs, polls>> /\ pc[c] # "waiting"
    BY <1>2 DEF Obtain, Refuse, MayAsk
  <1>. QED  BY <1>2, <1>3

\* Every X is the same call, with the contract's verdict on the held request.
LEMMA CallXEffect ==
    ASSUME NEW c \in Callers, CallX(c)
    PROVE  /\ held[c] # NoAuth
           /\ Call(c, Accepts(held[c].op, held[c].nonce))
           /\ UNCHANGED chainVars
  BY DEF CallX, RegisterDID, ChangeController, ChangeFileType, ChangePrice, ChangeKeywords,
         AddRelationShip, DeactivateRelationShip, DeactivateDID, Invoke

\* A mined transaction was pending; it is executed if the contract accepts it now.
LEMMA MineSettles ==
    ASSUME TypeOK, NEW c \in Callers, NEW i \in DOMAIN txs[c], Mine(c, i)
    PROVE  LET t == txs[c][i] IN
           /\ t \in Tx /\ t.op \in MfileRequests /\ t.op.did \in Files /\ t.nonce \in Nat
           /\ t.status = "pending"
           /\ \/ Accepts(t.op, t.nonce) /\ Execute(t.op) /\ Settle(c, i, TRUE)
              \/ ~ Accepts(t.op, t.nonce) /\ UNCHANGED chainVars /\ Settle(c, i, FALSE)
  <1>1. txs[c][i] \in Tx
    BY DEF TypeOK, CallTypeOK
  <1>. QED  BY <1>1, RequestsAssumption, RequestFields DEF Mine, NextToMine, Tx

\* The state has its type: the first conjunct of every invariant below.
THEOREM TypeCorrect == Spec => []TypeOK
  <1>1. Init => TypeOK
    BY CallInitType, EmptyIsEntry DEF Init, FilesInit, FilesTypeOK, TypeOK
  <1>2. TypeOK /\ [Next]_vars => TypeOK'
    <2>. SUFFICES ASSUME TypeOK, [Next]_vars PROVE CallTypeOK' /\ FilesTypeOK'
      BY DEF TypeOK
    <2>0. CallTypeOK /\ FilesTypeOK
      BY DEF TypeOK
    <2>u. UNCHANGED chainVars => FilesTypeOK'
      BY <2>0 DEF chainVars, FilesTypeOK
    <2>1. ASSUME NEW c \in Callers, AskMessage(c) PROVE CallTypeOK' /\ FilesTypeOK'
      BY <2>0, <2>u, <2>1, AskMessageEffect, AskKeepsType
    <2>2. ASSUME NEW c \in Callers, CallX(c) PROVE CallTypeOK' /\ FilesTypeOK'
      <3>1. Accepts(held[c].op, held[c].nonce) \in BOOLEAN
        BY DEF Accepts, Admissible
      <3>. QED  BY <2>0, <2>u, <2>2, <3>1, CallXEffect, CallKeepsType
    <2>3. ASSUME NEW c \in Callers, NEW i \in DOMAIN txs[c], Mine(c, i)
          PROVE  CallTypeOK' /\ FilesTypeOK'
      <3>1. FilesTypeOK'
        BY <2>0, <2>u, <2>3, MineSettles, ExecuteEffect DEF Accepts
      <3>2. \E a \in BOOLEAN : Settle(c, i, a)
        BY <2>3 DEF Mine
      <3>. QED  BY <2>0, <3>1, <3>2, SettleKeepsType
    <2>4. ASSUME NEW c \in Callers, PollReceipt(c) PROVE CallTypeOK' /\ FilesTypeOK'
      BY <2>0, <2>u, <2>4, CheckTxKeepsType DEF PollReceipt
    <2>5. CASE Elsewhere
      BY <2>0, <2>5 DEF Elsewhere, MemoRegistered, callVars, CallTypeOK, FilesTypeOK
    <2>6. CASE UNCHANGED vars
      BY <2>0, <2>u, <2>6 DEF vars, callVars, CallTypeOK
    <2>. QED  BY <2>1, <2>2, <2>3, <2>4, <2>5, <2>6 DEF Next
  <1>. QED  BY <1>1, <1>2, PTL DEF Spec

-----------------------------------------------------------------------------
(* Nonces.                                                                  *)

\* A transaction stays in order while no file changes; a memo DID that is
\* registered meanwhile takes no verdict back.
LEMMA OrderIsStable ==
    ASSUME UNCHANGED files, memos \subseteq memos', NEW t \in Tx, InOrder(t)
    PROVE  InOrder(t)'
  BY DEF InOrder, Passed, Accepts, Admissible, Registered

\* An executed request keeps every other transaction in order: one on the same
\* file that was acceptable is passed now, one on another file is as it was.
LEMMA ExecuteKeepsOrder ==
    ASSUME FilesTypeOK, NEW op \in MfileRequests, Admissible(op), Execute(op),
           NEW t \in Tx, InOrder(t)
    PROVE  InOrder(t)'
  <1>1. t.op \in MfileRequests /\ t.op.did \in Files /\ t.nonce \in Nat /\ op.did \in Files
    BY RequestFields, RequestsAssumption DEF Tx
  <1>2. /\ files'[op.did].nonce = files[op.did].nonce + 1
        /\ \A f \in Files : f # op.did => files'[f] = files[f]
        /\ memos' = memos /\ Registered(op.did)'
    BY ExecuteEffect
  <1>3. files[t.op.did].nonce \in Nat
    BY <1>1 DEF FilesTypeOK, Entry
  <1>4. CASE t.op.did = op.did
    <2>1. Passed(t) => Passed(t)'
      BY <1>1, <1>2, <1>3, <1>4 DEF Passed
    <2>2. Accepts(t.op, t.nonce) => Passed(t)'
      BY <1>1, <1>2, <1>3, <1>4 DEF Accepts, Passed
    <2>3. Registered(t.op.did)'
      BY <1>2, <1>4 DEF Registered
    <2>. QED  BY <2>1, <2>2, <2>3 DEF InOrder
  <1>5. CASE t.op.did # op.did
    <2>1. files'[t.op.did] = files[t.op.did] /\ memos' = memos
      BY <1>1, <1>2, <1>5
    <2>. QED  BY <2>1 DEF InOrder, Passed, Accepts, Admissible, Registered
  <1>. QED  BY <1>4, <1>5

\* A mined transaction that the contract refuses had been passed before.
LEMMA MineEffect ==
    ASSUME TypeOK, NonceOrder, NEW c \in Callers, NEW i \in DOMAIN txs[c], Mine(c, i)
    PROVE  LET t == txs[c][i] IN
           \/ Accepts(t.op, t.nonce) /\ Execute(t.op) /\ Settle(c, i, TRUE)
           \/ Passed(t) /\ UNCHANGED chainVars /\ Settle(c, i, FALSE)
  <1>1. Passed(txs[c][i]) \/ Accepts(txs[c][i].op, txs[c][i].nonce)
    BY MineSettles DEF NonceOrder, InOrder
  <1>. QED  BY <1>1, MineSettles

\* The inductive step of NonceOrder.
LEMMA NonceOrderStep == TypeOK /\ NonceOrder /\ [Next]_vars => NonceOrder'
  <1>. SUFFICES ASSUME TypeOK, NonceOrder, [Next]_vars,
                       NEW b \in Callers, NEW j \in DOMAIN txs'[b], NEW u, u = txs'[b][j]
                PROVE  InOrder(u)'
    BY DEF NonceOrder, InOrder, Passed, Accepts, Admissible, Registered
  <1>0. \A d \in Callers : \A k \in DOMAIN txs[d] : txs[d][k] \in Tx /\ InOrder(txs[d][k])
    <2>. SUFFICES ASSUME NEW d \in Callers, NEW k \in DOMAIN txs[d]
                  PROVE  txs[d][k] \in Tx /\ InOrder(txs[d][k])
      OBVIOUS
    <2>1. txs[d] \in Seq(Tx)
      BY DEF TypeOK, CallTypeOK
    <2>. QED  BY <2>1 DEF NonceOrder
  <1>k. ASSUME j \in DOMAIN txs[b], u = txs[b][j], UNCHANGED files, memos \subseteq memos'
        PROVE  InOrder(u)'
    <2>1. u \in Tx /\ InOrder(u)
      BY <1>k, <1>0
    <2>. QED  BY <1>k, <2>1, OrderIsStable
  <1>1. CASE UNCHANGED txs /\ UNCHANGED files /\ memos \subseteq memos'
    BY <1>1, <1>k
  <1>2. ASSUME NEW c \in Callers, CallX(c) PROVE InOrder(u)'
    <2>1. /\ held[c] # NoAuth /\ UNCHANGED chainVars
          /\ Call(c, Accepts(held[c].op, held[c].nonce))
      BY <1>2, CallXEffect
    <2>2. CASE txs' = txs
      BY <1>1, <2>1, <2>2 DEF chainVars
    <2>3. CASE /\ Len(txs[c]) < MaxTxs /\ txs' = [txs EXCEPT ![c] = Append(@, NewTx(c))]
               /\ Accepts(held[c].op, held[c].nonce)
      <3>1. /\ \A d \in Callers : d # c => txs'[d] = txs[d]
            /\ Len(txs'[c]) = Len(txs[c]) + 1
            /\ \A k \in DOMAIN txs[c] : txs'[c][k] = txs[c][k]
            /\ txs'[c][Len(txs[c]) + 1] = NewTx(c)
            /\ txs'[c] \in Seq(Tx) /\ txs[c] \in Seq(Tx)
        BY <2>1, <2>3, SendEffect DEF TypeOK, CallTypeOK
      <3>2. CASE b = c /\ j = Len(txs[c]) + 1
        <4>1. u.status = "pending" /\ u.op = held[c].op /\ u.nonce = held[c].nonce
          BY <3>1, <3>2 DEF NewTx
        <4>2. u \in Tx
          BY <3>1, <3>2
        <4>3. InOrder(u)
          BY <2>3, <4>1 DEF InOrder
        <4>. QED  BY <2>1, <4>2, <4>3, OrderIsStable DEF chainVars
      <3>3. CASE ~ (b = c /\ j = Len(txs[c]) + 1)
        <4>1. j \in DOMAIN txs[b] /\ u = txs[b][j]
          BY <3>1, <3>3
        <4>. QED  BY <2>1, <4>1, <1>k DEF chainVars
      <3>. QED  BY <3>2, <3>3
    <2>4. Accepts(held[c].op, held[c].nonce) \in BOOLEAN
      BY DEF Accepts, Admissible
    <2>. QED  BY <2>1, <2>2, <2>3, <2>4, CallEffect
  <1>3. ASSUME NEW c \in Callers, NEW i \in DOMAIN txs[c], Mine(c, i) PROVE InOrder(u)'
    <2>0. PICK t : t = txs[c][i]
      OBVIOUS
    <2>1. t \in Tx /\ t.op \in MfileRequests /\ t.op.did \in Files /\ t.nonce \in Nat
      BY <2>0, <1>3, MineSettles
    <2>2. PICK a \in BOOLEAN :
             /\ Settle(c, i, a)
             /\ a => Accepts(t.op, t.nonce) /\ Execute(t.op)
             /\ ~ a => Passed(t) /\ UNCHANGED chainVars
      BY <2>0, <1>3, MineEffect
    <2>3. /\ j \in DOMAIN txs[b]
          /\ <<b, j>> # <<c, i>> => u = txs[b][j]
          /\ u.op = txs[b][j].op /\ u.nonce = txs[b][j].nonce
          /\ <<b, j>> = <<c, i>> => u.status = IF a THEN "ok" ELSE "failed"
      BY <2>2, SettledTx DEF TypeOK
    <2>4. CASE a /\ <<b, j>> # <<c, i>>
      <3>1. u \in Tx /\ InOrder(u)
        BY <1>0, <2>3, <2>4
      <3>. QED  BY <2>1, <2>2, <2>4, <3>1, ExecuteKeepsOrder DEF Accepts, TypeOK
    <2>5. CASE a /\ <<b, j>> = <<c, i>>
      <3>1. /\ files'[t.op.did].nonce = files[t.op.did].nonce + 1
            /\ files[t.op.did].nonce \in Nat /\ Registered(t.op.did)'
        BY <2>1, <2>2, <2>5, ExecuteEffect DEF Accepts, TypeOK, FilesTypeOK, Entry
      <3>2. u.status = "ok" /\ u.op = t.op /\ u.nonce = files[t.op.did].nonce
        BY <2>0, <2>2, <2>3, <2>5 DEF Accepts
      <3>. QED  BY <3>1, <3>2 DEF InOrder, Passed, Registered
    <2>6. CASE ~ a /\ <<b, j>> # <<c, i>>
      BY <1>k, <2>2, <2>3, <2>6 DEF chainVars
    <2>7. CASE ~ a /\ <<b, j>> = <<c, i>>
      <3>1. u.status = "failed" /\ u.op = t.op /\ u.nonce = t.nonce
        BY <2>0, <2>3, <2>7
      <3>. QED  BY <2>2, <2>7, <3>1 DEF InOrder, Passed, chainVars
    <2>. QED  BY <2>4, <2>5, <2>6, <2>7
  <1>4. ASSUME NEW c \in Callers, AskMessage(c) \/ PollReceipt(c) PROVE InOrder(u)'
    BY <1>1, <1>4, AskMessageEffect, PollEffect DEF PollReceipt, TypeOK, chainVars
  <1>5. CASE Elsewhere
    BY <1>1, <1>5 DEF Elsewhere, MemoRegistered, callVars
  <1>. QED  BY <1>1, <1>2, <1>3, <1>4, <1>5 DEF Next, vars, callVars, chainVars

\* The nonce of a file has passed every transaction that has a receipt.
THEOREM NonceOrderHolds == Spec => []NonceOrder
  <1>1. Init => NonceOrder
    BY DEF Init, CallInit, NonceOrder
  <1>. QED  BY <1>1, NonceOrderStep, TypeCorrect, PTL DEF Spec

-----------------------------------------------------------------------------
(* What a nil stands for.                                                   *)

\* What was in force stays in force when a request is executed, unless that request
\* decides the same thing: a registration, which decides everything, comes only
\* before all others.
LEMMA InForceKept ==
    ASSUME FilesTypeOK, NEW op \in MfileRequests, Admissible(op), Execute(op),
           NEW q \in MfileRequests, Registered(q.did), InForce(q)
    PROVE  InForce(q)' \/ SameSubject(op, q)
  <1>1. op.did \in Files /\ q.did \in Files
    BY RequestFields
  <1>2. CASE q.did # op.did
    <2>1. files'[q.did] = files[q.did]
      BY <1>1, <1>2, ExecuteEffect
    <2>. QED  BY <2>1 DEF InForce
  <1>3. CASE q.did = op.did /\ ~ SameSubject(op, q)
    <2>. DEFINE e == files[q.did]
                f == files'[q.did]
    <2>1. op.kind # "registerFile"
      BY <1>3 DEF Admissible
    <2>2. e \in Entry
      BY <1>1 DEF FilesTypeOK
    <2>3. /\ f.deactivated = (e.deactivated \/ op.kind = "deactivateFile")
          /\ f.ftype = IF op.kind = "changeFtype" THEN op.ftype ELSE e.ftype
          /\ f.price = IF op.kind = "changePrice" THEN op.price ELSE e.price
          /\ f.keywords = IF op.kind = "changeKeywords" THEN op.keywords ELSE e.keywords
          /\ op.kind # "changeController" => f.controller = e.controller
          /\ f.controller # NoMemo
          /\ \A m \in Memos : f.read[m] = ReadAfter(e, op, m)
      <3>. DEFINE g == Changed(e, op)
      <3>1. /\ g.deactivated = (e.deactivated \/ op.kind = "deactivateFile")
            /\ g.ftype = IF op.kind = "changeFtype" THEN op.ftype ELSE e.ftype
            /\ g.price = IF op.kind = "changePrice" THEN op.price ELSE e.price
            /\ g.keywords = IF op.kind = "changeKeywords" THEN op.keywords ELSE e.keywords
            /\ op.kind # "changeController" => g.controller = e.controller
            /\ \A m \in Memos : g.read[m] = ReadAfter(e, op, m)
        BY <2>1, <2>2, ChangedEntry
      <3>2. /\ f.deactivated = g.deactivated /\ f.ftype = g.ftype /\ f.price = g.price
            /\ f.keywords = g.keywords /\ f.controller = g.controller /\ f.read = g.read
            /\ f.controller # NoMemo
        BY <1>3, ExecuteEffect DEF Registered
      <3>. HIDE DEF g, e, f
      <3>. QED  BY <3>1, <3>2
    <2>. HIDE DEF e, f
    <2>4. CASE q.kind \notin ReadKinds
      <3>1. op.kind # q.kind
        BY <1>3, <2>4 DEF SameSubject
      <3>. QED  BY <1>3, <2>3, <2>4, <3>1, RequestFields DEF InForce, ReadKinds, e, f
    <2>5. CASE q.kind \in ReadKinds
      <3>1. q.reader \in Memos /\ (op.kind \notin ReadKinds \/ op.reader # q.reader)
        BY <1>3, <2>5, RequestFields DEF SameSubject, ReadKinds
      <3>2. f.read[q.reader] = e.read[q.reader]
        BY <2>3, <3>1 DEF ReadAfter, ReadKinds
      <3>. QED  BY <2>5, <3>2 DEF InForce, ReadKinds, e, f
    <2>. QED  BY <2>4, <2>5
  <1>. QED  BY <1>2, <1>3

\* An executed request is in force.
LEMMA ExecutedIsInForce ==
    ASSUME FilesTypeOK, NEW op \in MfileRequests, Admissible(op), Execute(op)
    PROVE  InForce(op)'
  <1>. DEFINE e == files[op.did]
              f == files'[op.did]
  <1>1. e \in Entry
    BY RequestFields DEF FilesTypeOK
  <1>2. /\ op.kind = "deactivateFile" => f.deactivated
        /\ op.kind = "changeFtype" => f.ftype = op.ftype
        /\ op.kind = "changePrice" => f.price = op.price
        /\ op.kind = "changeKeywords" => f.keywords = op.keywords
        /\ op.kind = "changeController" => f.controller = op.controller
        /\ f.controller # NoMemo
        /\ \A m \in Memos : f.read[m] = ReadAfter(e, op, m)
    <2>. DEFINE g == Changed(e, op)
    <2>1. /\ op.kind = "deactivateFile" => g.deactivated
          /\ op.kind = "changeFtype" => g.ftype = op.ftype
          /\ op.kind = "changePrice" => g.price = op.price
          /\ op.kind = "changeKeywords" => g.keywords = op.keywords
          /\ op.kind = "changeController" => g.controller = op.controller
          /\ \A m \in Memos : g.read[m] = ReadAfter(e, op, m)
      BY <1>1, ChangedEntry
    <2>2. /\ f.deactivated = g.deactivated /\ f.ftype = g.ftype /\ f.price = g.price
          /\ f.keywords = g.keywords /\ f.controller = g.controller /\ f.read = g.read
          /\ f.controller # NoMemo
      BY ExecuteEffect DEF Registered
    <2>. HIDE DEF g, e, f
    <2>. QED  BY <2>1, <2>2
  <1>3. op.kind \in ReadKinds =>
           f.read[op.reader] = IF e.read[op.reader] = Bought THEN Bought
                               ELSE IF op.kind = "grantRead" THEN Granted ELSE NoRead
    BY <1>2, RequestFields DEF ReadAfter, ReadKinds
  <1>4. op.kind = "grantRead" => f.read[op.reader] # NoRead
    BY <1>3 DEF ReadKinds, NoRead, Granted, Bought
  <1>5. op.kind = "deactivateRead" => f.read[op.reader] # Granted
    BY <1>3 DEF ReadKinds, NoRead, Granted, Bought
  <1>. QED  BY <1>2, <1>4, <1>5, RequestFields DEF InForce

\* A landed transaction is one of some caller, it is well typed and passed.
LEMMA LandedFacts ==
    ASSUME TypeOK, NonceOrder, NEW id \in Landed
    PROVE  /\ TxOf(id) \in Tx /\ TxOf(id).nonce \in Nat
           /\ TxOf(id).op \in MfileRequests /\ TxOf(id).op.did \in Files
           /\ Passed(TxOf(id)) /\ Registered(TxOf(id).op.did)
  <1>1. /\ id[1] \in Callers /\ id[2] \in DOMAIN txs[id[1]]
        /\ TxOf(id) = txs[id[1]][id[2]] /\ TxOf(id).status = "ok"
    BY DEF Landed, TxOf
  <1>2. txs[id[1]] \in Seq(Tx)
    BY <1>1 DEF TypeOK, CallTypeOK
  <1>3. TxOf(id) \in Tx
    BY <1>1, <1>2
  <1>4. TxOf(id).op \in MfileRequests /\ TxOf(id).op.did \in Files /\ TxOf(id).nonce \in Nat
    BY <1>3, RequestsAssumption, RequestFields DEF Tx
  <1>. QED  BY <1>1, <1>3, <1>4 DEF NonceOrder, InOrder

\* What a step does to the landed transactions and the files: nothing, or one that
\* was pending is executed and joins them.
LEMMA LandedStep ==
    ASSUME TypeOK, [Next]_vars
    PROVE  /\ \A id \in Landed : TxOf(id)' = TxOf(id)
           /\ \/ Landed' = Landed /\ UNCHANGED files
              \/ \E c \in Callers : \E i \in DOMAIN txs[c] :
                    /\ Landed' = Landed \cup {<<c, i>>} /\ <<c, i>> \notin Landed
                    /\ TxOf(<<c, i>>)'.op = txs[c][i].op
                    /\ TxOf(<<c, i>>)'.nonce = txs[c][i].nonce
                    /\ Accepts(txs[c][i].op, txs[c][i].nonce) /\ Execute(txs[c][i].op)
                    /\ txs[c][i].op \in MfileRequests
  <1>1. ASSUME txs' = txs
        PROVE  Landed' = Landed /\ \A id \in Landed : TxOf(id)' = TxOf(id)
    BY <1>1 DEF Landed, TxOf
  <1>2. ASSUME NEW c \in Callers, NEW i \in DOMAIN txs[c], Mine(c, i)
        PROVE  /\ \A id \in Landed : TxOf(id)' = TxOf(id)
               /\ \/ Landed' = Landed /\ UNCHANGED files
                  \/ /\ Landed' = Landed \cup {<<c, i>>} /\ <<c, i>> \notin Landed
                     /\ TxOf(<<c, i>>)'.op = txs[c][i].op
                     /\ TxOf(<<c, i>>)'.nonce = txs[c][i].nonce
                     /\ Accepts(txs[c][i].op, txs[c][i].nonce) /\ Execute(txs[c][i].op)
                     /\ txs[c][i].op \in MfileRequests
    <2>1. txs[c][i].status = "pending" /\ txs[c][i].op \in MfileRequests
      BY <1>2, MineSettles
    <2>2. PICK a \in BOOLEAN :
             /\ Settle(c, i, a)
             /\ a => Accepts(txs[c][i].op, txs[c][i].nonce) /\ Execute(txs[c][i].op)
             /\ ~ a => UNCHANGED chainVars
      BY <1>2, MineSettles
    <2>. QED  BY <2>1, <2>2, SettleLands DEF TypeOK, chainVars
  <1>3. ASSUME NEW c \in Callers, CallX(c)
        PROVE  /\ Landed' = Landed /\ \A id \in Landed : TxOf(id)' = TxOf(id)
               /\ UNCHANGED files
    <2>1. held[c] # NoAuth
          /\ \/ txs' = txs
             \/ Len(txs[c]) < MaxTxs /\ txs' = [txs EXCEPT ![c] = Append(@, NewTx(c))]
      BY <1>3, CallXEffect DEF Call, Send, SendAnswerLost, SendFails
    <2>. QED  BY <1>1, <1>3, <2>1, CallXEffect, SendLandsNothing DEF TypeOK, chainVars
  <1>4. ASSUME NEW c \in Callers, AskMessage(c) \/ PollReceipt(c)
        PROVE  UNCHANGED <<txs, files>>
    BY <1>4, AskMessageEffect, PollEffect DEF PollReceipt, TypeOK, chainVars
  <1>5. CASE Elsewhere \/ UNCHANGED vars
    BY <1>1, <1>5 DEF Elsewhere, MemoRegistered, vars, callVars, chainVars
  <1>. QED  BY <1>1, <1>2, <1>3, <1>4, <1>5 DEF Next

\* The first half of why NilIsInForce holds: what a landed transaction asked for is
\* in force, or one on the same subject landed later.
EffectHolds ==
    \A t \in Landed :
        \/ InForce(TxOf(t).op)
        \/ \E s \in Landed : /\ SameSubject(TxOf(s).op, TxOf(t).op)
                             /\ TxOf(s).nonce > TxOf(t).nonce

\* A step leaves every landed transaction in force or overtaken on its subject.
LEMMA EffectStep == TypeOK /\ NonceOrder /\ EffectHolds /\ [Next]_vars => EffectHolds'
  <1>. SUFFICES ASSUME TypeOK, NonceOrder, EffectHolds, [Next]_vars,
                       NEW t \in Landed', NEW u, u = TxOf(t)'
                PROVE  \/ InForce(u.op)'
                       \/ \E s \in Landed' : /\ SameSubject(TxOf(s)'.op, u.op)
                                             /\ TxOf(s)'.nonce > u.nonce
    BY DEF EffectHolds, SameSubject, InForce
  <1>1. t \in Landed => u = TxOf(t)
    BY LandedStep
  <1>2. ASSUME t \in Landed, ~ InForce(u.op)
        PROVE  \E s \in Landed' : /\ SameSubject(TxOf(s)'.op, u.op)
                                  /\ TxOf(s)'.nonce > u.nonce
    <2>1. PICK s \in Landed : SameSubject(TxOf(s).op, u.op) /\ TxOf(s).nonce > u.nonce
      BY <1>1, <1>2 DEF EffectHolds
    <2>2. s \in Landed' /\ TxOf(s)' = TxOf(s)
      BY LandedStep
    <2>. QED  BY <2>1, <2>2
  <1>3. CASE Landed' = Landed /\ UNCHANGED files
    <2>1. InForce(u.op) => InForce(u.op)'
      BY <1>3 DEF InForce
    <2>. QED  BY <1>2, <1>3, <2>1
  <1>4. ASSUME NEW c \in Callers, NEW i \in DOMAIN txs[c], NEW v \in Tx, v = txs[c][i],
               Landed' = Landed \cup {<<c, i>>},
               TxOf(<<c, i>>)'.op = v.op, TxOf(<<c, i>>)'.nonce = v.nonce,
               Accepts(v.op, v.nonce), Execute(v.op), v.op \in MfileRequests
        PROVE  \/ InForce(u.op)'
               \/ \E s \in Landed' : /\ SameSubject(TxOf(s)'.op, u.op)
                                     /\ TxOf(s)'.nonce > u.nonce
    <2>1. FilesTypeOK /\ Admissible(v.op)
      BY <1>4 DEF TypeOK, Accepts
    <2>2. CASE t = <<c, i>>
      <3>1. u.op = v.op
        BY <1>4, <2>2
      <3>. QED  BY <1>4, <2>1, <3>1, ExecutedIsInForce
    <2>3. CASE t \in Landed /\ InForce(u.op)
      <3>1. /\ u.op \in MfileRequests /\ Registered(u.op.did) /\ u.nonce \in Nat
            /\ u.nonce < files[u.op.did].nonce
        BY <1>1, <2>3, LandedFacts DEF Passed
      <3>2. InForce(u.op)' \/ SameSubject(v.op, u.op)
        BY <1>4, <2>1, <2>3, <3>1, InForceKept
      <3>3. SameSubject(v.op, u.op) => v.nonce > u.nonce
        <4>1. SameSubject(v.op, u.op) => v.op.did = u.op.did
          BY DEF SameSubject
        <4>2. files[u.op.did].nonce \in Nat
          BY <3>1, <2>1, RequestFields DEF FilesTypeOK, Entry
        <4>. QED  BY <1>4, <3>1, <4>1, <4>2 DEF Accepts
      <3>. QED  BY <1>4, <3>2, <3>3
    <2>. QED  BY <1>2, <1>4, <2>2, <2>3
  <1>5. \A c \in Callers : \A i \in DOMAIN txs[c] : txs[c][i] \in Tx
    BY DEF TypeOK, CallTypeOK
  <1>6. CASE ~ (Landed' = Landed /\ UNCHANGED files)
    <2>1. PICK c \in Callers : \E i \in DOMAIN txs[c] :
             /\ Landed' = Landed \cup {<<c, i>>}
             /\ TxOf(<<c, i>>)'.op = txs[c][i].op
             /\ TxOf(<<c, i>>)'.nonce = txs[c][i].nonce
             /\ Accepts(txs[c][i].op, txs[c][i].nonce) /\ Execute(txs[c][i].op)
             /\ txs[c][i].op \in MfileRequests
      BY <1>6, LandedStep
    <2>2. PICK i \in DOMAIN txs[c] :
             /\ Landed' = Landed \cup {<<c, i>>}
             /\ TxOf(<<c, i>>)'.op = txs[c][i].op
             /\ TxOf(<<c, i>>)'.nonce = txs[c][i].nonce
             /\ Accepts(txs[c][i].op, txs[c][i].nonce) /\ Execute(txs[c][i].op)
             /\ txs[c][i].op \in MfileRequests
      BY <2>1
    <2>. QED  BY <1>4, <1>5, <2>2
  <1>. QED  BY <1>3, <1>6

\* The second half: a nil means that the signed message held has landed.
LEMMA AnswerStaysTrue == TypeOK /\ AnswerHolds /\ [Next]_vars => AnswerHolds'
  <1>. SUFFICES ASSUME TypeOK, AnswerHolds, [Next]_vars PROVE AnswerHolds'
    OBVIOUS
  <1>l. /\ Landed \subseteq Landed' /\ \A id \in Landed : TxOf(id)' = TxOf(id)
        /\ CallTypeOK
    BY LandedStep DEF TypeOK
  <1>1. ASSUME NEW c \in Callers, AskMessage(c) PROVE AnswerHolds'
    BY <1>1, <1>l, AskMessageEffect, AnswerHoldsStep
  <1>2. ASSUME NEW c \in Callers, CallX(c) PROVE AnswerHolds'
    <2>1. Accepts(held[c].op, held[c].nonce) \in BOOLEAN
      BY DEF Accepts, Admissible
    <2>. QED  BY <1>2, <1>l, <2>1, CallXEffect, AnswerHoldsStep
  <1>3. ASSUME NEW c \in Callers, NEW i \in DOMAIN txs[c], Mine(c, i) PROVE AnswerHolds'
    <2>1. \E a \in BOOLEAN : Settle(c, i, a)
      BY <1>3 DEF Mine
    <2>. QED  BY <1>l, <2>1, AnswerHoldsStep
  <1>4. ASSUME NEW c \in Callers, PollReceipt(c) PROVE AnswerHolds'
    BY <1>4, <1>l, AnswerHoldsStep DEF PollReceipt
  <1>5. CASE Elsewhere \/ UNCHANGED vars
    BY <1>5, <1>l, AnswerHoldsStep DEF Elsewhere, vars
  <1>. QED  BY <1>1, <1>2, <1>3, <1>4, <1>5 DEF Next

\* A caller whose call returned nil can rely on it.
THEOREM NilCanBeReliedOn == Spec => []NilIsInForce
  <1>1. Init => EffectHolds /\ AnswerHolds
    BY DEF Init, CallInit, EffectHolds, AnswerHolds, Landed
  <1>2. TypeOK /\ EffectHolds /\ AnswerHolds => NilIsInForce
    <2>. SUFFICES ASSUME EffectHolds, AnswerHolds, NEW c \in Callers, pc[c] = "ok"
                  PROVE  \/ InForce(held[c].op)
                         \/ \E s \in Landed : /\ SameSubject(TxOf(s).op, held[c].op)
                                              /\ TxOf(s).nonce > held[c].nonce
      BY DEF NilIsInForce
    <2>1. PICK t \in Landed : Bare(TxOf(t)) = held[c]
      BY DEF AnswerHolds
    <2>2. held[c].op = TxOf(t).op /\ held[c].nonce = TxOf(t).nonce
      BY <2>1 DEF Bare
    <2>. QED  BY <2>2 DEF EffectHolds
  <1>. QED  BY <1>1, <1>2, EffectStep, AnswerStaysTrue, TypeCorrect, NonceOrderHolds, PTL
            DEF Spec

-----------------------------------------------------------------------------
(* The promise of SignedRequests.                                           *)

\* A message obtained or refused, and a call that sends nothing, prepare a call.
LEMMA PrepareStep ==
    ASSUME TypeOK, NEW c \in Callers, pc[c] # "waiting",
           NEW p \in {"signed", "error"}, pc' = [pc EXCEPT ![c] = p],
           UNCHANGED <<txs, files>>
    PROVE  Promise!Prepare(c)
  <1>1. answerBar' = [answerBar EXCEPT ![c] = AnswerOf(p)] /\ AnswerOf(p) \in {"none", "unknown"}
    BY AnswerStep DEF AnswerOf, TypeOK
  <1>2. answerBar[c] # "open"
    BY DEF answerBar, AnswerOf
  <1>3. UNCHANGED <<sentBar, Landed, nonceBar>>
    BY DEF sentBar, Landed, nonceBar
  <1>. QED  BY <1>1, <1>2, <1>3 DEF Promise!Prepare

\* A sent transaction is an issued request, whether or not its answer is lost.
LEMMA IssueStep ==
    ASSUME TypeOK, NEW c \in Callers, MayCall(c), Len(txs[c]) < MaxTxs,
           Accepts(held[c].op, held[c].nonce),
           NEW p \in {"waiting", "error"}, pc' = [pc EXCEPT ![c] = p],
           txs' = [txs EXCEPT ![c] = Append(@, NewTx(c))], UNCHANGED files
    PROVE  Promise!Issue(c)
  <1>. DEFINE a == [op |-> held[c].op, nonce |-> nonceBar[held[c].op.did]]
  <1>1. answerBar' = [answerBar EXCEPT ![c] = AnswerOf(p)] /\ AnswerOf(p) \in {"open", "unknown"}
    BY AnswerStep DEF AnswerOf, TypeOK
  <1>2. answerBar[c] # "open"
    BY DEF MayCall, answerBar, AnswerOf
  <1>3. held[c].op \in Requests /\ held[c].op.did \in Files
    <2>1. held[c] \in Auth
      BY DEF MayCall, TypeOK, CallTypeOK
    <2>. QED  BY <2>1, RequestsAssumption, RequestFields DEF Auth
  <1>4. a = Bare(NewTx(c))
    BY <1>3 DEF Accepts, nonceBar, NewTx, Bare
  <1>5. sentBar' = [sentBar EXCEPT ![c] = Append(@, a)]
    BY <1>4, SentStep DEF MayCall, TypeOK
  <1>6. Landed' = Landed /\ nonceBar' = nonceBar
    BY SendLandsNothing DEF MayCall, nonceBar, TypeOK
  <1>. QED  BY <1>1, <1>2, <1>3, <1>5, <1>6 DEF Promise!Issue

\* A mined transaction takes effect at its nonce, or it reverts and stutters.
LEMMA ApplyStep ==
    ASSUME TypeOK, NEW c \in Callers, NEW i \in DOMAIN txs[c], Mine(c, i)
    PROVE  Promise!Apply(c, i) \/ UNCHANGED <<sentBar, Landed, nonceBar, answerBar>>
  <1>. DEFINE op == txs[c][i].op
  <1>1. op \in MfileRequests /\ op.did \in Files /\ txs[c][i].status = "pending"
    BY MineSettles
  <1>2. PICK a \in BOOLEAN :
           /\ Settle(c, i, a)
           /\ a => Accepts(op, txs[c][i].nonce) /\ Execute(op)
           /\ ~ a => UNCHANGED files
    BY MineSettles DEF chainVars
  <1>3. UNCHANGED <<sentBar, answerBar>>
    BY <1>2, SettleSendsNothing DEF TypeOK
  <1>4. Landed' = IF a THEN Landed \cup {<<c, i>>} ELSE Landed
    BY <1>1, <1>2, SettleLands DEF TypeOK
  <1>5. CASE ~ a
    BY <1>2, <1>3, <1>4, <1>5 DEF nonceBar
  <1>6. CASE a
    <2>1. /\ files'[op.did].nonce = files[op.did].nonce + 1
          /\ \A f \in Files : f # op.did => files'[f] = files[f]
      BY <1>1, <1>2, <1>6, ExecuteEffect DEF TypeOK, Accepts
    <2>2. nonceBar' = [nonceBar EXCEPT ![op.did] = @ + 1]
      BY <1>1, <2>1 DEF nonceBar
    <2>3. /\ i \in DOMAIN sentBar[c] /\ sentBar[c][i].op = op
          /\ sentBar[c][i].nonce = txs[c][i].nonce
      BY DEF sentBar, Bare
    <2>4. txs[c][i].nonce = nonceBar[op.did]
      BY <1>1, <1>2, <1>6 DEF Accepts, nonceBar
    <2>. QED  BY <1>3, <1>4, <1>6, <2>2, <2>3, <2>4 DEF Promise!Apply
  <1>. QED  BY <1>5, <1>6

\* What CheckTx returns is the truth about the last request, or is not definite.
LEMMA AnswerIsTrue ==
    ASSUME TypeOK, NonceOrder, NEW c \in Callers, PollReceipt(c)
    PROVE  Promise!Answer(c) \/ UNCHANGED <<sentBar, Landed, nonceBar, answerBar>>
  <1>. DEFINE n == Len(txs[c])
              t == txs[c][n]
  <1>0. CallTypeOK /\ CheckTx(c) /\ UNCHANGED files
    BY DEF PollReceipt, TypeOK, chainVars
  <1>1. UNCHANGED <<sentBar, Landed, nonceBar>> /\ pc[c] = "waiting"
    BY <1>0, PollEffect DEF sentBar, Landed, nonceBar
  <1>2. answerBar[c] = "open"
    BY <1>1 DEF answerBar, AnswerOf
  <1>3. n \in DOMAIN txs[c] /\ n \in 1 .. MaxTxs /\ t \in Tx /\ n = Len(sentBar[c])
        /\ sentBar[c][n].nonce = t.nonce /\ sentBar[c][n].op = t.op /\ t.op.did \in Files
    <2>1. n \in DOMAIN txs[c] /\ n \in 1 .. MaxTxs /\ t \in Tx /\ n = Len(sentBar[c])
          /\ sentBar[c][n].nonce = t.nonce /\ sentBar[c][n].op = t.op
      BY <1>0, <1>1, WatchedIsLastSent
    <2>. QED  BY <2>1, RequestsAssumption, RequestFields DEF Tx
  <1>4. CASE UNCHANGED pc
    BY <1>1, <1>4 DEF answerBar
  <1>5. CASE pc' = [pc EXCEPT ![c] = "notPackaged"]
    <2>1. answerBar' = [answerBar EXCEPT ![c] = "unknown"]
      BY <1>0, <1>5, AnswerStep DEF AnswerOf
    <2>. QED  BY <1>1, <1>2, <2>1 DEF Promise!Answer
  <1>6. CASE pc' = [pc EXCEPT ![c] = "ok"] /\ t.status = "ok"
    <2>1. answerBar' = [answerBar EXCEPT ![c] = "yes"]
      BY <1>0, <1>6, AnswerStep DEF AnswerOf
    <2>2. <<c, n>> \in Landed
      BY <1>3, <1>6 DEF Landed
    <2>. QED  BY <1>1, <1>2, <1>3, <2>1, <2>2 DEF Promise!Answer
  <1>7. CASE pc' = [pc EXCEPT ![c] = "failed"] /\ t.status = "failed"
    <2>1. answerBar' = [answerBar EXCEPT ![c] = "no"]
      BY <1>0, <1>7, AnswerStep DEF AnswerOf
    <2>2. <<c, n>> \notin Landed
      BY <1>7 DEF Landed
    <2>3. t.nonce < nonceBar[t.op.did]
      BY <1>3, <1>7 DEF NonceOrder, InOrder, Passed, nonceBar
    <2>4. Promise!Overtaken(c, n)
      BY <1>3, <2>2, <2>3 DEF Promise!Overtaken
    <2>. QED  BY <1>1, <1>2, <1>3, <2>1, <2>4 DEF Promise!Answer
  <1>. QED  BY <1>0, <1>4, <1>5, <1>6, <1>7, PollEffect

\* Every step is a step of SignedRequests or a stutter.
LEMMA PromiseStep ==
    TypeOK /\ NonceOrder /\ [Next]_vars => [Promise!AbsNext]_(Promise!absVars)
  <1>. SUFFICES ASSUME TypeOK, NonceOrder, [Next]_vars
                PROVE  \/ Promise!AbsNext
                       \/ UNCHANGED <<sentBar, Landed, nonceBar, answerBar>>
    BY DEF Promise!absVars
  <1>1. CASE UNCHANGED vars
    BY <1>1 DEF vars, callVars, chainVars, sentBar, Landed, nonceBar, answerBar
  <1>2. ASSUME NEW c \in Callers, AskMessage(c) PROVE Promise!Prepare(c)
    BY <1>2, AskMessageEffect, PrepareStep DEF Obtain, Refuse, chainVars
  <1>3. ASSUME NEW c \in Callers, CallX(c) PROVE Promise!Prepare(c) \/ Promise!Issue(c)
    <2>1. Call(c, Accepts(held[c].op, held[c].nonce)) /\ UNCHANGED files
      BY <1>3, CallXEffect DEF chainVars
    <2>2. CASE SendFails(c)
      BY <2>1, <2>2, PrepareStep DEF SendFails, MayCall
    <2>3. CASE Send(c, Accepts(held[c].op, held[c].nonce))
      BY <2>1, <2>3, IssueStep DEF Send
    <2>4. CASE SendAnswerLost(c, Accepts(held[c].op, held[c].nonce))
      BY <2>1, <2>4, IssueStep DEF SendAnswerLost
    <2>. QED  BY <2>1, <2>2, <2>3, <2>4 DEF Call
  <1>4. ASSUME NEW c \in Callers, NEW i \in DOMAIN txs[c], Mine(c, i)
        PROVE  \/ Promise!Apply(c, i) /\ i \in DOMAIN sentBar[c]
               \/ UNCHANGED <<sentBar, Landed, nonceBar, answerBar>>
    BY <1>4, ApplyStep DEF sentBar
  <1>5. ASSUME NEW c \in Callers, PollReceipt(c)
        PROVE  Promise!Answer(c) \/ UNCHANGED <<sentBar, Landed, nonceBar, answerBar>>
    BY <1>5, AnswerIsTrue
  <1>6. CASE Elsewhere
    BY <1>6 DEF Elsewhere, MemoRegistered, callVars, sentBar, Landed, nonceBar, answerBar
  <1>. QED  BY <1>1, <1>2, <1>3, <1>4, <1>5, <1>6 DEF Next, Promise!AbsNext

\* Every call keeps the promise of SignedRequests, whatever callers and chain do.
THEOREM PromiseKept == Spec => ImplementsSignedRequests
  <1>1. Init => Promise!AbsInit
    BY DEF Init, CallInit, FilesInit, EmptyEntry, Promise!AbsInit, sentBar, Landed,
           nonceBar, answerBar, AnswerOf
  <1>. QED  BY <1>1, PromiseStep, TypeCorrect, NonceOrderHolds, PTL
            DEF Spec, ImplementsSignedRequests, Promise!AbsSpec
=============================================================================
