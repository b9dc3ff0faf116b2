--------------------------- MODULE SignedCallProofs ---------------------------
(***************************************************************************)
(* What a step of the call protocol does to the types, to the transactions *)
(* and to the answers, whatever the chain makes of the requests.           *)
(***************************************************************************)
EXTENDS SignedCall, TLAPS

-----------------------------------------------------------------------------
(* The transactions.                                                        *)

\* Sending appends one pending transaction with the held request.
LEMMA SendEffect ==
    ASSUME CallTypeOK, NEW c \in Callers, held[c] # NoAuth, Len(txs[c]) < MaxTxs,
           txs' = [txs EXCEPT ![c] = Append(@, NewTx(c))]
    PROVE  /\ txs' \in [Callers -> Seq(Tx)]
           /\ \A b \in Callers : Len(txs'[b]) <= MaxTxs
           /\ \A b \in Callers : b # c => txs'[b] = txs[b]
           /\ Len(txs'[c]) = Len(txs[c]) + 1
           /\ \A i \in DOMAIN txs[c] : txs'[c][i] = txs[c][i]
           /\ txs'[c][Len(txs[c]) + 1] = NewTx(c)
  <1>1. NewTx(c) \in Tx
    BY DEF CallTypeOK, NewTx, Auth, Tx, Statuses
  <1>2. txs[c] \in Seq(Tx) /\ txs'[c] = Append(txs[c], NewTx(c))
    BY DEF CallTypeOK
  <1>3. /\ txs'[c] \in Seq(Tx) /\ Len(txs'[c]) = Len(txs[c]) + 1
        /\ \A i \in DOMAIN txs[c] : txs'[c][i] = txs[c][i]
        /\ txs'[c][Len(txs[c]) + 1] = NewTx(c)
    BY <1>1, <1>2
  <1>4. \A b \in Callers : b # c => txs'[b] = txs[b]
    BY DEF CallTypeOK
  <1>5. txs' \in [Callers -> Seq(Tx)]
    BY <1>1 DEF CallTypeOK
  <1>6. Len(txs'[c]) <= MaxTxs
    BY <1>2, <1>3, TxsAssumption
  <1>. QED  BY <1>3, <1>4, <1>5, <1>6 DEF CallTypeOK

\* A receipt changes the status of one transaction and nothing else.
LEMMA SettleEffect ==
    ASSUME CallTypeOK, NEW c \in Callers, NEW i \in DOMAIN txs[c],
           NEW a \in BOOLEAN, Settle(c, i, a)
    PROVE  /\ txs' \in [Callers -> Seq(Tx)]
           /\ \A b \in Callers : DOMAIN txs'[b] = DOMAIN txs[b] /\ Len(txs'[b]) = Len(txs[b])
           /\ \A b \in Callers : \A j \in DOMAIN txs[b] :
                 /\ <<b, j>> # <<c, i>> => txs'[b][j] = txs[b][j]
                 /\ txs'[b][j].op = txs[b][j].op /\ txs'[b][j].nonce = txs[b][j].nonce
           /\ txs'[c][i].status = IF a THEN "ok" ELSE "failed"
  <1>. DEFINE t == [txs[c][i] EXCEPT !.status = IF a THEN "ok" ELSE "failed"]
              s == [txs[c] EXCEPT ![i] = t]
  <1>1. txs[c] \in Seq(Tx) /\ txs[c][i] \in Tx
    BY DEF CallTypeOK
  <1>2. /\ t \in Tx /\ t.op = txs[c][i].op /\ t.nonce = txs[c][i].nonce
        /\ t.status = IF a THEN "ok" ELSE "failed"
    BY <1>1 DEF Tx, Statuses
  <1>3. txs' = [txs EXCEPT ![c] = s]
    BY DEF Settle
  <1>4. /\ s \in Seq(Tx) /\ Len(s) = Len(txs[c]) /\ DOMAIN s = DOMAIN txs[c]
        /\ s[i] = t /\ \A j \in DOMAIN txs[c] : j # i => s[j] = txs[c][j]
    BY <1>1, <1>2
  <1>5. txs'[c] = s /\ \A b \in Callers : b # c => txs'[b] = txs[b]
    BY <1>3 DEF CallTypeOK
  <1>6. txs' \in [Callers -> Seq(Tx)]
    BY <1>3, <1>4 DEF CallTypeOK
  <1>7. ASSUME NEW b \in Callers
        PROVE  /\ DOMAIN txs'[b] = DOMAIN txs[b] /\ Len(txs'[b]) = Len(txs[b])
               /\ \A j \in DOMAIN txs[b] :
                     /\ <<b, j>> # <<c, i>> => txs'[b][j] = txs[b][j]
                     /\ txs'[b][j].op = txs[b][j].op /\ txs'[b][j].nonce = txs[b][j].nonce
    <2>1. CASE b = c
      BY <2>1, <1>2, <1>4, <1>5
    <2>2. CASE b # c
      BY <2>2, <1>5
    <2>. QED  BY <2>1, <2>2
  <1>. QED  BY <1>2, <1>4, <1>5, <1>6, <1>7

\* The same of one transaction after the step: which it was before, and what it kept.
LEMMA SettledTx ==
    ASSUME CallTypeOK, NEW c \in Callers, NEW i \in DOMAIN txs[c],
           NEW a \in BOOLEAN, Settle(c, i, a),
           NEW b \in Callers, NEW j \in DOMAIN txs'[b]
    PROVE  /\ j \in DOMAIN txs[b]
           /\ <<b, j>> # <<c, i>> => txs'[b][j] = txs[b][j]
           /\ txs'[b][j].op = txs[b][j].op /\ txs'[b][j].nonce = txs[b][j].nonce
           /\ txs'[c][i].status = IF a THEN "ok" ELSE "failed"
  <1>1. \A d \in Callers : DOMAIN txs'[d] = DOMAIN txs[d]
    BY SettleEffect
  <1>2. \A d \in Callers : \A k \in DOMAIN txs[d] :
           /\ <<d, k>> # <<c, i>> => txs'[d][k] = txs[d][k]
           /\ txs'[d][k].op = txs[d][k].op /\ txs'[d][k].nonce = txs[d][k].nonce
    BY SettleEffect
  <1>3. txs'[c][i].status = IF a THEN "ok" ELSE "failed"
    BY SettleEffect
  <1>4. j \in DOMAIN txs[b]
    BY <1>1
  <1>. QED  BY <1>2, <1>3, <1>4

\* One call of X appends one transaction that the contract would accept, or none.
LEMMA CallEffect ==
    ASSUME NEW c \in Callers, NEW passes \in BOOLEAN, Call(c, passes)
    PROVE  /\ MayCall(c) /\ UNCHANGED <<held, polls>>
           /\ \/ txs' = txs /\ pc' = [pc EXCEPT ![c] = "error"]
              \/ /\ passes /\ Len(txs[c]) < MaxTxs
                 /\ txs' = [txs EXCEPT ![c] = Append(@, NewTx(c))]
                 /\ \E p \in {"waiting", "error"} : pc' = [pc EXCEPT ![c] = p]
  BY DEF Call, Send, SendAnswerLost, SendFails

-----------------------------------------------------------------------------
(* Types.                                                                   *)

\* The protocol begins in a state of its type.
LEMMA CallInitType == CallInit => CallTypeOK
  BY PollsAssumption, TxsAssumption DEF CallInit, CallTypeOK, Phases

\* A message, obtained or refused, keeps the types.
LEMMA AskKeepsType ==
    ASSUME CallTypeOK, NEW c \in Callers,
           Refuse(c) \/ \E op \in Requests : \E n \in Nat : Obtain(c, op, n)
    PROVE  CallTypeOK'
  <1>1. CASE Refuse(c)
    BY <1>1 DEF Refuse, CallTypeOK, Phases, Returned
  <1>2. ASSUME NEW op \in Requests, NEW n \in Nat, Obtain(c, op, n) PROVE CallTypeOK'
    <2>1. [op |-> op, nonce |-> n] \in Auth
      BY DEF Auth
    <2>. QED  BY <1>2, <2>1 DEF Obtain, CallTypeOK, Phases
  <1>. QED  BY <1>1, <1>2

\* A call keeps the types: whoever waits has sent a transaction.
LEMMA CallKeepsType ==
    ASSUME CallTypeOK, NEW c \in Callers, NEW passes \in BOOLEAN, Call(c, passes)
    PROVE  CallTypeOK'
  <1>1. CASE txs' = txs /\ pc' = [pc EXCEPT ![c] = "error"]
    BY <1>1, CallEffect DEF CallTypeOK, Phases, Returned
  <1>2. CASE /\ Len(txs[c]) < MaxTxs /\ txs' = [txs EXCEPT ![c] = Append(@, NewTx(c))]
             /\ \E p \in {"waiting", "error"} : pc' = [pc EXCEPT ![c] = p]
    <2>1. held[c] # NoAuth /\ UNCHANGED <<held, polls>>
      BY CallEffect DEF MayCall
    <2>2. /\ txs' \in [Callers -> Seq(Tx)]
          /\ \A b \in Callers : Len(txs'[b]) <= MaxTxs
          /\ \A b \in Callers : b # c => txs'[b] = txs[b]
          /\ Len(txs'[c]) = Len(txs[c]) + 1
      BY <1>2, <2>1, SendEffect
    <2>3. txs'[c] # <<>>
      BY <2>2 DEF CallTypeOK
    <2>4. pc' \in [Callers -> Phases] /\ \A b \in Callers : b # c => pc'[b] = pc[b]
      BY <1>2 DEF CallTypeOK, Phases, Returned
    <2>5. \A b \in Callers : pc'[b] = "waiting" => txs'[b] # <<>>
      BY <2>2, <2>3, <2>4 DEF CallTypeOK
    <2>. QED  BY <2>1, <2>2, <2>4, <2>5 DEF CallTypeOK
  <1>. QED  BY <1>1, <1>2, CallEffect

\* A receipt keeps the types.
LEMMA SettleKeepsType ==
    ASSUME CallTypeOK, NEW c \in Callers, NEW i \in DOMAIN txs[c],
           NEW a \in BOOLEAN, Settle(c, i, a)
    PROVE  CallTypeOK'
  <1>1. UNCHANGED <<pc, held, polls>>
    BY DEF Settle
  <1>2. txs' \in [Callers -> Seq(Tx)] /\ \A b \in Callers : Len(txs'[b]) = Len(txs[b])
    BY SettleEffect
  <1>3. \A b \in Callers : txs[b] # <<>> => txs'[b] # <<>>
    BY <1>2 DEF CallTypeOK
  <1>. QED  BY <1>1, <1>2, <1>3 DEF CallTypeOK

\* A poll of CheckTx leaves a definite status of the last transaction as the
\* result of the call, or none.
LEMMA PollEffect ==
    ASSUME CallTypeOK, NEW c \in Callers, CheckTx(c)
    PROVE  /\ pc[c] = "waiting" /\ UNCHANGED <<held, txs>>
           /\ \/ UNCHANGED pc
              \/ pc' = [pc EXCEPT ![c] = "notPackaged"]
              \/ pc' = [pc EXCEPT ![c] = Watched(c).status] /\ Watched(c).status \in {"ok", "failed"}
           /\ Len(txs[c]) \in DOMAIN txs[c] /\ Watched(c) = txs[c][Len(txs[c])] /\ Watched(c) \in Tx
  <1>1. pc[c] = "waiting" /\ UNCHANGED <<held, txs>>
    BY DEF CheckTx, ReceiptSeen, NoReceipt
  <1>2. Len(txs[c]) \in DOMAIN txs[c] /\ Watched(c) = txs[c][Len(txs[c])] /\ Watched(c) \in Tx
    BY <1>1 DEF CallTypeOK, Watched
  <1>. QED  BY <1>1, <1>2 DEF CheckTx, ReceiptSeen, NoReceipt, Tx, Statuses

\* CheckTx keeps the types: the polls are counted below their bound.
LEMMA CheckTxKeepsType ==
    ASSUME CallTypeOK, NEW c \in Callers, CheckTx(c)
    PROVE  CallTypeOK'
  <1>1. polls' \in [Callers -> 0 .. MaxPolls - 1]
    <2>1. polls \in [Callers -> 0 .. MaxPolls - 1] /\ MaxPolls \in Nat /\ MaxPolls > 0
      BY PollsAssumption DEF CallTypeOK
    <2>2. 0 \in 0 .. MaxPolls - 1
      BY <2>1
    <2>3. polls[c] + 1 < MaxPolls => polls[c] + 1 \in 0 .. MaxPolls - 1
      BY <2>1
    <2>4. \/ polls' = [polls EXCEPT ![c] = 0]
          \/ polls[c] + 1 < MaxPolls /\ polls' = [polls EXCEPT ![c] = polls[c] + 1]
      BY DEF CheckTx, ReceiptSeen, NoReceipt
    <2>. QED  BY <2>1, <2>2, <2>3, <2>4
  <1>2. /\ pc' \in [Callers -> Phases]
        /\ \A b \in Callers : pc'[b] = "waiting" => pc[b] = "waiting"
    BY PollEffect DEF CallTypeOK, Phases, Returned
  <1>. QED  BY <1>1, <1>2, PollEffect DEF CallTypeOK

-----------------------------------------------------------------------------
(* What took effect.                                                        *)

\* Sending a transaction lands none.
LEMMA SendLandsNothing ==
    ASSUME CallTypeOK, NEW c \in Callers, held[c] # NoAuth, Len(txs[c]) < MaxTxs,
           txs' = [txs EXCEPT ![c] = Append(@, NewTx(c))]
    PROVE  Landed' = Landed /\ \A id \in Landed : TxOf(id)' = TxOf(id)
  <1>a. \A b \in Callers : txs[b] \in Seq(Tx) /\ txs'[b] \in Seq(Tx)
    BY SendEffect DEF CallTypeOK
  <1>1. /\ \A b \in Callers : b # c => txs'[b] = txs[b]
        /\ Len(txs'[c]) = Len(txs[c]) + 1
        /\ \A i \in DOMAIN txs[c] : txs'[c][i] = txs[c][i]
        /\ txs'[c][Len(txs[c]) + 1] = NewTx(c)
    BY SendEffect
  <1>2. NewTx(c).status # "ok"
    BY DEF NewTx
  <1>3. ASSUME NEW b \in Callers, NEW k \in 1 .. MaxTxs
        PROVE  (k \in DOMAIN txs'[b] /\ txs'[b][k].status = "ok")
                 <=> (k \in DOMAIN txs[b] /\ txs[b][k].status = "ok")
    <2>1. CASE b # c
      BY <1>1, <2>1
    <2>2. CASE b = c
      <3>1. DOMAIN txs'[c] = DOMAIN txs[c] \cup {Len(txs[c]) + 1}
            /\ Len(txs[c]) + 1 \notin DOMAIN txs[c]
        BY <1>a, <1>1
      <3>. QED  BY <1>1, <1>2, <2>2, <3>1
    <2>. QED  BY <2>1, <2>2
  <1>4. Landed' = Landed
    BY <1>3 DEF Landed
  <1>5. ASSUME NEW id \in Landed PROVE txs'[id[1]][id[2]] = txs[id[1]][id[2]]
    <2>1. id[1] \in Callers /\ id[2] \in DOMAIN txs[id[1]]
      BY DEF Landed
    <2>. QED  BY <1>1, <2>1
  <1>. QED  BY <1>4, <1>5 DEF TxOf

\* A receipt lands its transaction if it was accepted, and no other.
LEMMA SettleLands ==
    ASSUME CallTypeOK, NEW c \in Callers, NEW i \in DOMAIN txs[c], txs[c][i].status = "pending",
           NEW a \in BOOLEAN, Settle(c, i, a)
    PROVE  /\ \A id \in Landed : TxOf(id)' = TxOf(id)
           /\ <<c, i>> \notin Landed
           /\ Landed' = IF a THEN Landed \cup {<<c, i>>} ELSE Landed
           /\ TxOf(<<c, i>>)'.op = txs[c][i].op
           /\ TxOf(<<c, i>>)'.nonce = txs[c][i].nonce
  <1>1. i \in 1 .. MaxTxs /\ <<c, i>> \notin Landed
    BY TxsAssumption DEF CallTypeOK, Landed
  <1>2. \A b \in Callers : DOMAIN txs'[b] = DOMAIN txs[b]
    BY SettleEffect
  <1>3. \A b \in Callers : \A j \in DOMAIN txs[b] :
            /\ <<b, j>> # <<c, i>> => txs'[b][j] = txs[b][j]
            /\ txs'[b][j].op = txs[b][j].op /\ txs'[b][j].nonce = txs[b][j].nonce
    BY SettleEffect
  <1>4. txs'[c][i].status = IF a THEN "ok" ELSE "failed"
    BY SettleEffect
  <1>5. ASSUME NEW id \in Landed PROVE TxOf(id)' = TxOf(id)
    <2>1. id = <<id[1], id[2]>> /\ id[1] \in Callers /\ id[2] \in DOMAIN txs[id[1]]
      BY DEF Landed
    <2>. QED  BY <1>1, <1>3, <2>1 DEF TxOf
  <1>6. ASSUME NEW b \in Callers, NEW k \in 1 .. MaxTxs, <<b, k>> # <<c, i>>
        PROVE  (k \in DOMAIN txs'[b] /\ txs'[b][k].status = "ok")
                 <=> (k \in DOMAIN txs[b] /\ txs[b][k].status = "ok")
    BY <1>2, <1>3, <1>6
  <1>7. CASE a
    <2>1. txs'[c][i].status = "ok" /\ i \in DOMAIN txs'[c]
      BY <1>2, <1>4, <1>7
    <2>2. Landed' = Landed \cup {<<c, i>>}
      BY <1>1, <1>6, <2>1 DEF Landed
    <2>. QED  BY <1>1, <1>3, <1>5, <1>7, <2>2 DEF TxOf
  <1>8. CASE ~ a
    <2>1. txs'[c][i].status # "ok" /\ txs[c][i].status # "ok"
      BY <1>4, <1>8
    <2>2. Landed' = Landed
      BY <1>6, <2>1 DEF Landed
    <2>. QED  BY <1>1, <1>3, <1>5, <1>8, <2>2 DEF TxOf
  <1>. QED  BY <1>7, <1>8

-----------------------------------------------------------------------------
(* What a nil stands for.                                                   *)

\* A caller waits for the receipt of the very request it holds, so a nil means that
\* this one landed.
AnswerHolds ==
    \A c \in Callers :
        /\ pc[c] = "waiting" =>
              held[c] # NoAuth /\ Bare(txs[c][Len(txs[c])]) = held[c]
        /\ pc[c] = "ok" =>
              held[c] # NoAuth /\ \E s \in Landed : Bare(TxOf(s)) = held[c]

\* A step of the protocol answers nil only when the signed message held has landed.
LEMMA AnswerHoldsStep ==
    ASSUME CallTypeOK, AnswerHolds,
           Landed \subseteq Landed', \A id \in Landed : TxOf(id)' = TxOf(id),
           \/ \E c \in Callers :
                 \/ Refuse(c)
                 \/ \E op \in Requests : \E n \in Nat : Obtain(c, op, n)
                 \/ \E passes \in BOOLEAN : Call(c, passes)
                 \/ \E i \in DOMAIN txs[c] : \E a \in BOOLEAN : Settle(c, i, a)
                 \/ CheckTx(c)
           \/ UNCHANGED callVars
    PROVE  AnswerHolds'
  <1>. SUFFICES ASSUME NEW b \in Callers
                PROVE  /\ pc'[b] = "waiting" =>
                            held'[b] # NoAuth /\ Bare(txs'[b][Len(txs'[b])]) = held'[b]
                       /\ pc'[b] = "ok" =>
                            held'[b] # NoAuth /\ \E s \in Landed' : Bare(TxOf(s)') = held'[b]
    BY DEF AnswerHolds, Bare
  <1>. DEFINE Good == /\ pc'[b] = "waiting" =>
                            held'[b] # NoAuth /\ Bare(txs'[b][Len(txs'[b])]) = held'[b]
                      /\ pc'[b] = "ok" =>
                            held'[b] # NoAuth /\ \E s \in Landed' : Bare(TxOf(s)') = held'[b]
  \* b neither moves nor loses what it holds.
  <1>k. ASSUME pc'[b] = pc[b], held'[b] = held[b],
               pc[b] = "waiting" => Bare(txs'[b][Len(txs'[b])]) = Bare(txs[b][Len(txs[b])])
        PROVE  Good
    <2>1. pc[b] = "ok" => \E s \in Landed' : Bare(TxOf(s)') = held[b]
      BY DEF AnswerHolds
    <2>. QED  BY <1>k, <2>1 DEF AnswerHolds
  <1>1. ASSUME NEW c \in Callers,
               Refuse(c) \/ \E op \in Requests : \E n \in Nat : Obtain(c, op, n)
        PROVE  Good
    <2>1. CASE b = c
      <3>1. pc'[b] \in {"signed", "error"}
        BY <1>1, <2>1 DEF Obtain, Refuse, CallTypeOK
      <3>. QED  BY <3>1
    <2>2. CASE b # c
      <3>1. pc'[b] = pc[b] /\ held'[b] = held[b] /\ txs' = txs
        BY <1>1, <2>2 DEF Obtain, Refuse, CallTypeOK
      <3>. QED  BY <1>k, <3>1
    <2>. QED  BY <2>1, <2>2
  <1>2. ASSUME NEW c \in Callers, NEW passes \in BOOLEAN, Call(c, passes) PROVE Good
    <2>1. held[c] # NoAuth /\ UNCHANGED held /\ Call(c, passes)
      BY <1>2 DEF Call, Send, SendAnswerLost, SendFails, MayCall
    <2>2. CASE b # c
      <3>1. pc'[b] = pc[b] /\ txs'[b] = txs[b]
        BY <2>1, <2>2 DEF Call, Send, SendAnswerLost, SendFails, CallTypeOK
      <3>. QED  BY <1>k, <2>1, <3>1
    <2>3. CASE b = c /\ pc'[b] = "error"
      BY <2>3
    <2>4. CASE b = c /\ pc'[b] = "waiting"
      <3>1. Len(txs[c]) < MaxTxs /\ txs' = [txs EXCEPT ![c] = Append(@, NewTx(c))]
        BY <2>1, <2>4 DEF Call, Send, SendAnswerLost, SendFails, CallTypeOK
      <3>2. /\ Len(txs'[c]) = Len(txs[c]) + 1
            /\ txs'[c][Len(txs[c]) + 1] = NewTx(c)
        BY <2>1, <3>1, SendEffect
      <3>3. Bare(NewTx(c)) = held[c]
        BY <2>1 DEF CallTypeOK, Auth, NewTx, Bare
      <3>. QED  BY <2>1, <2>4, <3>2, <3>3
    <2>5. b = c => pc'[b] \in {"error", "waiting"}
      BY <2>1 DEF Call, Send, SendAnswerLost, SendFails, CallTypeOK
    <2>. QED  BY <2>2, <2>3, <2>4, <2>5
  <1>3. ASSUME NEW c \in Callers, NEW i \in DOMAIN txs[c], NEW a \in BOOLEAN, Settle(c, i, a)
        PROVE  Good
    <2>2. UNCHANGED <<pc, held>>
      BY <1>3 DEF Settle
    <2>3. ASSUME pc[b] = "waiting"
          PROVE  Bare(txs'[b][Len(txs'[b])]) = Bare(txs[b][Len(txs[b])])
      <3>1. Len(txs[b]) \in DOMAIN txs[b]
        BY <2>3 DEF CallTypeOK
      <3>2. Len(txs'[b]) = Len(txs[b]) /\ DOMAIN txs'[b] = DOMAIN txs[b]
        BY <1>3, SettleEffect
      <3>3. \A j \in DOMAIN txs[b] : Bare(txs'[b][j]) = Bare(txs[b][j])
        BY <1>3, <3>2, SettledTx DEF Bare
      <3>. QED  BY <3>1, <3>2, <3>3
    <2>. QED  BY <1>k, <2>2, <2>3
  <1>4. ASSUME NEW c \in Callers, CheckTx(c) PROVE Good
    <2>. DEFINE n == Len(txs[c])
    <2>1. /\ pc[c] = "waiting" /\ UNCHANGED <<held, txs>>
          /\ \/ UNCHANGED pc
             \/ pc' = [pc EXCEPT ![c] = "notPackaged"]
             \/ /\ pc' = [pc EXCEPT ![c] = txs[c][n].status]
                /\ txs[c][n].status \in {"ok", "failed"}
          /\ n \in DOMAIN txs[c]
      BY <1>4, PollEffect
    <2>2. CASE pc'[b] = pc[b]
      BY <1>k, <2>1, <2>2
    <2>3. CASE b = c /\ pc'[b] = "ok" /\ txs[c][n].status = "ok"
      <3>1. <<c, n>> \in Landed
        <4>1. n \in 1 .. MaxTxs
          BY <2>1, TxsAssumption DEF CallTypeOK
        <4>. QED  BY <2>1, <2>3, <4>1 DEF Landed
      <3>2. Bare(TxOf(<<c, n>>)) = held[c] /\ held[c] # NoAuth
        BY <2>1 DEF AnswerHolds, TxOf
      <3>3. <<c, n>> \in Landed' /\ Bare(TxOf(<<c, n>>)') = held'[c] /\ held'[c] # NoAuth
        BY <2>1, <3>1, <3>2
      <3>4. \E s \in Landed' : Bare(TxOf(s)') = held'[b]
        BY <2>1, <2>3, <3>3 DEF TxOf
      <3>5. pc'[b] # "waiting"
        BY <2>3
      <3>. QED  BY <2>3, <3>3, <3>4, <3>5
    <2>4. CASE pc'[b] \in {"notPackaged", "failed"}
      BY <2>4
    <2>5. \/ pc'[b] = pc[b]
          \/ b = c /\ pc'[b] = "ok" /\ txs[c][n].status = "ok"
          \/ pc'[b] \in {"notPackaged", "failed"}
      BY <2>1 DEF CallTypeOK
    <2>. QED  BY <2>2, <2>3, <2>4, <2>5
  <1>5. CASE UNCHANGED callVars
    BY <1>k, <1>5 DEF callVars
  <1>. QED  BY <1>1, <1>2, <1>3, <1>4, <1>5

-----------------------------------------------------------------------------
(* What SignedRequests sees.                                                *)

\* Dropping the receipts commutes with appending.
LEMMA BareAppend ==
    ASSUME NEW s \in Seq(Tx), NEW t \in Tx
    PROVE  [i \in DOMAIN Append(s, t) |-> Bare(Append(s, t)[i])]
             = Append([i \in DOMAIN s |-> Bare(s[i])], Bare(t))
  <1>. DEFINE r == Append(s, t)
              bs == [i \in DOMAIN s |-> Bare(s[i])]
              n == Len(s)
  <1>1. n \in Nat /\ DOMAIN s = 1 .. n /\ r \in Seq(Tx) /\ DOMAIN r = 1 .. n + 1
        /\ r[n + 1] = t /\ \A i \in 1 .. n : r[i] = s[i] /\ s[i] \in Tx
    OBVIOUS
  <1>2. \A u \in Tx : Bare(u) \in Auth
    BY DEF Bare, Tx, Auth
  <1>3. bs \in Seq(Auth) /\ Len(bs) = n /\ DOMAIN bs = 1 .. n
    <2>1. bs \in [1 .. n -> Auth]
      BY <1>1, <1>2
    <2>. QED  BY <1>1, <2>1
  <1>4. /\ Append(bs, Bare(t)) \in Seq(Auth) /\ DOMAIN Append(bs, Bare(t)) = 1 .. n + 1
        /\ Append(bs, Bare(t))[n + 1] = Bare(t)
        /\ \A i \in 1 .. n : Append(bs, Bare(t))[i] = bs[i]
    <2>1. Bare(t) \in Auth
      BY <1>2
    <2>. QED  BY <1>1, <1>3, <2>1
  <1>5. \A i \in 1 .. n + 1 : Append(bs, Bare(t))[i] = Bare(r[i])
    BY <1>1, <1>4
  <1>6. Append(bs, Bare(t)) = [i \in 1 .. n + 1 |-> Append(bs, Bare(t))[i]]
    BY <1>4
  <1>7. [i \in DOMAIN r |-> Bare(r[i])] = [i \in 1 .. n + 1 |-> Append(bs, Bare(t))[i]]
    BY <1>1, <1>5
  <1>. QED  BY <1>6, <1>7

\* The answer of one caller follows its pc.
LEMMA AnswerStep ==
    ASSUME CallTypeOK, NEW c \in Callers, NEW p, pc' = [pc EXCEPT ![c] = p]
    PROVE  answerBar' = [answerBar EXCEPT ![c] = AnswerOf(p)]
  BY DEF CallTypeOK, answerBar

\* A transaction that is sent is one more request of its caller.
LEMMA SentStep ==
    ASSUME CallTypeOK, NEW c \in Callers, held[c] # NoAuth,
           txs' = [txs EXCEPT ![c] = Append(@, NewTx(c))]
    PROVE  sentBar' = [sentBar EXCEPT ![c] = Append(@, Bare(NewTx(c)))]
  <1>1. NewTx(c) \in Tx
    BY DEF CallTypeOK, NewTx, Auth, Tx, Statuses
  <1>2. txs[c] \in Seq(Tx) /\ txs'[c] = Append(txs[c], NewTx(c))
        /\ \A b \in Callers : b # c => txs'[b] = txs[b]
    BY DEF CallTypeOK
  <1>3. sentBar'[c] = Append(sentBar[c], Bare(NewTx(c)))
    BY <1>1, <1>2, BareAppend DEF sentBar
  <1>4. \A b \in Callers : b # c => sentBar'[b] = sentBar[b]
    BY <1>2 DEF sentBar
  <1>5. sentBar = [b \in Callers |-> sentBar[b]] /\ sentBar' = [b \in Callers |-> sentBar'[b]]
    BY DEF sentBar
  <1>. QED  BY <1>3, <1>4, <1>5

\* A receipt changes no request.
LEMMA SettleSendsNothing ==
    ASSUME CallTypeOK, NEW c \in Callers, NEW i \in DOMAIN txs[c],
           NEW a \in BOOLEAN, Settle(c, i, a)
    PROVE  UNCHANGED <<sentBar, answerBar>>
  <1>1. \A b \in Callers : /\ DOMAIN txs'[b] = DOMAIN txs[b]
                           /\ \A j \in DOMAIN txs[b] :
                                 txs'[b][j].op = txs[b][j].op /\ txs'[b][j].nonce = txs[b][j].nonce
    BY SettleEffect
  <1>. QED  BY <1>1 DEF sentBar, answerBar, Bare, Settle

\* The request whose receipt a waiting caller asks for is the last one it sent.
LEMMA WatchedIsLastSent ==
    ASSUME CallTypeOK, NEW c \in Callers, pc[c] = "waiting"
    PROVE  LET n == Len(txs[c]) IN
           /\ n \in DOMAIN txs[c] /\ n \in 1 .. MaxTxs /\ txs[c][n] \in Tx
           /\ n = Len(sentBar[c])
           /\ sentBar[c][n].op = txs[c][n].op /\ sentBar[c][n].nonce = txs[c][n].nonce
  <1>. DEFINE n == Len(txs[c])
  <1>1. txs[c] \in Seq(Tx) /\ txs[c] # <<>> /\ n <= MaxTxs
    BY DEF CallTypeOK
  <1>2. n \in DOMAIN txs[c] /\ n \in 1 .. MaxTxs /\ txs[c][n] \in Tx /\ DOMAIN txs[c] = 1 .. n
    BY <1>1, TxsAssumption
  <1>3. sentBar[c] = [i \in 1 .. n |-> Bare(txs[c][i])]
    BY <1>2 DEF sentBar
  <1>4. n = Len(sentBar[c])
    BY <1>2, <1>3
  <1>. QED  BY <1>2, <1>3, <1>4 DEF Bare
=============================================================================
