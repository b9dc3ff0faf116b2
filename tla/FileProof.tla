------------------------------ MODULE FileProof ------------------------------
(***************************************************************************)
(* ProofInstance (src/file-proof/proof.go): the client of the file proof   *)
(* contracts.  A method is a fixed sequence of steps, each a query or a    *)
(* transaction: the setting and the pledge are read, an allowance is       *)
(* approved, CheckTx waits for it, the method's own transaction is sent    *)
(* and CheckTx waits for that.  Between two steps the setting may change,  *)
(* the cycle may turn, a pledge may be penalized, and a second client may  *)
(* use the same account.                                                   *)
(*                                                                         *)
(* The transactor has a gas limit (proof.go:88), so the binding estimates  *)
(* nothing: a transaction that will revert is sent all the same.           *)
(***************************************************************************)
EXTENDS FileProofContracts, Sequences

CONSTANTS
    Clients,        \* the processes that hold a ProofInstance
    AccountOf,      \* AccountOf[c]: the account of its key
    CallsOf,        \* CallsOf[c]: the method calls c may make
    Deeds,          \* what accounts without a client do: pairs of account and call
    Nobody,         \* waits for the transactions nobody waits for
    MaxPolls,       \* receipt polls of one CheckTx (30 in the code)
    MaxCalls,       \* bound: calls that send transactions in a behaviour
    Half,           \* 2^63: int64 holds the numbers below
    Word            \* 2^256: what a Solidity word holds

ASSUME AccountOfAssumption == AccountOf \in [Clients -> Accounts]
ASSUME NobodyAssumption == Nobody \notin Clients
ASSUME PollsAssumption == MaxPolls \in Nat \ {0}
ASSUME WidthAssumption == Half \in Nat \ {0} /\ Word \in Nat \ {0} /\ MaxCalls \in Nat

\* The calls with the arguments that tell outcomes apart.  The span of a file is its
\* end less its start, which AddFile does not compare: it may be negative.
Calls ==
    [kind : {"AddFile"}, size : Nat, span : Int, credential : BOOLEAN]
        \cup [kind : {"Pledge"}, amount : Nat]
        \cup [kind : {"SubmitAggregationProof"}, point : Nat]
        \cup [kind : Challenging \cup {"EndChallenge"}, submitter : Accounts]
        \cup [kind : {"AlterSetting"}, setting : Settings, nonce : Nat]
        \cup [kind : {"BeSubmitter", "GenerateRnd", "ResponseChallenge", "WithdrawMissedProfit",
                        "Withdraw", "AlterFoundation", "IsSubmitterWinner"}]

ASSUME CallsAssumption ==
    CallsOf \in [Clients -> SUBSET Calls] /\ Deeds \subseteq Accounts \X Calls

\* The steps of each method, in order; Approve and CheckTx first where it costs something.
OwnTransaction == <<"spend", "check">>

AddFile == <<"setting", "credential", "approve", "check", "spend", "check">>
BeSubmitter == <<"setting", "approve", "check", "spend", "check">>
SubmitAggregationProof == <<"setting", "balance", "approve", "check", "rnd", "spend", "check">>
ChallengePn == <<"setting", "balance", "approve", "check", "spend", "check">>
ChallengeCn == <<"setting", "balance", "approve", "check", "spend", "check">>
Pledge == <<"approve", "check", "spend", "check">>
GenerateRnd == OwnTransaction
ResponseChallenge == OwnTransaction
EndChallenge == OwnTransaction
WithdrawMissedProfit == OwnTransaction
Withdraw == OwnTransaction
AlterSetting == OwnTransaction
AlterFoundation == OwnTransaction
IsSubmitterWinner == <<"cycle", "proofs", "dividedCn", "status", "results">>

Plan == [AddFile |-> AddFile, BeSubmitter |-> BeSubmitter,
         SubmitAggregationProof |-> SubmitAggregationProof,
         ChallengePn |-> ChallengePn, ChallengeCn |-> ChallengeCn,
         ResponseChallenge |-> ResponseChallenge, EndChallenge |-> EndChallenge,
         Pledge |-> Pledge, Withdraw |-> Withdraw, WithdrawMissedProfit |-> WithdrawMissedProfit,
         GenerateRnd |-> GenerateRnd, AlterSetting |-> AlterSetting,
         AlterFoundation |-> AlterFoundation, IsSubmitterWinner |-> IsSubmitterWinner]

Steps == {"setting", "credential", "balance", "approve", "check", "rnd", "spend",
          "cycle", "proofs", "dividedCn", "status", "results"}

Sending == {"approve", "spend"}
Querying == Steps \ (Sending \cup {"check"})

\* What a call returned; "gasLimit", "failed" and "panicked" are CheckTx's ways
\* to speak of a reverted transaction.
Answers == {"none", "ok", "error", "notPackaged", "gasLimit", "failed", "panicked", "won", "lost"}

\* The receipt of a transaction, and why it was reverted, which CheckTx cannot see.
Receipts == {"none", "ok", "unpaid", "refused"}

VARIABLES
    call,       \* call[c]: the call of c that is running or was the last
    todo,       \* todo[c]: the steps it has left
    known,      \* known[c]: the amount it will approve, or the cycle IsSubmitterWinner read
    polls,      \* polls[c]: polls of the running CheckTx
    receipt,    \* receipt[c]: the receipt of the transaction it waits for
    answer,     \* answer[c]: what the last call returned
    queue,      \* queue[a]: transactions of account a, in the order of their nonces
    calls,      \* calls begun
    \* history
    before,     \* before[c]: the account when the call began, or Disturbed once somebody
                \* else moved it or the setting
    began,      \* began[c]: the cycle in which the call began
    done        \* done[c]: the call's own transaction was accepted

clientVars == <<call, todo, known, polls, receipt, answer>>
history == <<before, began, done>>
vars == <<contractVars, clientVars, queue, calls, history>>

Entry == [by : Clients \cup {Nobody},
          req : Calls \cup [kind : {"Approve"}, spender : Spenders, amount : Nat],
          at : Nat]

View == [allowance : [Spenders -> Nat], bal : Nat]
Disturbed == [allowance |-> [s \in Spenders |-> 0], bal |-> -1]

TypeOK ==
    /\ ContractTypeOK
    /\ call \in [Clients -> Calls]
    /\ todo \in [Clients -> Seq(Steps)]
    /\ known \in [Clients -> Nat]
    /\ polls \in [Clients -> 0 .. MaxPolls - 1]
    /\ receipt \in [Clients -> Receipts]
    /\ answer \in [Clients -> Answers]
    /\ queue \in [Accounts -> Seq(Entry)]
    /\ calls \in 0 .. MaxCalls
    /\ before \in [Clients -> View \cup {Disturbed}]
    /\ began \in [Clients -> 1 .. MaxCycle]
    /\ done \in [Clients -> BOOLEAN]

-----------------------------------------------------------------------------

Running(c) == todo[c] # <<>>

At(c, step) == Running(c) /\ Head(todo[c]) = step

\* What the account of c looks like now.
Now(c) == [allowance |-> allowance[AccountOf[c]], bal |-> bal[AccountOf[c]]]

Init ==
    /\ ContractInit
    /\ call = [c \in Clients |-> [kind |-> "IsSubmitterWinner"]]
    /\ todo = [c \in Clients |-> <<>>]
    /\ known = [c \in Clients |-> 0]
    /\ polls = [c \in Clients |-> 0]
    /\ receipt = [c \in Clients |-> "none"]
    /\ answer = [c \in Clients |-> "none"]
    /\ queue = [a \in Accounts |-> <<>>]
    /\ calls = 0
    /\ before = [c \in Clients |-> Disturbed]
    /\ began = [c \in Clients |-> 1]
    /\ done = [c \in Clients |-> FALSE]

\* A call begins.  A point to prove at was read from the chain some time before, and
\* so was the nonce in the message whose signatures AlterSetting takes.
Begin(c, m) ==
    /\ ~ Running(c)
    /\ m.kind = "SubmitAggregationProof" => m.point <= cycle
    /\ m.kind = "AlterSetting" => m.nonce <= authNonce
    /\ calls < MaxCalls /\ calls' = calls + 1
    /\ call' = [call EXCEPT ![c] = m]
    /\ todo' = [todo EXCEPT ![c] = Plan[m.kind]]
    /\ known' = [known EXCEPT ![c] = IF m.kind = "Pledge" THEN m.amount ELSE 0]
    /\ answer' = [answer EXCEPT ![c] = "none"]
    /\ before' = [before EXCEPT ![c] = Now(c)]
    /\ began' = [began EXCEPT ![c] = cycle]
    /\ done' = [done EXCEPT ![c] = FALSE]
    /\ UNCHANGED <<contractVars, polls, receipt, queue>>

\* The step is over, with k to be known in the rest of the plan.
Proceed(c, rest, k) ==
    /\ todo' = [todo EXCEPT ![c] = rest]
    /\ known' = [known EXCEPT ![c] = k]
    /\ UNCHANGED answer

Advance(c) == Proceed(c, Tail(todo[c]), known[c])

\* The call returns.
Return(c, a) ==
    /\ todo' = [todo EXCEPT ![c] = <<>>]
    /\ known' = [known EXCEPT ![c] = 0]
    /\ answer' = [answer EXCEPT ![c] = a]

\* A query changes nothing but what the client knows.
Local == UNCHANGED <<contractVars, queue, calls, history, call, polls, receipt>>

-----------------------------------------------------------------------------
(* Queries                                                                 *)

\* Any query may fail, and the error is returned.
QueryFails(c) ==
    /\ Running(c) /\ Head(todo[c]) \in Querying
    /\ Return(c, "error")
    /\ Local

\* uint64 to int64, and a big.Int packed into a word.
ToInt64(n) == IF n < Half THEN n ELSE n - 2 * Half
Packed(n) == n % Word

\* What AddFile approves for the file.
FileAmount(m) == Packed(ToInt64(setting.price) * ToInt64(m.size) * m.span)

\* GetSettingInfo: what the method wants to have approved or pledged.
ReadSetting(c) ==
    /\ At(c, "setting")
    /\ Proceed(c, Tail(todo[c]), CASE call[c].kind = "AddFile" -> FileAmount(call[c])
                                   [] call[c].kind \in Challenging -> setting.chalPledge
                                   [] OTHER -> setting.subPledge)
    /\ Local

\* GetSubmittersInfo, and whether the main submitter signed the credential.
CheckCredential(c) ==
    /\ At(c, "credential")
    /\ IF call[c].credential THEN Advance(c) ELSE Return(c, "error")
    /\ Local

\* Faulty variant of ReadBalance: the whole pledge is approved.
ReadBalanceIgnored(c) ==
    /\ At(c, "balance")
    /\ Advance(c)
    /\ Local

\* Bal: only what is missing is approved, and nothing when nothing is.
ReadBalance(c) ==
    /\ At(c, "balance")
    /\ LET missing == Shortfall(known[c], bal[AccountOf[c]]) IN
        IF missing > 0 THEN Proceed(c, Tail(todo[c]), missing)
                       ELSE Proceed(c, Tail(Tail(Tail(todo[c]))), 0)
    /\ Local

\* Faulty variant of CompareRnd: the answer is not compared.
ReadRnd(c) ==
    /\ At(c, "rnd")
    /\ Advance(c)
    /\ Local

\* Rnd: the proof must be at the point of the current cycle.
CompareRnd(c) ==
    /\ At(c, "rnd")
    /\ IF call[c].point = cycle THEN Advance(c) ELSE Return(c, "error")
    /\ Local

\* IsSubmitterWinner: Rnd.
ReadCycle(c) ==
    /\ At(c, "cycle")
    /\ Proceed(c, Tail(todo[c]), cycle)
    /\ Local

\* FilterSubmitProof for the account and that cycle.
ReadProofs(c) ==
    /\ At(c, "proofs")
    /\ IF \E p \in proofs : p.who = AccountOf[c] /\ p.cycle = known[c]
       THEN Advance(c)
       ELSE Return(c, "error")
    /\ Local

\* GetChallengeInfo asks for the divided commitments first.
ReadDividedCn(c) ==
    /\ At(c, "dividedCn")
    /\ Advance(c)
    /\ Local

\* Then for the challenge, which must be over.
ReadStatus(c) ==
    /\ At(c, "status")
    /\ IF challenge[AccountOf[c]] = "done" THEN Advance(c) ELSE Return(c, "error")
    /\ Local

\* Faulty variant of ReadResults: the filter leaves the cycle open.
ReadAnyResult(c) ==
    /\ At(c, "results")
    /\ LET found == {r \in results : r.who = AccountOf[c]} IN
        IF found = {} THEN Return(c, "error")
        ELSE \E r \in found : Return(c, IF r.won THEN "won" ELSE "lost")
    /\ Local

\* FilterChallengeResult for the account and the cycle of the proof.
ReadResults(c) ==
    /\ At(c, "results")
    /\ LET found == {r \in results : r.who = AccountOf[c] /\ r.cycle = known[c]} IN
        IF found = {} THEN Return(c, "error")
        ELSE \E r \in found : Return(c, IF r.won THEN "won" ELSE "lost")
    /\ Local

Ask(c) ==
    \/ QueryFails(c) \/ ReadSetting(c) \/ CheckCredential(c) \/ ReadBalance(c) \/ CompareRnd(c)
    \/ ReadCycle(c) \/ ReadProofs(c) \/ ReadDividedCn(c) \/ ReadStatus(c) \/ ReadResults(c)

-----------------------------------------------------------------------------
(* Transactions                                                            *)

\* Faulty variant of Request: AddFile has its allowance approved to the pledge contract.
RequestToPledge(c) ==
    IF Head(todo[c]) = "approve"
    THEN [kind |-> "Approve", spender |-> "pledge", amount |-> known[c]]
    ELSE call[c]

\* The transaction of a sending step.
Request(c) ==
    IF Head(todo[c]) = "approve"
    THEN [kind |-> "Approve", spender |-> Spender(call[c]), amount |-> known[c]]
    ELSE call[c]

Enqueue(c, by) ==
    queue' = [queue EXCEPT ![AccountOf[c]] =
                 Append(@, [by |-> by, req |-> Request(c), at |-> began[c]])]

\* The node takes the transaction: CheckTx follows.
Send(c) ==
    /\ Running(c) /\ Head(todo[c]) \in Sending
    /\ Enqueue(c, c)
    /\ Advance(c)
    /\ UNCHANGED <<contractVars, calls, history, call, polls, receipt>>

\* The node takes the transaction but its answer is lost.
SendAnswerLost(c) ==
    /\ Running(c) /\ Head(todo[c]) \in Sending
    /\ Enqueue(c, Nobody)
    /\ Return(c, "error")
    /\ UNCHANGED <<contractVars, calls, history, call, polls, receipt>>

\* The transaction does not get to the node.
SendFails(c) ==
    /\ Running(c) /\ Head(todo[c]) \in Sending
    /\ Return(c, "error")
    /\ UNCHANGED <<contractVars, queue, calls, history, call, polls, receipt>>

\* CheckTx is over; its answer, if it is one of the call.
Checked(c) ==
    /\ polls' = [polls EXCEPT ![c] = 0]
    /\ receipt' = [receipt EXCEPT ![c] = "none"]
    /\ UNCHANGED <<contractVars, calls, history, call>>

\* Nobody waits for the transaction of c any more.
Abandon(c) ==
    queue' = [queue EXCEPT ![AccountOf[c]] =
                 [i \in DOMAIN @ |-> IF @[i].by = c THEN [@[i] EXCEPT !.by = Nobody] ELSE @[i]]]

\* getErrorReason calls the method again on the latest state.  When it passes there,
\* the result is empty and unpackError slices it out of range.  Approve returns a word.
Replays(c) == Tail(todo[c]) = <<>> /\ Payable(AccountOf[c], call[c]) /\ Admissible(AccountOf[c], call[c])

\* Faulty variant of ReceiptSeen: the status of the receipt is not looked at.
ReceiptIsSuccess(c) ==
    /\ At(c, "check") /\ receipt[c] # "none"
    /\ IF Tail(todo[c]) = <<>> THEN Return(c, "ok") ELSE Advance(c)
    /\ Checked(c) /\ UNCHANGED queue

\* A receipt is there.  A reverted transaction that is not the first of its block has
\* GasUsed # CumulativeGasUsed.
ReceiptSeen(c) ==
    /\ At(c, "check")
    /\ \/ /\ receipt[c] = "ok"
          /\ IF Tail(todo[c]) = <<>> THEN Return(c, "ok") ELSE Advance(c)
       \/ receipt[c] \in {"unpaid", "refused"} /\ Return(c, "gasLimit")
       \/ receipt[c] \in {"unpaid", "refused"} /\ Return(c, "failed")
       \/ receipt[c] \in {"unpaid", "refused"} /\ Replays(c) /\ Return(c, "panicked")
    /\ Checked(c) /\ UNCHANGED queue

\* Faulty variant of ReceiptMissing: polls without a limit.
ReceiptMissingUnbounded(c) ==
    /\ At(c, "check")
    /\ polls' = [polls EXCEPT ![c] = @ + 1]
    /\ UNCHANGED <<contractVars, queue, calls, history, call, todo, known, receipt, answer>>

\* Faulty variant of ReceiptMissing: the counter starts again at each poll.
ReceiptMissingUncounted(c) ==
    /\ At(c, "check")
    /\ polls' = [polls EXCEPT ![c] = (@ + 1) % MaxPolls]
    /\ UNCHANGED <<contractVars, queue, calls, history, call, todo, known, receipt, answer>>

\* No receipt, or the query for it failed.
ReceiptMissing(c) ==
    /\ At(c, "check") /\ polls[c] + 1 < MaxPolls
    /\ polls' = [polls EXCEPT ![c] = @ + 1]
    /\ UNCHANGED <<contractVars, queue, calls, history, call, todo, known, receipt, answer>>

\* Faulty variant of GiveUp: the next CheckTx still looks at this transaction.
GiveUpRemembered(c) ==
    /\ At(c, "check") /\ polls[c] + 1 = MaxPolls
    /\ Return(c, "notPackaged")
    /\ Checked(c) /\ UNCHANGED queue

\* The polls are used up.
GiveUp(c) ==
    /\ At(c, "check") /\ polls[c] + 1 = MaxPolls
    /\ Return(c, "notPackaged")
    /\ Checked(c) /\ Abandon(c)

CheckTx(c) == ReceiptSeen(c) \/ ReceiptMissing(c) \/ GiveUp(c)

ClientStep(c) == Ask(c) \/ Send(c) \/ SendAnswerLost(c) \/ SendFails(c) \/ CheckTx(c)

-----------------------------------------------------------------------------
(* The chain                                                               *)

\* The calls of all clients but one are disturbed by what the step moved.
Watch(by) ==
    before' = [d \in Clients |->
                  IF d # by /\ <<setting, Now(d)>>' # <<setting, Now(d)>> THEN Disturbed ELSE before[d]]

\* The oldest transaction of an account leaves the queue, and its sender gets a receipt.
Settle(a, status) ==
    LET e == Head(queue[a]) IN
    /\ queue' = [queue EXCEPT ![a] = Tail(@)]
    /\ receipt' = [c \in Clients |-> IF c = e.by THEN status ELSE receipt[c]]
    /\ done' = [c \in Clients |-> done[c] \/ (c = e.by /\ status = "ok" /\ e.req.kind # "Approve")]
    /\ Watch(e.by)
    /\ UNCHANGED <<call, todo, known, polls, answer, calls, began>>

\* An Approve.
MineApprove(a) ==
    /\ queue[a] # <<>> /\ Head(queue[a]).req.kind = "Approve"
    /\ LET req == Head(queue[a]).req IN SetAllowance(a, req.spender, req.amount)
    /\ Settle(a, "ok")

\* A method that is accepted.
MineAccepted(a) ==
    /\ queue[a] # <<>> /\ Head(queue[a]).req.kind # "Approve"
    /\ LET req == Head(queue[a]).req IN Payable(a, req) /\ Admissible(a, req) /\ Execute(a, req)
    /\ Settle(a, "ok")

\* The allowance is too small.
MineUnpaid(a) ==
    /\ queue[a] # <<>> /\ Head(queue[a]).req.kind # "Approve"
    /\ ~ Payable(a, Head(queue[a]).req)
    /\ UNCHANGED contractVars
    /\ Settle(a, "unpaid")

\* A contract refuses for another reason.
MineRefused(a) ==
    /\ queue[a] # <<>>
    /\ UNCHANGED contractVars
    /\ Settle(a, "refused")

\* Accounts that have no client act too.
Elsewhere(a, m) ==
    /\ <<a, m>> \in Deeds
    /\ Admissible(a, m) /\ Perform(a, m)
    /\ UNCHANGED <<allowance, bal, clientVars, queue, calls, began, done>>
    /\ Watch(Nobody)

\* A challenge or a missed cycle costs a part of the pledge.
Penalized(a) ==
    /\ Penalize(a)
    /\ Watch(Nobody)
    /\ UNCHANGED <<clientVars, queue, calls, began, done>>

Chain ==
    \/ \E a \in Accounts : MineApprove(a) \/ MineAccepted(a) \/ MineUnpaid(a) \/ MineRefused(a)
    \/ \E d \in Deeds : Elsewhere(d[1], d[2])
    \/ \E c \in Clients : Penalized(AccountOf[c])

Next ==
    \/ \E c \in Clients : \E m \in CallsOf[c] : Begin(c, m)
    \/ \E c \in Clients : ClientStep(c)
    \/ Chain

\* The steps of a call are taken: a query is answered or fails, CheckTx polls and counts.
Spec == Init /\ [][Next]_vars /\ \A c \in Clients : WF_vars(ClientStep(c))

-----------------------------------------------------------------------------
(* Properties                                                              *)

\* The amounts of the call of c are inside the widths of the conversions, and its
\* file does not end before it starts.
Fits(c) ==
    call[c].kind = "AddFile" =>
        /\ setting.price < Half /\ call[c].size < Half /\ call[c].span >= 0
        /\ setting.price * call[c].size * call[c].span < Word

Cost(c) == Charge(call[c], before[c].bal)

Approves(c) == call[c].kind \in {"AddFile", "Pledge", "BeSubmitter"} \/ Cost(c) > 0

\* A nil is exact when nobody interfered: the account has pledged what the method
\* costs, no more and no less, and the allowance the method asked for is used up, so
\* that nothing is left to take.  A method that asked for none left the others alone.
QuietCallPaysExactly ==
    \A c \in Clients :
        answer[c] = "ok" /\ before[c] # Disturbed /\ Fits(c) =>
            LET a == AccountOf[c]  s == Spender(call[c]) IN
            /\ allowance[a] = [before[c].allowance EXCEPT ![s] = IF Approves(c) THEN 0 ELSE @]
            /\ bal[a] = CASE call[c].kind = "Withdraw" -> 0
                          [] call[c].kind = "AddFile" -> before[c].bal
                          [] OTHER -> before[c].bal + Cost(c)

\* A method's transaction is refused for want of an allowance only if somebody moved
\* the setting, the pledge or the allowance between the queries and the mining.
UnpaidWasDisturbed ==
    \A c \in Clients : receipt[c] = "unpaid" /\ Fits(c) => before[c] = Disturbed

\* CheckTx speaks of the method's own transaction: nil means that it took effect, an
\* error that names a reverted transaction that it did not.
AnswerIsTrue ==
    \A c \in Clients :
        /\ answer[c] = "ok" => done[c]
        /\ answer[c] \in {"gasLimit", "failed", "panicked"} => ~ done[c]

\* No proof is sent for a cycle that was over when the call was made, whatever point
\* the caller brought.
NoStaleProofSent ==
    \A a \in Accounts : \A i \in DOMAIN queue[a] :
        LET e == queue[a][i] IN
        e.req.kind = "SubmitAggregationProof" => e.req.point >= e.at

\* IsSubmitterWinner reports the verdict of a cycle that was current during the call,
\* although it puts it together from five queries.
WinnerIsOfItsCycle ==
    \A c \in Clients : answer[c] \in {"won", "lost"} =>
        \E r \in results : /\ r.who = AccountOf[c]
                           /\ r.won = (answer[c] = "won")
                           /\ r.cycle >= began[c]

\* Every call returns, whether the chain mines or not.
EveryCallReturns == \A c \in Clients : Running(c) ~> ~ Running(c)
=============================================================================
