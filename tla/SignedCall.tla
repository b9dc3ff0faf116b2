----------------------------- MODULE SignedCall -----------------------------
(***************************************************************************)
(* The call protocol shared by every state-changing API of the SDK         *)
(* (src/memo/controller.go, src/mfile/controller.go).  A caller            *)
(*                                                                         *)
(*   1. asks GetXMessage for the message to sign; the message embeds the   *)
(*      nonce that the chain holds at that moment (Obtain);                *)
(*   2. signs it and passes the signature to X, whose contract binding     *)
(*      estimates gas, signs a transaction and sends it (Send, ...);       *)
(*   3. polls the receipt in CheckTx until it is there or the polls are    *)
(*      used up (CheckTx).                                                 *)
(*                                                                         *)
(* Between those steps other callers move the chain.  What a request does  *)
(* on the chain is a parameter: the operators take the nonce read and the  *)
(* contract's verdict as arguments, and the modules that EXTEND this one   *)
(* supply them.                                                            *)
(***************************************************************************)
EXTENDS Integers, Sequences

CONSTANTS
    Callers,    \* the processes that use a controller, each with its own account
    Requests,   \* the operations with their arguments
    NoAuth,     \* "no signed message in hand"
    MaxPolls,   \* receipt polls of one CheckTx (10 in the code)
    MaxTxs      \* bound: transactions one caller sends in a behaviour

ASSUME PollsAssumption == MaxPolls \in Nat \ {0}
ASSUME TxsAssumption == MaxTxs \in Nat

\* A signed message: the request and the nonce the message embeds.
Auth == [op : Requests, nonce : Nat]

ASSUME NoAuthAssumption == NoAuth \notin Auth

Statuses == {"pending", "ok", "failed"}

\* A transaction carries a signed message; its status is what the receipt says.
Tx == [op : Requests, nonce : Nat, status : Statuses]

\* What an API call returned: nil, "execution failed", "not packaged", or any
\* other error, after which the caller cannot tell whether a transaction went out.
Returned == {"ok", "failed", "notPackaged", "error"}

Phases == {"idle", "signed", "waiting"} \cup Returned

VARIABLES
    pc,     \* pc[c]: where caller c is in the protocol, or what its call returned
    held,   \* held[c]: the signed message of c's current or last call
    txs,    \* txs[c]: the transactions of c's account in account-nonce order
    polls   \* polls[c]: receipt polls used by the running CheckTx, else 0

callVars == <<pc, held, txs, polls>>

CallTypeOK ==
    /\ pc \in [Callers -> Phases]
    /\ held \in [Callers -> Auth \cup {NoAuth}]
    /\ txs \in [Callers -> Seq(Tx)]
    /\ \A c \in Callers : Len(txs[c]) <= MaxTxs
    /\ \A c \in Callers : pc[c] = "waiting" => txs[c] # <<>>
    /\ polls \in [Callers -> 0 .. MaxPolls - 1]

CallInit ==
    /\ pc = [c \in Callers |-> "idle"]
    /\ held = [c \in Callers |-> NoAuth]
    /\ txs = [c \in Callers |-> <<>>]
    /\ polls = [c \in Callers |-> 0]

-----------------------------------------------------------------------------

\* A new message may be asked for whenever no call of c is running; one that
\* was signed before is dropped.
MayAsk(c) == pc[c] # "waiting"

\* GetXMessage answered: c signs op together with the nonce n it contains.
Obtain(c, op, n) ==
    /\ MayAsk(c)
    /\ pc' = [pc EXCEPT ![c] = "signed"]
    /\ held' = [held EXCEPT ![c] = [op |-> op, nonce |-> n]]
    /\ UNCHANGED <<txs, polls>>

\* GetXMessage returned an error (a query failed, or the arguments are not
\* supported): there is nothing to sign.
Refuse(c) ==
    /\ MayAsk(c)
    /\ pc' = [pc EXCEPT ![c] = "error"]
    /\ held' = [held EXCEPT ![c] = NoAuth]
    /\ UNCHANGED <<txs, polls>>

\* X may be called with the signed message in hand: the first time, or again
\* with the same signature when the last call did not return nil.
MayCall(c) == held[c] # NoAuth /\ pc[c] \in {"signed", "failed", "notPackaged", "error"}

\* The transaction the call builds.
NewTx(c) == [op |-> held[c].op, nonce |-> held[c].nonce, status |-> "pending"]

\* Faulty variant of Send: the binding is given a gas limit and estimates nothing.
SendUnestimated(c, passes) ==
    /\ MayCall(c)
    /\ Len(txs[c]) < MaxTxs
    /\ pc' = [pc EXCEPT ![c] = "waiting"]
    /\ txs' = [txs EXCEPT ![c] = Append(@, NewTx(c))]
    /\ UNCHANGED <<held, polls>>

\* The transaction is sent and the call goes on to CheckTx.  No gas limit is
\* set, so the binding estimates gas first and a call that would revert now is
\* never sent: passes is that estimate's verdict.
Send(c, passes) ==
    /\ MayCall(c)
    /\ passes
    /\ Len(txs[c]) < MaxTxs
    /\ pc' = [pc EXCEPT ![c] = "waiting"]
    /\ txs' = [txs EXCEPT ![c] = Append(@, NewTx(c))]
    /\ UNCHANGED <<held, polls>>

\* The node takes the transaction but its answer is lost: X returns the error.
SendAnswerLost(c, passes) ==
    /\ MayCall(c)
    /\ passes
    /\ Len(txs[c]) < MaxTxs
    /\ pc' = [pc EXCEPT ![c] = "error"]
    /\ txs' = [txs EXCEPT ![c] = Append(@, NewTx(c))]
    /\ UNCHANGED <<held, polls>>

\* Faulty variant of SendFails: the error is not looked at, CheckTx follows.
SendFailureIgnored(c) ==
    /\ MayCall(c)
    /\ pc' = [pc EXCEPT ![c] = "waiting"]
    /\ UNCHANGED <<held, txs, polls>>

\* X returns an error before anything is sent: the estimate reverts, or the
\* node cannot be reached.
SendFails(c) ==
    /\ MayCall(c)
    /\ pc' = [pc EXCEPT ![c] = "error"]
    /\ UNCHANGED <<held, txs, polls>>

\* One call of X, up to the point where it returns or enters CheckTx.
Call(c, passes) == Send(c, passes) \/ SendAnswerLost(c, passes) \/ SendFails(c)

\* The i-th transaction of c can be mined: those before it in its account are.
NextToMine(c, i) ==
    /\ i \in DOMAIN txs[c]
    /\ txs[c][i].status = "pending"
    /\ \A j \in 1 .. i - 1 : txs[c][j].status # "pending"

\* The receipt of the i-th transaction of c says whether the contract accepted it.
Settle(c, i, accepted) ==
    /\ txs' = [txs EXCEPT ![c][i].status = IF accepted THEN "ok" ELSE "failed"]
    /\ UNCHANGED <<pc, held, polls>>

\* Faulty variant of Watched: the hash of the first call is kept.
WatchedFirst(c) == txs[c][1]

\* The transaction whose receipt the running CheckTx of c asks for.
Watched(c) == txs[c][Len(txs[c])]

\* Faulty variant of ReceiptSeen: the status of the receipt is not looked at.
ReceiptIsSuccess(c) ==
    /\ pc[c] = "waiting"
    /\ Watched(c).status # "pending"
    /\ pc' = [pc EXCEPT ![c] = "ok"]
    /\ polls' = [polls EXCEPT ![c] = 0]
    /\ UNCHANGED <<held, txs>>

\* A receipt is there: CheckTx returns nil or "execution failed".
ReceiptSeen(c) ==
    /\ pc[c] = "waiting"
    /\ Watched(c).status # "pending"
    /\ pc' = [pc EXCEPT ![c] = Watched(c).status]
    /\ polls' = [polls EXCEPT ![c] = 0]
    /\ UNCHANGED <<held, txs>>

\* Faulty variant of NoReceipt: polls without a limit.
NoReceiptUnbounded(c) ==
    /\ pc[c] = "waiting"
    /\ polls' = [polls EXCEPT ![c] = @ + 1]
    /\ UNCHANGED <<pc, held, txs>>

\* Faulty variant of NoReceipt: the counter starts again at each poll.
NoReceiptUncounted(c) ==
    /\ pc[c] = "waiting"
    /\ polls' = [polls EXCEPT ![c] = (@ + 1) % MaxPolls]
    /\ UNCHANGED <<pc, held, txs>>

\* No receipt, or the query for it failed: poll again or give up.
NoReceipt(c) ==
    /\ pc[c] = "waiting"
    /\ \/ /\ polls[c] + 1 < MaxPolls
          /\ polls' = [polls EXCEPT ![c] = @ + 1]
          /\ UNCHANGED pc
       \/ /\ polls[c] + 1 = MaxPolls
          /\ polls' = [polls EXCEPT ![c] = 0]
          /\ pc' = [pc EXCEPT ![c] = "notPackaged"]
    /\ UNCHANGED <<held, txs>>

CheckTx(c) == ReceiptSeen(c) \/ NoReceipt(c)

-----------------------------------------------------------------------------
(* What the properties and SignedRequests see of a call.                    *)

\* The transactions that took effect, as <<caller, position>>.
Landed ==
    {id \in Callers \X (1 .. MaxTxs) :
        id[2] \in DOMAIN txs[id[1]] /\ txs[id[1]][id[2]].status = "ok"}

TxOf(id) == txs[id[1]][id[2]]

\* A transaction without its receipt.
Bare(t) == [op |-> t.op, nonce |-> t.nonce]

\* How SignedRequests sees the state: the value a call returned is its answer.
AnswerOf(phase) ==
    CASE phase = "ok" -> "yes"
      [] phase = "failed" -> "no"
      [] phase = "waiting" -> "open"
      [] phase \in {"notPackaged", "error"} -> "unknown"
      [] OTHER -> "none"

sentBar == [c \in Callers |-> [i \in DOMAIN txs[c] |-> Bare(txs[c][i])]]
answerBar == [c \in Callers |-> AnswerOf(pc[c])]
=============================================================================
