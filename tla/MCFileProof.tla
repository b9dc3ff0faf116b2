----------------------------- MODULE MCFileProof -----------------------------
(* Instances of FileProof for TLC. *)
EXTENDS FileProof, TLC

CONSTANTS c1, c2, acc, other

mcFirst == [price |-> 1, subPledge |-> 2, chalPledge |-> 1]
mcSecond == [price |-> 2, subPledge |-> 1, chalPledge |-> 2]
mcSettings == {mcFirst, mcSecond}

Submit(p) == [kind |-> "SubmitAggregationProof", point |-> p]
On(kind, s) == [kind |-> kind, submitter |-> s]
Only(kind) == [kind |-> kind]
FileFor(size, span) == [kind |-> "AddFile", size |-> size, span |-> span, credential |-> TRUE]
File(size) == FileFor(size, 1)
Unsigned == [kind |-> "AddFile", size |-> 1, span |-> 1, credential |-> FALSE]
Alter(n) == [kind |-> "AlterSetting", setting |-> mcSecond, nonce |-> n]
Amount(n) == [kind |-> "Pledge", amount |-> n]

\* Two clients of one account pledge and pay, while the setting changes.
TwoClients == [c \in {c1, c2} |-> acc]
MoneyCalls ==
    (c1 :> {File(1), File(4), FileFor(1, -1), Unsigned, Only("BeSubmitter"), On("ChallengePn", other),
            Alter(0), On("EndChallenge", other)})
    @@ (c2 :> {Amount(2), On("ChallengeCn", other), Only("Withdraw"),
               Only("WithdrawMissedProfit"), Only("AlterFoundation")})
MoneyDeeds == {<<other, Alter(0)>>}
OtherProved == {[who |-> other, cycle |-> 1, point |-> 1]}

\* A submitter proves, is challenged and asks who won.
OneClient == [c \in {c1} |-> acc]
ContestCalls ==
    c1 :> {Submit(1), Submit(2), Only("IsSubmitterWinner"), Only("ResponseChallenge"),
           Only("GenerateRnd")}
ContestDeeds ==
    {<<other, On("ChallengePn", acc)>>, <<other, On("ChallengeCn", acc)>>,
     <<other, On("EndChallenge", acc)>>, <<other, Only("GenerateRnd")>>}
=============================================================================
