---------------------------- MODULE FileProofProofs ----------------------------
(***************************************************************************)
(* Proofs about FileProof: what a client is told, what it pays and what it *)
(* sends, for any clients, accounts, calls, settings and bounds.           *)
(***************************************************************************)
EXTENDS FileProof, SequenceTheorems, WellFoundedInduction, TLAPS

-----------------------------------------------------------------------------
(* The contracts.                                                           *)

\* A call has the arguments that its kind uses.
LEMMA CallFields ==
    ASSUME NEW m \in Calls
    PROVE  /\ m.kind = "AddFile" => m.size \in Nat /\ m.span \in Int
           /\ m.kind = "Pledge" => m.amount \in Nat
           /\ m.kind = "SubmitAggregationProof" => m.point \in Nat
           /\ m.kind \in Challenging \cup {"EndChallenge"} => m.submitter \in Accounts
           /\ m.kind = "AlterSetting" => m.setting \in Settings
           /\ m.kind \in {"AddFile", "Pledge", "SubmitAggregationProof", "ChallengePn",
                          "ChallengeCn", "EndChallenge", "AlterSetting", "BeSubmitter",
                          "GenerateRnd", "ResponseChallenge", "WithdrawMissedProfit",
                          "Withdraw", "AlterFoundation", "IsSubmitterWinner"}
  BY DEF Calls, Challenging

\* A nonempty set of natural numbers below a bound has a greatest one.
LEMMA GreatestExists ==
    ASSUME NEW n \in Nat, NEW T \in SUBSET (0 .. n), T # {}
    PROVE  Max(T) \in T
  <1>. DEFINE U == {n - x : x \in T}
  <1>1. U \subseteq Nat /\ U # {}
    <2>1. \A x \in T : n - x \in Nat
      OBVIOUS
    <2>. QED  BY <2>1
  <1>2. PICK u \in U : \A v \in U : ~ (<<v, u>> \in OpToRel(<, Nat))
    BY <1>1, NatLessThanWellFounded, WFMin
  <1>3. OpToRel(<, Nat) = {p \in Nat \X Nat : p[1] < p[2]}
    BY DEF OpToRel
  <1>4. \A v \in U : ~ (v < u)
    BY <1>1, <1>2, <1>3
  <1>5. PICK x \in T : u = n - x
    OBVIOUS
  <1>6. \A y \in T : x >= y
    BY <1>4, <1>5
  <1>. QED  BY <1>5, <1>6 DEF Max

\* What a call costs, and its payment out of the allowance and into the pledge.
LEMMA ChargeType ==
    ASSUME setting \in Setting, NEW m \in Calls, NEW p \in Nat
    PROVE  Charge(m, p) \in Nat
  <1>1. CASE m.kind = "AddFile"
    <2>1. setting.price \in Nat /\ m.size \in Nat /\ Span(m) \in Nat
      BY <1>1, CallFields DEF Setting, Span, Shortfall
    <2>2. setting.price * m.size \in Nat
      BY <2>1
    <2>3. setting.price * m.size * Span(m) \in Nat
      BY <2>1, <2>2
    <2>4. Charge(m, p) = setting.price * m.size * Span(m)
      BY <1>1 DEF Charge, Challenging
    <2>. QED  BY <2>3, <2>4
  <1>2. CASE m.kind # "AddFile"
    <2>1. setting.subPledge \in Nat /\ setting.chalPledge \in Nat
      BY DEF Setting
    <2>2. \A x \in Nat : Shortfall(x, p) \in Nat
      BY DEF Shortfall
    <2>3. m.kind = "Pledge" => m.amount \in Nat
      BY CallFields
    <2>4. CASE m.kind = "Pledge"
      <3>1. Charge(m, p) = m.amount
        BY <2>4 DEF Charge, Challenging
      <3>. QED  BY <2>3, <2>4, <3>1
    <2>5. CASE m.kind # "Pledge"
      <3>1. Charge(m, p) \in {setting.subPledge, Shortfall(setting.subPledge, p),
                              Shortfall(setting.chalPledge, p), 0}
        BY <1>2, <2>5 DEF Charge
      <3>. QED  BY <2>1, <2>2, <3>1
    <2>. QED  BY <2>4, <2>5
  <1>. QED  BY <1>1, <1>2

\* The state of the contracts has its type, no proof is of a cycle to come, and a
\* submitter is challenged only over a proof.
ContractOK ==
    /\ ContractTypeOK
    /\ \A p \in proofs : p.cycle <= cycle
    /\ \A s \in Accounts : challenge[s] # "none" => \E p \in proofs : p.who = s

\* The last proof of a challenged submitter has a cycle.
LEMMA LastProvedType ==
    ASSUME ContractOK, NEW s \in Accounts, \E p \in proofs : p.who = s
    PROVE  LastProved(s) \in Nat
  <1>. DEFINE T == {p.cycle : p \in {q \in proofs : q.who = s}}
  <1>1. T \subseteq 0 .. cycle /\ T # {} /\ cycle \in Nat
    BY DEF ContractOK, ContractTypeOK, Proof
  <1>2. Max(T) \in T
    BY <1>1, GreatestExists
  <1>. QED  BY <1>1, <1>2 DEF LastProved

\* What an accepted method does besides the payment.
LEMMA PerformEffect ==
    ASSUME ContractOK, NEW a \in Accounts, NEW m \in Calls, Admissible(a, m), Perform(a, m)
    PROVE  /\ setting' \in Settings /\ authNonce' \in Nat /\ submitters' \subseteq Accounts
           /\ cycle' \in 1 .. MaxCycle /\ proofs' \subseteq Proof
           /\ challenge' \in [Accounts -> ChallengeStatus] /\ results' \subseteq Verdict
           /\ \A p \in proofs' : p.cycle <= cycle'
           /\ \A s \in Accounts : challenge'[s] # "none" => \E p \in proofs' : p.who = s
           /\ cycle <= cycle' /\ results \subseteq results' /\ authNonce <= authNonce'
           /\ m.kind # "AlterSetting" => setting' = setting
  <1>0. /\ setting \in Settings /\ authNonce \in Nat /\ submitters \subseteq Accounts
        /\ cycle \in 1 .. MaxCycle /\ proofs \subseteq Proof /\ MaxCycle \in Nat
        /\ challenge \in [Accounts -> ChallengeStatus] /\ results \subseteq Verdict
    BY CyclesAssumption DEF ContractOK, ContractTypeOK
  <1>1. /\ setting' \in Settings /\ authNonce' \in Nat /\ submitters' \subseteq Accounts
        /\ cycle' \in 1 .. MaxCycle /\ cycle <= cycle' /\ authNonce <= authNonce'
        /\ m.kind # "AlterSetting" => setting' = setting
    BY <1>0, CallFields DEF Perform, Admissible
  <1>2. /\ proofs' \subseteq Proof /\ proofs \subseteq proofs' /\ \A p \in proofs' : p.cycle <= cycle'
    <2>1. CASE m.kind = "SubmitAggregationProof"
      <3>. DEFINE new == [who |-> a, cycle |-> cycle, point |-> m.point]
      <3>1. new \in Proof /\ new.cycle = cycle /\ cycle' = cycle
        BY <1>0, <2>1, CallFields DEF Proof, Perform
      <3>2. proofs' = proofs \cup {new}
        BY <2>1 DEF Perform
      <3>. HIDE DEF new
      <3>. QED  BY <1>0, <3>1, <3>2 DEF ContractOK
    <2>2. CASE m.kind # "SubmitAggregationProof"
      <3>1. proofs' = proofs
        BY <2>2 DEF Perform
      <3>. QED  BY <1>0, <1>1, <3>1 DEF ContractOK, Proof
    <2>. QED  BY <2>1, <2>2
  <1>3. ASSUME NEW s \in Accounts, \E p \in proofs : p.who = s, NEW won \in BOOLEAN, Ends(s, won)
        PROVE  /\ challenge' \in [Accounts -> ChallengeStatus] /\ results' \subseteq Verdict
               /\ results \subseteq results'
               /\ \A t \in Accounts : challenge'[t] # "none" => \E p \in proofs : p.who = t
    BY <1>0, <1>3, LastProvedType DEF Ends, Verdict, ContractOK, ChallengeStatus
  <1>4. ASSUME NEW s \in Accounts, \E p \in proofs : p.who = s, GoesOn(s)
        PROVE  /\ challenge' \in [Accounts -> ChallengeStatus] /\ results' = results
               /\ \A t \in Accounts : challenge'[t] # "none" => \E p \in proofs : p.who = t
    BY <1>0, <1>4 DEF GoesOn, ContractOK, ChallengeStatus
  <1>5. /\ challenge' \in [Accounts -> ChallengeStatus] /\ results' \subseteq Verdict
        /\ results \subseteq results'
        /\ \A t \in Accounts : challenge'[t] # "none" => \E p \in proofs : p.who = t
    <2>1. CASE m.kind \in Challenging
      <3>1. m.submitter \in Accounts /\ \E p \in proofs : p.who = m.submitter
        BY <2>1, CallFields DEF Admissible, HasProof
      <3>2. (\E won \in BOOLEAN : Ends(m.submitter, won)) \/ GoesOn(m.submitter)
        BY <2>1 DEF Perform, Contest, Challenging
      <3>. QED  BY <1>0, <1>3, <1>4, <3>1, <3>2
    <2>2. CASE m.kind = "ResponseChallenge"
      <3>1. \E p \in proofs : p.who = a
        BY <2>2 DEF Admissible, ContractOK
      <3>2. (\E won \in BOOLEAN : Ends(a, won)) \/ GoesOn(a)
        BY <2>2 DEF Perform, Contest
      <3>. QED  BY <1>0, <1>3, <1>4, <3>1, <3>2
    <2>3. CASE m.kind = "EndChallenge"
      <3>1. m.submitter \in Accounts /\ \E p \in proofs : p.who = m.submitter
        BY <2>3, CallFields DEF Admissible, ContractOK
      <3>2. Ends(m.submitter, FALSE)
        BY <2>3 DEF Perform, Contest
      <3>. QED  BY <1>3, <3>1, <3>2
    <2>4. CASE m.kind = "SubmitAggregationProof"
      <3>1. challenge' = [challenge EXCEPT ![a] = "none"] /\ results' = results
        BY <2>4 DEF Perform, Contest
      <3>. QED  BY <1>0, <3>1 DEF ContractOK, ChallengeStatus
    <2>5. CASE m.kind \notin Challenging \cup {"ResponseChallenge", "EndChallenge",
                                               "SubmitAggregationProof"}
      <3>1. challenge' = challenge /\ results' = results
        BY <2>5 DEF Perform, Contest, Challenging
      <3>. QED  BY <1>0, <3>1 DEF ContractOK
    <2>. QED  BY <2>1, <2>2, <2>3, <2>4, <2>5
  <1>. QED  BY <1>1, <1>2, <1>5

\* An accepted transaction leaves the other accounts' money alone, and takes its
\* charge out of the sender's allowance and into its pledge.
LEMMA ExecuteEffect ==
    ASSUME ContractOK, NEW a \in Accounts, NEW m \in Calls,
           Payable(a, m), Admissible(a, m), Execute(a, m)
    PROVE  /\ ContractOK'
           /\ cycle <= cycle' /\ results \subseteq results' /\ authNonce <= authNonce'
           /\ m.kind # "AlterSetting" => setting' = setting
           /\ allowance'[a] =
                 [allowance[a] EXCEPT ![Spender(m)] = allowance[a][Spender(m)] - Charge(m, bal[a])]
           /\ bal'[a] = CASE m.kind = "AddFile" -> bal[a]
                          [] m.kind = "Withdraw" -> 0
                          [] OTHER -> bal[a] + Charge(m, bal[a])
  <1>. DEFINE s == Spender(m)
              ch == Charge(m, bal[a])
              b == CASE m.kind = "AddFile" -> bal[a]
                     [] m.kind = "Withdraw" -> 0
                     [] OTHER -> bal[a] + ch
  <1>0. /\ allowance \in [Accounts -> [Spenders -> Nat]] /\ bal \in [Accounts -> Nat]
        /\ allowance[a] \in [Spenders -> Nat] /\ bal[a] \in Nat
        /\ s \in Spenders /\ ch \in Nat /\ ch <= allowance[a][s] /\ allowance[a][s] \in Nat
    BY ChargeType, SettingsAssumption
       DEF ContractOK, ContractTypeOK, Spender, Spenders, Payable
  <1>1. /\ allowance' = [allowance EXCEPT ![a][s] = allowance[a][s] - ch]
        /\ bal' = [bal EXCEPT ![a] = b]
    BY DEF Execute, Pay
  <1>2. b \in Nat
    BY <1>0
  <1>3. allowance[a][s] - ch \in Nat
    BY <1>0
  <1>. HIDE DEF s, ch, b
  <1>4. allowance' \in [Accounts -> [Spenders -> Nat]] /\ bal' \in [Accounts -> Nat]
        /\ bal'[a] = b /\ allowance'[a] = [allowance[a] EXCEPT ![s] = allowance[a][s] - ch]
    BY <1>0, <1>1, <1>2, <1>3
  <1>5. Perform(a, m)
    BY DEF Execute
  <1>6. ContractOK'
    BY <1>4, <1>5, PerformEffect DEF ContractOK, ContractTypeOK
  <1>. QED  BY <1>4, <1>5, <1>6, PerformEffect DEF s, ch, b

-----------------------------------------------------------------------------
(* Plans.                                                                   *)

\* What may be left of a plan, from its last step to its first: the call's own
\* transaction (T), after an allowance (T), after the queries of AddFile (F), of
\* BeSubmitter (B), of a challenge (H), of a proof (R); and IsSubmitterWinner (W).
T1 == <<"check">>
T2 == <<"spend", "check">>
T3 == <<"check", "spend", "check">>
T4 == <<"approve", "check", "spend", "check">>
F5 == <<"credential", "approve", "check", "spend", "check">>
F6 == <<"setting", "credential", "approve", "check", "spend", "check">>
B5 == <<"setting", "approve", "check", "spend", "check">>
H5 == <<"balance", "approve", "check", "spend", "check">>
H6 == <<"setting", "balance", "approve", "check", "spend", "check">>
R3 == <<"rnd", "spend", "check">>
R4 == <<"check", "rnd", "spend", "check">>
R5 == <<"approve", "check", "rnd", "spend", "check">>
R6 == <<"balance", "approve", "check", "rnd", "spend", "check">>
R7 == <<"setting", "balance", "approve", "check", "rnd", "spend", "check">>
W1 == <<"results">>
W2 == <<"status", "results">>
W3 == <<"dividedCn", "status", "results">>
W4 == <<"proofs", "dividedCn", "status", "results">>
W5 == <<"cycle", "proofs", "dividedCn", "status", "results">>

Paying == {"AddFile", "BeSubmitter", "Pledge"} \cup Challenging

Left(kind) ==
    {<<>>}
        \cup (IF kind = "IsSubmitterWinner" THEN {W1, W2, W3, W4, W5} ELSE {T1, T2})
        \cup (IF kind \in Paying THEN {T3, T4} ELSE {})
        \cup (IF kind = "AddFile" THEN {F5, F6} ELSE {})
        \cup (IF kind = "BeSubmitter" THEN {B5} ELSE {})
        \cup (IF kind \in Challenging THEN {H5, H6} ELSE {})
        \cup (IF kind = "SubmitAggregationProof" THEN {R3, R4, R5, R6, R7} ELSE {})

\* The first step, and what is left after it, under names of their own: the provers
\* need not look into the sequences once the facts of Rests are there.
First(s) == Head(s)
After(s) == Tail(s)

\* What comes first in each rest of a plan, and what is left after it.
LEMMA Rests ==
    /\ T1 # <<>> /\ First(T1) = "check" /\ After(T1) = <<>>
    /\ T2 # <<>> /\ First(T2) = "spend" /\ After(T2) = T1
    /\ T3 # <<>> /\ First(T3) = "check" /\ After(T3) = T2
    /\ T4 # <<>> /\ First(T4) = "approve" /\ After(T4) = T3
    /\ F5 # <<>> /\ First(F5) = "credential" /\ After(F5) = T4
    /\ F6 # <<>> /\ First(F6) = "setting" /\ After(F6) = F5
    /\ B5 # <<>> /\ First(B5) = "setting" /\ After(B5) = T4
    /\ H5 # <<>> /\ First(H5) = "balance" /\ After(H5) = T4
    /\ H6 # <<>> /\ First(H6) = "setting" /\ After(H6) = H5
    /\ R3 # <<>> /\ First(R3) = "rnd" /\ After(R3) = T2
    /\ R4 # <<>> /\ First(R4) = "check" /\ After(R4) = R3
    /\ R5 # <<>> /\ First(R5) = "approve" /\ After(R5) = R4
    /\ R6 # <<>> /\ First(R6) = "balance" /\ After(R6) = R5
    /\ R7 # <<>> /\ First(R7) = "setting" /\ After(R7) = R6
    /\ W1 # <<>> /\ First(W1) = "results" /\ After(W1) = <<>>
    /\ W2 # <<>> /\ First(W2) = "status" /\ After(W2) = W1
    /\ W3 # <<>> /\ First(W3) = "dividedCn" /\ After(W3) = W2
    /\ W4 # <<>> /\ First(W4) = "proofs" /\ After(W4) = W3
    /\ W5 # <<>> /\ First(W5) = "cycle" /\ After(W5) = W4
  <1>1. After(T1) = <<>> /\ After(W1) = <<>>
    BY DEF First, After, T1, W1
  <1>2. /\ T1 # <<>> /\ First(T1) = "check"
        /\ T2 # <<>> /\ First(T2) = "spend" /\ After(T2) = T1
        /\ T3 # <<>> /\ First(T3) = "check" /\ After(T3) = T2
        /\ T4 # <<>> /\ First(T4) = "approve" /\ After(T4) = T3
    BY DEF First, After, T1, T2, T3, T4
  <1>3. /\ F5 # <<>> /\ First(F5) = "credential" /\ After(F5) = T4
        /\ F6 # <<>> /\ First(F6) = "setting" /\ After(F6) = F5
        /\ B5 # <<>> /\ First(B5) = "setting" /\ After(B5) = T4
        /\ H5 # <<>> /\ First(H5) = "balance" /\ After(H5) = T4
        /\ H6 # <<>> /\ First(H6) = "setting" /\ After(H6) = H5
    BY DEF First, After, T4, F5, F6, B5, H5, H6
  <1>4. /\ R3 # <<>> /\ First(R3) = "rnd" /\ After(R3) = T2
        /\ R4 # <<>> /\ First(R4) = "check" /\ After(R4) = R3
        /\ R5 # <<>> /\ First(R5) = "approve" /\ After(R5) = R4
        /\ R6 # <<>> /\ First(R6) = "balance" /\ After(R6) = R5
        /\ R7 # <<>> /\ First(R7) = "setting" /\ After(R7) = R6
    BY DEF First, After, T2, R3, R4, R5, R6, R7
  <1>5. /\ W1 # <<>> /\ First(W1) = "results"
        /\ W2 # <<>> /\ First(W2) = "status" /\ After(W2) = W1
        /\ W3 # <<>> /\ First(W3) = "dividedCn" /\ After(W3) = W2
        /\ W4 # <<>> /\ First(W4) = "proofs" /\ After(W4) = W3
        /\ W5 # <<>> /\ First(W5) = "cycle" /\ After(W5) = W4
    BY DEF First, After, W1, W2, W3, W4, W5
  <1>. QED  BY <1>1, <1>2, <1>3, <1>4, <1>5

\* A method begins with all of its plan left.
LEMMA PlanIsLeft == ASSUME NEW m \in Calls PROVE Plan[m.kind] \in Left(m.kind)
  <1>1. /\ m.kind = "IsSubmitterWinner" => Plan[m.kind] = W5
        /\ m.kind = "AddFile" => Plan[m.kind] = F6
        /\ m.kind = "BeSubmitter" => Plan[m.kind] = B5
        /\ m.kind = "Pledge" => Plan[m.kind] = T4
        /\ m.kind \in Challenging => Plan[m.kind] = H6
        /\ m.kind = "SubmitAggregationProof" => Plan[m.kind] = R7
        /\ m.kind \notin Paying \cup {"IsSubmitterWinner", "SubmitAggregationProof"} =>
              Plan[m.kind] = T2
    BY CallFields
       DEF Plan, Challenging, Paying, Pledge, GenerateRnd, ResponseChallenge, EndChallenge,
           WithdrawMissedProfit, Withdraw, AlterSetting, AlterFoundation, IsSubmitterWinner,
           AddFile, BeSubmitter, SubmitAggregationProof, ChallengePn, ChallengeCn,
           OwnTransaction, W5, F6, B5, T4, H6, R7, T2
  <1>. QED  BY <1>1 DEF Left, Paying

\* What may be left of any plan.
Rest == {<<>>, T1, T2, T3, T4, F5, F6, B5, H5, H6, R3, R4, R5, R6, R7, W1, W2, W3, W4, W5}

\* Whatever is left of a plan is a sequence of steps.
LEMMA LeftType == \A k : Left(k) \subseteq Seq(Steps) \cap Rest
  <1>1. /\ T1 \in Seq(Steps) /\ T2 \in Seq(Steps) /\ T3 \in Seq(Steps) /\ T4 \in Seq(Steps)
        /\ F5 \in Seq(Steps) /\ F6 \in Seq(Steps) /\ B5 \in Seq(Steps) /\ H5 \in Seq(Steps)
        /\ H6 \in Seq(Steps)
    BY DEF T1, T2, T3, T4, F5, F6, B5, H5, H6, Steps
  <1>2. /\ R3 \in Seq(Steps) /\ R4 \in Seq(Steps) /\ R5 \in Seq(Steps) /\ R6 \in Seq(Steps)
        /\ R7 \in Seq(Steps)
    BY DEF R3, R4, R5, R6, R7, Steps
  <1>3. /\ W1 \in Seq(Steps) /\ W2 \in Seq(Steps) /\ W3 \in Seq(Steps) /\ W4 \in Seq(Steps)
        /\ W5 \in Seq(Steps)
    BY DEF W1, W2, W3, W4, W5, Steps
  <1>4. Rest \subseteq Seq(Steps)
    BY <1>1, <1>2, <1>3 DEF Rest
  <1>5. \A k : Left(k) \subseteq Rest
    BY DEF Left, Rest
  <1>. QED  BY <1>4, <1>5

\* The steps of IsSubmitterWinner are in no other plan.
Asking == {W1, W2, W3, W4, W5}

\* The steps of IsSubmitterWinner are apart from those of the other methods.
LEMMA AskingApart ==
    ASSUME NEW s \in Rest \ {<<>>}
    PROVE  /\ s \in Asking => First(s) \in {"cycle", "proofs", "dividedCn", "status", "results"}
           /\ s \notin Asking =>
                 /\ First(s) \in {"setting", "credential", "balance", "approve", "check", "rnd", "spend"}
                 /\ After(s) \in Rest \ Asking
  <1>. DEFINE Others == {<<>>, T1, T2, T3, T4, F5, F6, B5, H5, H6, R3, R4, R5, R6, R7}
              Firsts == {"setting", "credential", "balance", "approve", "check", "rnd", "spend"}
  <1>1. s \in Asking => First(s) \in {"cycle", "proofs", "dividedCn", "status", "results"}
    BY Rests DEF Asking
  <1>2. \A t \in Others \ {<<>>} : First(t) \in Firsts /\ After(t) \in Others
    BY Rests
  <1>3. \A t \in Asking : t # <<>> /\ First(t) \notin Firsts
    BY Rests DEF Asking
  <1>4. \A t \in Others : t \notin Asking
    BY <1>2, <1>3
  <1>5. Rest = Others \cup Asking
    BY DEF Rest, Asking
  <1>. HIDE DEF Others, Firsts
  <1>6. s \notin Asking => First(s) \in Firsts /\ After(s) \in Rest \ Asking
    BY <1>2, <1>4, <1>5
  <1>. QED  BY <1>1, <1>6 DEF Firsts

\* The rests that begin with a query.
LEMMA RestFrom ==
    ASSUME NEW s \in Rest \ {<<>>}
    PROVE  /\ First(s) = "setting" => s \in {F6, B5, H6, R7}
           /\ First(s) = "credential" => s = F5
           /\ First(s) \in {"cycle", "proofs", "dividedCn", "status"} => s \in {W5, W4, W3, W2}
  BY Rests DEF Rest

\* How a plan goes on from a step of each sort.
LEMMA LeftShape ==
    ASSUME NEW k, NEW s \in Left(k), s # <<>>
    PROVE  /\ First(s) \in Steps /\ After(s) \in Left(k)
           /\ First(s) \in {"setting", "credential", "cycle", "proofs", "dividedCn", "status"} =>
                 After(s) # <<>>
           /\ First(s) = "balance" =>
                 s \in {H5, R6} /\ After(After(After(s))) \in Left(k) \cap {T2, R3}
           /\ First(s) = "spend" => s = T2
           /\ First(s) = "check" => s \in {T1, T3, R4}
           /\ First(s) = "rnd" => s = R3
           /\ First(s) = "approve" => s \in {T4, R5}
  <1>1. s \in Rest \ {<<>>}
    BY LeftType
  <1>. QED  BY <1>1, Rests DEF Left, Rest, Steps, Paying, Challenging
-----------------------------------------------------------------------------
(* The invariants.                                                          *)

\* What is left of a call is a rest of its plan, and a receipt is there only for a
\* CheckTx.
PlanOK ==
    \A c \in Clients :
        /\ todo[c] \in Left(call[c].kind)
        /\ Running(c) => answer[c] = "none"
        /\ receipt[c] # "none" => todo[c] \in {T1, T3, R4}

StateOK == ContractOK /\ TypeOK /\ PlanOK

\* A transaction that somebody waits for is the one of the step before: the Approve,
\* or the call's own.
Awaits(rest, m, k, e) ==
    \/ rest = T1 /\ e.req = m
    \/ /\ rest \in {T3, R4}
       /\ e.req = [kind |-> "Approve", spender |-> Spender(m), amount |-> k]

\* The client that waits for entry i of account a has no receipt yet, and waits for no
\* other entry.
Waits(a, i) ==
    LET d == queue[a][i].by IN
    /\ d \in Clients /\ a = AccountOf[d] /\ receipt[d] = "none"
    /\ Awaits(todo[d], call[d], known[d], queue[a][i])
    /\ \A j \in DOMAIN queue[a] : queue[a][j].by = d => j = i

QueueOK ==
    \A a \in Accounts : \A i \in DOMAIN queue[a] : queue[a][i].by # Nobody => Waits(a, i)

\* A call's own transaction has been accepted exactly if its receipt says so.
Truthful(c) ==
    /\ Running(c) => (done[c] <=> todo[c] = T1 /\ receipt[c] = "ok")
    /\ answer[c] = "ok" => done[c]
    /\ answer[c] \in {"gasLimit", "failed", "panicked"} => ~ done[c]

AnswersOK == \A c \in Clients : Truthful(c)

\* A proof that is about to be sent was compared with the cycle after the call began.
Fresh(c) ==
    /\ began[c] <= cycle
    /\ call[c].kind = "SubmitAggregationProof" /\ todo[c] \in {T1, T2} =>
          call[c].point >= began[c]

FreshOK == \A c \in Clients : Fresh(c)

\* The cycle that IsSubmitterWinner asks about was read after the call began.
Asked(c) == todo[c] \in {W1, W2, W3, W4} => known[c] >= began[c]

WinnerOK == WinnerIsOfItsCycle /\ \A c \in Clients : Asked(c)

\* The allowance that the call asks for has been approved.
Approved(c) == Approves(c) /\ (todo[c] \in {R3, T2, T1} \/ receipt[c] = "ok")

Unspent(c) ==
    /\ bal[AccountOf[c]] = before[c].bal
    /\ allowance[AccountOf[c]] =
          IF Approved(c) THEN [before[c].allowance EXCEPT ![Spender(call[c])] = Cost(c)]
          ELSE before[c].allowance

Paid(c) ==
    LET a == AccountOf[c]  s == Spender(call[c]) IN
    /\ allowance[a] = [before[c].allowance EXCEPT ![s] = IF Approves(c) THEN 0 ELSE @]
    /\ bal[a] = CASE call[c].kind = "Withdraw" -> 0
                  [] call[c].kind = "AddFile" -> before[c].bal
                  [] OTHER -> before[c].bal + Cost(c)

\* Nobody interfered with the call of c, and its amounts are in the range.
Quiet(c) == before[c] # Disturbed /\ Fits(c)

\* The accounts of a call: what it will approve, and what it has moved so far.
Ledger(c) ==
    /\ receipt[c] # "unpaid"
    /\ todo[c] \in {T4, T3, R5, R4, F5} => known[c] = Cost(c) /\ Approves(c)
    /\ todo[c] = H5 => known[c] = setting.chalPledge
    /\ todo[c] = R6 => known[c] = setting.subPledge
    /\ Running(c) /\ ~ done[c] => Unspent(c)
    /\ (Running(c) /\ done[c]) \/ answer[c] = "ok" => Paid(c)

MoneyOK == \A c \in Clients : Quiet(c) => Ledger(c)

-----------------------------------------------------------------------------
(* What a step of a client does.                                            *)

\* A client is at a step when that step is the first left to it.
LEMMA AtFirst == \A c, step : At(c, step) <=> Running(c) /\ First(todo[c]) = step
  BY DEF At, First

\* What a query makes of a call: it returns, or goes on with what it has read.
Queried(c) ==
    \/ Return(c, "error")
    \/ /\ First(todo[c]) = "results"
       /\ \E r \in results : /\ r.who = AccountOf[c] /\ r.cycle = known[c]
                             /\ Return(c, IF r.won THEN "won" ELSE "lost")
    \/ /\ First(todo[c]) = "setting"
       /\ Proceed(c, After(todo[c]), CASE call[c].kind = "AddFile" -> FileAmount(call[c])
                                       [] call[c].kind \in Challenging -> setting.chalPledge
                                       [] OTHER -> setting.subPledge)
    \/ /\ First(todo[c]) = "balance" /\ Shortfall(known[c], bal[AccountOf[c]]) > 0
       /\ Proceed(c, After(todo[c]), Shortfall(known[c], bal[AccountOf[c]]))
    \/ /\ First(todo[c]) = "balance" /\ ~ (Shortfall(known[c], bal[AccountOf[c]]) > 0)
       /\ Proceed(c, After(After(After(todo[c]))), 0)
    \/ /\ First(todo[c]) = "rnd" /\ call[c].point = cycle
       /\ Proceed(c, After(todo[c]), known[c])
    \/ /\ First(todo[c]) = "cycle"
       /\ Proceed(c, After(todo[c]), cycle)
    \/ /\ First(todo[c]) \in {"credential", "proofs", "dividedCn", "status"}
       /\ Proceed(c, After(todo[c]), known[c])

\* A query is one of the disjuncts of Queried and changes nothing but its client.
LEMMA AskCases ==
    ASSUME NEW c \in Clients, Ask(c)
    PROVE  Running(c) /\ First(todo[c]) \in Querying /\ Local /\ Queried(c)
  <1>1. Running(c) /\ Local /\ First(todo[c]) \in Querying
    BY AtFirst DEF Ask, QueryFails, ReadSetting, CheckCredential, ReadBalance, CompareRnd,
                   ReadCycle, ReadProofs, ReadDividedCn, ReadStatus, ReadResults,
                   Querying, Steps, Sending, First
  <1>2. Queried(c)
    <2>1. CASE QueryFails(c)
      BY <2>1 DEF QueryFails, Queried
    <2>2. CASE ReadSetting(c)
      BY <2>2, AtFirst DEF ReadSetting, Queried, After
    <2>3. CASE CheckCredential(c)
      BY <2>3, AtFirst DEF CheckCredential, Queried, After, Advance
    <2>4. CASE ReadBalance(c)
      BY <2>4, AtFirst DEF ReadBalance, Queried, After
    <2>5. CASE CompareRnd(c)
      BY <2>5, AtFirst DEF CompareRnd, Queried, After, Advance
    <2>6. CASE ReadCycle(c)
      BY <2>6, AtFirst DEF ReadCycle, Queried, After
    <2>7. CASE ReadProofs(c)
      BY <2>7, AtFirst DEF ReadProofs, Queried, After, Advance
    <2>8. CASE ReadDividedCn(c)
      BY <2>8, AtFirst DEF ReadDividedCn, Queried, After, Advance
    <2>9. CASE ReadStatus(c)
      BY <2>9, AtFirst DEF ReadStatus, Queried, After, Advance
    <2>10. CASE ReadResults(c)
      <3>. DEFINE found == {r \in results : r.who = AccountOf[c] /\ r.cycle = known[c]}
      <3>1. CASE found = {}
        BY <2>10, <3>1 DEF ReadResults, Queried
      <3>2. CASE found # {}
        BY <2>10, <3>2, AtFirst DEF ReadResults, Queried
      <3>. QED  BY <3>1, <3>2
    <2>. QED
      BY <2>1, <2>2, <2>3, <2>4, <2>5, <2>6, <2>7, <2>8, <2>9, <2>10 DEF Ask
  <1>. QED  BY <1>1, <1>2

\* What sending makes of a call.
LEMMA SendCases ==
    ASSUME NEW c \in Clients, Send(c) \/ SendAnswerLost(c) \/ SendFails(c)
    PROVE  /\ Running(c) /\ First(todo[c]) \in Sending
           /\ UNCHANGED <<contractVars, calls, history, call, polls, receipt>>
           /\ \/ Enqueue(c, c) /\ Proceed(c, After(todo[c]), known[c])
              \/ Enqueue(c, Nobody) /\ Return(c, "error")
              \/ UNCHANGED queue /\ Return(c, "error")
  BY DEF Send, SendAnswerLost, SendFails, Advance, First, After

\* What a poll of CheckTx makes of a call.
LEMMA CheckCases ==
    ASSUME NEW c \in Clients, CheckTx(c)
    PROVE  /\ Running(c) /\ First(todo[c]) = "check"
           /\ UNCHANGED <<contractVars, calls, history, call>>
           /\ \/ /\ receipt[c] = "ok" /\ After(todo[c]) = <<>> /\ Return(c, "ok")
                 /\ Checked(c) /\ UNCHANGED queue
              \/ /\ receipt[c] = "ok" /\ After(todo[c]) # <<>>
                 /\ Proceed(c, After(todo[c]), known[c])
                 /\ Checked(c) /\ UNCHANGED queue
              \/ /\ receipt[c] \in {"unpaid", "refused"}
                 /\ \E a \in {"gasLimit", "failed", "panicked"} : Return(c, a)
                 /\ Checked(c) /\ UNCHANGED queue
              \/ /\ polls[c] + 1 < MaxPolls /\ polls' = [polls EXCEPT ![c] = @ + 1]
                 /\ UNCHANGED <<todo, known, receipt, answer, queue>>
              \/ Return(c, "notPackaged") /\ Checked(c) /\ Abandon(c)
  <1>1. Running(c) /\ First(todo[c]) = "check"
    BY AtFirst DEF CheckTx, ReceiptSeen, ReceiptMissing, GiveUp
  <1>2. CASE ReceiptSeen(c)
    BY <1>1, <1>2 DEF ReceiptSeen, Advance, After, Checked
  <1>3. CASE ReceiptMissing(c)
    BY <1>1, <1>3 DEF ReceiptMissing
  <1>4. CASE GiveUp(c)
    BY <1>1, <1>4 DEF GiveUp, Checked
  <1>. QED  BY <1>2, <1>3, <1>4 DEF CheckTx

-----------------------------------------------------------------------------
(* Types.                                                                   *)

\* What AddFile approves is an amount; without overflow it is the product.
LEMMA FileAmountType ==
    ASSUME setting \in Setting, NEW m \in Calls, m.kind = "AddFile"
    PROVE  /\ FileAmount(m) \in Nat
           /\ /\ setting.price < Half /\ m.size < Half /\ m.span >= 0
              /\ setting.price * m.size * m.span < Word
              => FileAmount(m) = setting.price * m.size * Span(m)
  <1>1. /\ setting.price \in Nat /\ m.size \in Nat /\ m.span \in Int
        /\ Half \in Nat /\ Word \in Nat \ {0}
    BY CallFields, WidthAssumption DEF Setting
  <1>2. ToInt64(setting.price) \in Int /\ ToInt64(m.size) \in Int
    BY <1>1 DEF ToInt64
  <1>3. \A i, j, k \in Int : i * j * k \in Int
    OBVIOUS
  <1>4. ToInt64(setting.price) * ToInt64(m.size) * m.span \in Int
    BY <1>1, <1>2, <1>3
  <1>5. \A i \in Int : i % Word \in Nat /\ (0 <= i /\ i < Word => i % Word = i)
    BY <1>1
  <1>6. \A i, j, k \in Nat : i * j * k \in Nat
    OBVIOUS
  <1>7. m.span >= 0 => Span(m) = m.span /\ setting.price * m.size * m.span \in Nat
    BY <1>1, <1>6 DEF Span, Shortfall
  <1>. QED  BY <1>1, <1>4, <1>5, <1>7 DEF FileAmount, Packed, ToInt64

\* A query leaves a rest of the plan.
LEMMA QueriedEffect ==
    ASSUME StateOK, NEW c \in Clients, Ask(c)
    PROVE  \E rest \in Left(call[c].kind), k \in Nat, a \in Answers :
              /\ todo' = [todo EXCEPT ![c] = rest] /\ known' = [known EXCEPT ![c] = k]
              /\ answer' = [answer EXCEPT ![c] = a]
              /\ rest # <<>> => a = answer[c]
              /\ rest = <<>> => a \in {"error", "won", "lost"}
  <1>0. /\ call[c] \in Calls /\ known[c] \in Nat /\ cycle \in Nat /\ bal[AccountOf[c]] \in Nat
        /\ todo[c] \in Left(call[c].kind) /\ todo[c] # <<>> /\ setting \in Setting
        /\ answer[c] \in Answers /\ <<>> \in Left(call[c].kind)
        /\ answer = [answer EXCEPT ![c] = answer[c]]
    BY AskCases, AccountOfAssumption, SettingsAssumption
       DEF StateOK, TypeOK, PlanOK, ContractOK, ContractTypeOK, Running, Left
  <1>1. ASSUME NEW a \in {"error", "won", "lost"}, Return(c, a)
        PROVE  \E rest \in Left(call[c].kind), k \in Nat, b \in Answers :
                  /\ todo' = [todo EXCEPT ![c] = rest] /\ known' = [known EXCEPT ![c] = k]
                  /\ answer' = [answer EXCEPT ![c] = b]
                  /\ rest # <<>> => b = answer[c]
                  /\ rest = <<>> => b \in {"error", "won", "lost"}
    BY <1>0, <1>1 DEF Return, Answers
  <1>2. ASSUME NEW rest \in Left(call[c].kind), rest # <<>>, NEW k \in Nat, Proceed(c, rest, k)
        PROVE  \E r \in Left(call[c].kind), l \in Nat, b \in Answers :
                  /\ todo' = [todo EXCEPT ![c] = r] /\ known' = [known EXCEPT ![c] = l]
                  /\ answer' = [answer EXCEPT ![c] = b]
                  /\ r # <<>> => b = answer[c]
                  /\ r = <<>> => b \in {"error", "won", "lost"}
    BY <1>0, <1>2 DEF Proceed
  <1>3. /\ setting.subPledge \in Nat /\ setting.chalPledge \in Nat
        /\ call[c].kind = "AddFile" => FileAmount(call[c]) \in Nat
    BY <1>0, FileAmountType DEF Setting
  <1>4. Shortfall(known[c], bal[AccountOf[c]]) \in Nat
    BY <1>0 DEF Shortfall
  <1>5. /\ After(todo[c]) \in Left(call[c].kind)
        /\ First(todo[c]) \in {"setting", "credential", "cycle", "proofs", "dividedCn", "status"} =>
              After(todo[c]) # <<>>
        /\ First(todo[c]) = "balance" =>
              /\ After(todo[c]) # <<>> /\ After(After(After(todo[c]))) \in Left(call[c].kind)
              /\ After(After(After(todo[c]))) # <<>>
        /\ First(todo[c]) = "rnd" => After(todo[c]) # <<>>
    BY <1>0, LeftShape, Rests
  <1>6. CASE Return(c, "error")
    BY <1>1, <1>6
  <1>7. CASE /\ First(todo[c]) = "results"
             /\ \E r \in results : Return(c, IF r.won THEN "won" ELSE "lost")
    BY <1>1, <1>7
  <1>8. CASE /\ First(todo[c]) = "setting"
             /\ Proceed(c, After(todo[c]), CASE call[c].kind = "AddFile" -> FileAmount(call[c])
                                             [] call[c].kind \in Challenging -> setting.chalPledge
                                             [] OTHER -> setting.subPledge)
    <2>1. (CASE call[c].kind = "AddFile" -> FileAmount(call[c])
             [] call[c].kind \in Challenging -> setting.chalPledge
             [] OTHER -> setting.subPledge) \in Nat
      BY <1>3
    <2>. QED  BY <1>2, <1>5, <1>8, <2>1
  <1>9. CASE First(todo[c]) = "balance" /\ Proceed(c, After(todo[c]), Shortfall(known[c], bal[AccountOf[c]]))
    BY <1>2, <1>4, <1>5, <1>9
  <1>10. CASE First(todo[c]) = "balance" /\ Proceed(c, After(After(After(todo[c]))), 0)
    BY <1>2, <1>5, <1>10
  <1>11. CASE /\ First(todo[c]) \in {"rnd", "credential", "proofs", "dividedCn", "status"}
              /\ Proceed(c, After(todo[c]), known[c])
    BY <1>0, <1>2, <1>5, <1>11
  <1>12. CASE First(todo[c]) = "cycle" /\ Proceed(c, After(todo[c]), cycle)
    BY <1>0, <1>2, <1>5, <1>12
  <1>. QED
    BY <1>6, <1>7, <1>8, <1>9, <1>10, <1>11, <1>12, AskCases DEF Queried

\* A transaction enters the queue.
LEMMA EnqueueEffect ==
    ASSUME StateOK, NEW c \in Clients, NEW by \in Clients \cup {Nobody}, Enqueue(c, by)
    PROVE  LET e == [by |-> by, req |-> Request(c), at |-> began[c]] IN
           /\ e \in Entry
           /\ queue' = [queue EXCEPT ![AccountOf[c]] = Append(queue[AccountOf[c]], e)]
           /\ queue' \in [Accounts -> Seq(Entry)]
  <1>. DEFINE e == [by |-> by, req |-> Request(c), at |-> began[c]]
  <1>1. Request(c) \in Calls \cup [kind : {"Approve"}, spender : Spenders, amount : Nat]
    BY DEF Request, StateOK, TypeOK, Spender, Spenders
  <1>2. began[c] \in Nat
    BY DEF StateOK, TypeOK
  <1>3. e \in Entry
    BY <1>1, <1>2 DEF Entry
  <1>4. queue' = [queue EXCEPT ![AccountOf[c]] = Append(queue[AccountOf[c]], e)]
    BY DEF Enqueue
  <1>. HIDE DEF e
  <1>5. AccountOf[c] \in Accounts /\ queue \in [Accounts -> Seq(Entry)]
    BY AccountOfAssumption DEF StateOK, TypeOK
  <1>6. Append(queue[AccountOf[c]], e) \in Seq(Entry)
    BY <1>3, <1>5
  <1>7. queue' \in [Accounts -> Seq(Entry)]
    BY <1>4, <1>5, <1>6
  <1>. QED  BY <1>3, <1>4, <1>7 DEF e

\* Nobody waits for a transaction any more.
LEMMA AbandonEffect ==
    ASSUME StateOK, NEW c \in Clients, Abandon(c)
    PROVE  LET q == queue[AccountOf[c]] IN
           /\ queue' \in [Accounts -> Seq(Entry)]
           /\ \A a \in Accounts : /\ DOMAIN queue'[a] = DOMAIN queue[a]
                                  /\ \A i \in DOMAIN queue[a] :
                                        /\ queue'[a][i].req = queue[a][i].req
                                        /\ queue'[a][i].at = queue[a][i].at
                                        /\ queue'[a][i].by \in {queue[a][i].by, Nobody}
                                        /\ a = AccountOf[c] => queue'[a][i].by # c
  <1>. DEFINE q == queue[AccountOf[c]]
              r == [i \in DOMAIN q |-> IF q[i].by = c THEN [q[i] EXCEPT !.by = Nobody] ELSE q[i]]
  <1>1. AccountOf[c] \in Accounts /\ queue \in [Accounts -> Seq(Entry)] /\ q \in Seq(Entry)
    BY AccountOfAssumption DEF StateOK, TypeOK
  <1>2. \A i \in DOMAIN q : q[i] \in Entry
    BY <1>1
  <1>3. \A i \in DOMAIN q : /\ r[i] \in Entry /\ r[i].req = q[i].req /\ r[i].at = q[i].at
                            /\ r[i].by \in {q[i].by, Nobody} /\ r[i].by # c
    BY <1>2, NobodyAssumption DEF Entry
  <1>4. DOMAIN q = 1 .. Len(q) /\ Len(q) \in Nat /\ DOMAIN r = DOMAIN q
    BY <1>1
  <1>5. r \in [1 .. Len(q) -> Entry]
    BY <1>3, <1>4
  <1>6. r \in Seq(Entry)
    BY <1>4, <1>5, SeqDef
  <1>7. queue' = [queue EXCEPT ![AccountOf[c]] = r]
    BY DEF Abandon
  <1>. HIDE DEF r
  <1>8. queue' \in [Accounts -> Seq(Entry)]
    BY <1>1, <1>6, <1>7
  <1>9. ASSUME NEW a \in Accounts
        PROVE  /\ DOMAIN queue'[a] = DOMAIN queue[a]
               /\ \A i \in DOMAIN queue[a] :
                     /\ queue'[a][i].req = queue[a][i].req /\ queue'[a][i].at = queue[a][i].at
                     /\ queue'[a][i].by \in {queue[a][i].by, Nobody}
                     /\ a = AccountOf[c] => queue'[a][i].by # c
    BY <1>1, <1>3, <1>4, <1>7
  <1>. QED  BY <1>8, <1>9

\* The oldest transaction of an account is settled.
LEMMA SettleEffect ==
    ASSUME StateOK, QueueOK, NEW a \in Accounts, NEW status \in Receipts \ {"none"},
           queue[a] # <<>>, Settle(a, status)
    PROVE  LET e == Head(queue[a]) IN
           /\ e \in Entry
           /\ queue' \in [Accounts -> Seq(Entry)]
           /\ \A b \in Accounts : b # a => queue'[b] = queue[b]
           /\ \A i \in DOMAIN queue'[a] :
                 /\ i + 1 \in DOMAIN queue[a] /\ queue'[a][i] = queue[a][i + 1]
           /\ \A i \in DOMAIN queue'[a] : queue'[a][i].by # Nobody => queue'[a][i].by # e.by
           /\ e.by # Nobody => /\ e.by \in Clients /\ AccountOf[e.by] = a
                               /\ receipt[e.by] = "none" /\ Awaits(todo[e.by], call[e.by], known[e.by], e)
           /\ receipt' \in [Clients -> Receipts]
           /\ \A c \in Clients : receipt'[c] = IF c = e.by THEN status ELSE receipt[c]
           /\ done' \in [Clients -> BOOLEAN]
           /\ \A c \in Clients :
                 done'[c] <=> done[c] \/ (c = e.by /\ status = "ok" /\ e.req.kind # "Approve")
           /\ before' \in [Clients -> View \cup {Disturbed}]
           /\ UNCHANGED <<call, todo, known, polls, answer, calls, began>>
  <1>. DEFINE e == Head(queue[a])
              q == queue[a]
  <1>1. /\ queue \in [Accounts -> Seq(Entry)] /\ receipt \in [Clients -> Receipts]
        /\ done \in [Clients -> BOOLEAN] /\ before \in [Clients -> View \cup {Disturbed}]
    BY DEF StateOK, TypeOK
  <1>2. q \in Seq(Entry) /\ q # <<>>
    BY <1>1
  <1>3. /\ e \in Entry /\ Tail(q) \in Seq(Entry) /\ e = q[1] /\ 1 \in DOMAIN q
        /\ \A i \in DOMAIN Tail(q) : i + 1 \in DOMAIN q /\ Tail(q)[i] = q[i + 1] /\ i + 1 # 1
    <2>. HIDE DEF q
    <2>1. Len(q) \in Nat \ {0} /\ DOMAIN q = 1 .. Len(q)
      BY <1>2
    <2>2. Head(q) = q[1] /\ Head(q) \in Entry
      BY <1>2, <2>1
    <2>3. /\ Tail(q) \in Seq(Entry) /\ Len(Tail(q)) = Len(q) - 1
          /\ \A i \in 1 .. Len(Tail(q)) : Tail(q)[i] = q[i + 1]
      BY <1>2, HeadTailProperties
    <2>4. DOMAIN Tail(q) = 1 .. Len(Tail(q))
      BY <2>3
    <2>5. e = Head(q)
      BY DEF q
    <2>. QED  BY <2>1, <2>2, <2>3, <2>4, <2>5
  <1>4. /\ queue' = [queue EXCEPT ![a] = Tail(q)]
        /\ receipt' = [c \in Clients |-> IF c = e.by THEN status ELSE receipt[c]]
        /\ done' = [c \in Clients |-> done[c] \/ (c = e.by /\ status = "ok" /\ e.req.kind # "Approve")]
        /\ UNCHANGED <<call, todo, known, polls, answer, calls, began>>
        /\ before' = [d \in Clients |->
              IF d # e.by /\ <<setting, Now(d)>>' # <<setting, Now(d)>> THEN Disturbed ELSE before[d]]
    BY DEF Settle, Watch
  <1>5. e.by # Nobody => /\ e.by \in Clients /\ AccountOf[e.by] = a
                         /\ receipt[e.by] = "none" /\ Awaits(todo[e.by], call[e.by], known[e.by], e)
                         /\ \A j \in DOMAIN q : q[j].by = e.by => j = 1
    BY <1>3 DEF QueueOK, Waits, Entry
  <1>. HIDE DEF e, q
  <1>6. /\ queue' \in [Accounts -> Seq(Entry)] /\ queue'[a] = Tail(q)
        /\ \A b \in Accounts : b # a => queue'[b] = queue[b]
    BY <1>1, <1>3, <1>4
  <1>7. receipt' \in [Clients -> Receipts] /\ done' \in [Clients -> BOOLEAN]
    BY <1>1, <1>4
  <1>8. before' \in [Clients -> View \cup {Disturbed}]
    BY <1>1, <1>4
  <1>9. /\ \A c \in Clients : receipt'[c] = IF c = e.by THEN status ELSE receipt[c]
        /\ \A c \in Clients :
              done'[c] <=> done[c] \/ (c = e.by /\ status = "ok" /\ e.req.kind # "Approve")
    BY <1>1, <1>4
  <1>10. \A i \in DOMAIN queue'[a] :
            /\ i + 1 \in DOMAIN queue[a] /\ queue'[a][i] = queue[a][i + 1]
            /\ queue'[a][i].by # Nobody => queue'[a][i].by # e.by
    <2>1. \A i \in DOMAIN Tail(q) : i + 1 \in DOMAIN queue[a] /\ Tail(q)[i] = queue[a][i + 1]
                                    /\ i + 1 # 1
      BY <1>3 DEF q
    <2>2. \A j \in DOMAIN queue[a] : e.by # Nobody /\ queue[a][j].by = e.by => j = 1
      BY <1>5 DEF q
    <2>. QED  BY <1>6, <2>1, <2>2
  <1>. QED  BY <1>3, <1>4, <1>5, <1>6, <1>7, <1>8, <1>9, <1>10 DEF e

\* An entry's request is a call unless it is an Approve.
LEMMA EntryIsCall ==
    ASSUME NEW e \in Entry
    PROVE  /\ e.req.kind = "Approve" => e.req.spender \in Spenders /\ e.req.amount \in Nat
           /\ e.req.kind # "Approve" => e.req \in Calls
  <1>1. e.req \in Calls \/ e.req \in [kind : {"Approve"}, spender : Spenders, amount : Nat]
    BY DEF Entry
  <1>2. \A m \in Calls : m.kind # "Approve"
    BY CallFields
  <1>. QED  BY <1>1, <1>2

\* What a transaction that is mined does to the contracts.
LEMMA MineCases ==
    ASSUME StateOK, NEW a \in Accounts,
           MineApprove(a) \/ MineAccepted(a) \/ MineUnpaid(a) \/ MineRefused(a)
    PROVE  LET e == Head(queue[a]) IN
           /\ queue[a] # <<>>
           /\ ContractOK' /\ cycle <= cycle' /\ results \subseteq results'
           /\ \/ /\ e.req.kind = "Approve" /\ SetAllowance(a, e.req.spender, e.req.amount)
                 /\ Settle(a, "ok")
              \/ /\ e.req.kind # "Approve" /\ Payable(a, e.req) /\ Admissible(a, e.req)
                 /\ Execute(a, e.req) /\ Settle(a, "ok")
              \/ /\ e.req.kind # "Approve" /\ ~ Payable(a, e.req)
                 /\ UNCHANGED contractVars /\ Settle(a, "unpaid")
              \/ UNCHANGED contractVars /\ Settle(a, "refused")
  <1>. DEFINE e == Head(queue[a])
  <1>1. queue[a] # <<>>
    BY DEF MineApprove, MineAccepted, MineUnpaid, MineRefused
  <1>2. e \in Entry
    BY <1>1 DEF StateOK, TypeOK
  <1>. HIDE DEF e
  <1>3. ContractOK /\ cycle \in Nat
    BY DEF StateOK, ContractOK, ContractTypeOK
  <1>4. ASSUME UNCHANGED contractVars
        PROVE  ContractOK' /\ cycle <= cycle' /\ results \subseteq results'
    BY <1>3, <1>4 DEF ContractOK, ContractTypeOK, contractVars
  <1>5. CASE MineApprove(a)
    <2>1. e.req.kind = "Approve" /\ SetAllowance(a, e.req.spender, e.req.amount) /\ Settle(a, "ok")
      BY <1>5 DEF MineApprove, e
    <2>2. e.req.spender \in Spenders /\ e.req.amount \in Nat
      BY <1>2, <2>1, EntryIsCall
    <2>3. allowance' \in [Accounts -> [Spenders -> Nat]]
      BY <1>3, <2>1, <2>2 DEF SetAllowance, ContractOK, ContractTypeOK
    <2>4. ContractOK' /\ cycle <= cycle' /\ results \subseteq results'
      BY <1>3, <2>1, <2>3 DEF SetAllowance, ContractOK, ContractTypeOK
    <2>. QED  BY <1>1, <2>1, <2>4 DEF e
  <1>6. CASE MineAccepted(a)
    <2>1. e.req.kind # "Approve" /\ Payable(a, e.req) /\ Admissible(a, e.req)
          /\ Execute(a, e.req) /\ Settle(a, "ok")
      BY <1>6 DEF MineAccepted, e
    <2>2. e.req \in Calls
      BY <1>2, <2>1, EntryIsCall
    <2>3. ContractOK' /\ cycle <= cycle' /\ results \subseteq results'
      BY <1>3, <2>1, <2>2, ExecuteEffect
    <2>. QED  BY <1>1, <2>1, <2>3 DEF e
  <1>7. CASE MineUnpaid(a)
    BY <1>1, <1>4, <1>7 DEF MineUnpaid
  <1>8. CASE MineRefused(a)
    BY <1>1, <1>4, <1>8 DEF MineRefused
  <1>. QED  BY <1>5, <1>6, <1>7, <1>8

\* What accounts without a client do, and the penalties.
LEMMA AsideEffect ==
    ASSUME StateOK,
           (\E d \in Deeds : Elsewhere(d[1], d[2])) \/ (\E c \in Clients : Penalized(AccountOf[c]))
    PROVE  /\ ContractOK' /\ cycle <= cycle' /\ results \subseteq results'
           /\ UNCHANGED <<clientVars, queue, calls, began, done>>
           /\ Watch(Nobody)
           /\ before' \in [Clients -> View \cup {Disturbed}]
  <1>0. ContractOK /\ cycle \in Nat /\ before \in [Clients -> View \cup {Disturbed}]
    BY DEF StateOK, TypeOK, ContractOK, ContractTypeOK
  <1>1. ASSUME NEW d \in Deeds, Elsewhere(d[1], d[2])
        PROVE  /\ ContractOK' /\ cycle <= cycle' /\ results \subseteq results'
               /\ UNCHANGED <<clientVars, queue, calls, began, done>>
               /\ Watch(Nobody)
    <2>1. d[1] \in Accounts /\ d[2] \in Calls
      BY CallsAssumption
    <2>2. Admissible(d[1], d[2]) /\ Perform(d[1], d[2]) /\ UNCHANGED <<allowance, bal>>
      BY <1>1 DEF Elsewhere
    <2>3. ContractOK' /\ cycle <= cycle' /\ results \subseteq results'
      BY <1>0, <2>1, <2>2, PerformEffect DEF ContractOK, ContractTypeOK
    <2>. QED  BY <1>1, <2>3 DEF Elsewhere
  <1>2. ASSUME NEW c \in Clients, Penalized(AccountOf[c])
        PROVE  /\ ContractOK' /\ cycle <= cycle' /\ results \subseteq results'
               /\ UNCHANGED <<clientVars, queue, calls, began, done>>
               /\ Watch(Nobody)
    <2>1. AccountOf[c] \in Accounts
      BY AccountOfAssumption
    <2>2. bal' \in [Accounts -> Nat]
      BY <1>0, <1>2, <2>1 DEF Penalized, Penalize, ContractOK, ContractTypeOK
    <2>3. ContractOK' /\ cycle <= cycle' /\ results \subseteq results'
      BY <1>0, <1>2, <2>2 DEF Penalized, Penalize, ContractOK, ContractTypeOK
    <2>. QED  BY <1>2, <2>3 DEF Penalized
  <1>3. Watch(Nobody) => before' \in [Clients -> View \cup {Disturbed}]
    BY <1>0 DEF Watch
  <1>. QED  BY <1>1, <1>2, <1>3

\* The steps, by what they do.
LEMMA NextCases ==
    ASSUME [Next]_vars
    PROVE  \/ \E c \in Clients : \E m \in CallsOf[c] : Begin(c, m)
           \/ \E c \in Clients : Ask(c)
           \/ \E c \in Clients : Send(c) \/ SendAnswerLost(c) \/ SendFails(c)
           \/ \E c \in Clients : CheckTx(c)
           \/ \E a \in Accounts :
                 MineApprove(a) \/ MineAccepted(a) \/ MineUnpaid(a) \/ MineRefused(a)
           \/ (\E d \in Deeds : Elsewhere(d[1], d[2])) \/ (\E c \in Clients : Penalized(AccountOf[c]))
           \/ UNCHANGED vars
  BY DEF Next, ClientStep, Chain

\* The first state.
LEMMA InitState == Init => StateOK /\ QueueOK /\ AnswersOK
  <1>. SUFFICES ASSUME Init PROVE StateOK /\ QueueOK /\ AnswersOK
    OBVIOUS
  <1>1. ContractOK
    <2>1. ContractInit
      BY DEF Init
    <2>2. /\ setting \in Settings /\ authNonce \in Nat /\ submitters \subseteq Accounts
          /\ cycle \in 1 .. MaxCycle /\ results \subseteq Verdict
      BY <2>1, SubmittersAssumption, SettingsAssumption, CyclesAssumption DEF ContractInit
    <2>3. /\ proofs \subseteq Proof /\ \A p \in proofs : p.cycle <= cycle
      BY <2>1, FirstProofsAssumption DEF ContractInit
    <2>4. allowance \in [Accounts -> [Spenders -> Nat]] /\ bal \in [Accounts -> Nat]
      BY <2>1, BoundsAssumption DEF ContractInit
    <2>5. /\ challenge \in [Accounts -> ChallengeStatus]
          /\ \A s \in Accounts : challenge[s] = "none"
      BY <2>1 DEF ContractInit, ChallengeStatus
    <2>. QED  BY <2>2, <2>3, <2>4, <2>5 DEF ContractOK, ContractTypeOK
  <1>2. [kind |-> "IsSubmitterWinner"] \in Calls
    BY DEF Calls
  <1>3. TypeOK
    <2>1. queue \in [Accounts -> Seq(Entry)] /\ todo \in [Clients -> Seq(Steps)]
      BY DEF Init
    <2>2. /\ polls \in [Clients -> 0 .. MaxPolls - 1] /\ calls \in 0 .. MaxCalls
          /\ began \in [Clients -> 1 .. MaxCycle] /\ known \in [Clients -> Nat]
      BY PollsAssumption, WidthAssumption, CyclesAssumption DEF Init
    <2>3. /\ before \in [Clients -> View \cup {Disturbed}] /\ call \in [Clients -> Calls]
          /\ done \in [Clients -> BOOLEAN]
      BY <1>2 DEF Init
    <2>4. receipt \in [Clients -> Receipts] /\ answer \in [Clients -> Answers]
      BY DEF Init, Receipts, Answers
    <2>. QED  BY <1>1, <2>1, <2>2, <2>3, <2>4 DEF TypeOK, ContractOK
  <1>4. PlanOK
    BY DEF Init, PlanOK, Left
  <1>5. QueueOK
    BY DEF Init, QueueOK
  <1>6. AnswersOK
    BY DEF Init, AnswersOK, Truthful, Running
  <1>. QED  BY <1>1, <1>3, <1>4, <1>5, <1>6 DEF StateOK

\* Every step keeps the types.
LEMMA StateStep ==
    ASSUME StateOK, QueueOK, [Next]_vars
    PROVE  StateOK'
  <1>0. /\ call \in [Clients -> Calls] /\ todo \in [Clients -> Seq(Steps)]
        /\ known \in [Clients -> Nat] /\ polls \in [Clients -> 0 .. MaxPolls - 1]
        /\ receipt \in [Clients -> Receipts] /\ answer \in [Clients -> Answers]
        /\ queue \in [Accounts -> Seq(Entry)] /\ calls \in 0 .. MaxCalls
        /\ before \in [Clients -> View \cup {Disturbed}] /\ began \in [Clients -> 1 .. MaxCycle]
        /\ done \in [Clients -> BOOLEAN]
        /\ ContractOK /\ ContractTypeOK
        /\ \A c \in Clients : /\ todo[c] \in Left(call[c].kind)
                              /\ todo[c] # <<>> => answer[c] = "none"
                              /\ receipt[c] # "none" => todo[c] \in {T1, T3, R4}
        /\ \A k : Left(k) \subseteq Seq(Steps) /\ <<>> \in Left(k)
    BY LeftType DEF StateOK, TypeOK, PlanOK, Running, ContractOK, Left
  <1>1. ASSUME UNCHANGED contractVars
        PROVE  ContractOK' /\ ContractTypeOK'
    BY <1>0, <1>1 DEF ContractOK, ContractTypeOK, contractVars
  <1>2. ASSUME NEW c \in Clients, NEW m \in CallsOf[c], Begin(c, m)
        PROVE  StateOK'
    <2>1. m \in Calls
      BY CallsAssumption
    <2>2. /\ calls' = calls + 1 /\ calls < MaxCalls
          /\ call' = [call EXCEPT ![c] = m] /\ todo' = [todo EXCEPT ![c] = Plan[m.kind]]
          /\ known' = [known EXCEPT ![c] = IF m.kind = "Pledge" THEN m.amount ELSE 0]
          /\ answer' = [answer EXCEPT ![c] = "none"] /\ before' = [before EXCEPT ![c] = Now(c)]
          /\ began' = [began EXCEPT ![c] = cycle] /\ done' = [done EXCEPT ![c] = FALSE]
          /\ UNCHANGED <<contractVars, polls, receipt, queue>> /\ todo[c] = <<>>
      BY <1>2 DEF Begin, Running
    <2>3. Plan[m.kind] \in Left(m.kind) /\ Plan[m.kind] \in Seq(Steps)
      BY <1>0, <2>1, PlanIsLeft
    <2>4. Now(c) \in View /\ cycle \in 1 .. MaxCycle
      BY <1>0, AccountOfAssumption DEF Now, View, ContractTypeOK
    <2>5. calls' \in 0 .. MaxCalls
      BY <1>0, <2>2, WidthAssumption
    <2>6. known' \in [Clients -> Nat]
      BY <1>0, <2>1, <2>2, CallFields
    <2>7. TypeOK'
      BY <1>0, <1>1, <2>1, <2>2, <2>3, <2>4, <2>5, <2>6 DEF TypeOK, Answers
    <2>8. receipt[c] = "none"
      BY <1>0, <2>2, Rests
    <2>9. PlanOK'
      BY <1>0, <2>2, <2>3, <2>8 DEF PlanOK, Running
    <2>. QED  BY <1>1, <2>2, <2>7, <2>9 DEF StateOK
  <1>3. ASSUME NEW c \in Clients, NEW rest \in Left(call[c].kind), NEW k \in Nat, NEW a \in Answers,
               UNCHANGED <<contractVars, calls, history, call>>,
               todo' = [todo EXCEPT ![c] = rest], known' = [known EXCEPT ![c] = k],
               answer' = [answer EXCEPT ![c] = a],
               rest # <<>> => a = answer[c] /\ todo[c] # <<>>,
               receipt' = [receipt EXCEPT ![c] = "none"],
               polls' \in [Clients -> 0 .. MaxPolls - 1], queue' \in [Accounts -> Seq(Entry)]
        PROVE  StateOK'
    <2>1. /\ todo' \in [Clients -> Seq(Steps)] /\ known' \in [Clients -> Nat]
          /\ answer' \in [Clients -> Answers] /\ receipt' \in [Clients -> Receipts]
      BY <1>0, <1>3 DEF Receipts
    <2>2. TypeOK'
      BY <1>0, <1>1, <1>3, <2>1 DEF TypeOK, history
    <2>3. PlanOK'
      BY <1>0, <1>3 DEF PlanOK, Running
    <2>. QED  BY <1>1, <1>3, <2>2, <2>3 DEF StateOK
  <1>4. ASSUME NEW c \in Clients, Ask(c)
        PROVE  StateOK'
    <2>1. todo[c] # <<>> /\ First(todo[c]) # "check" /\ Local
      BY <1>4, AskCases DEF Running, Querying
    <2>2. receipt[c] = "none"
      BY <1>0, <2>1, Rests
    <2>3. receipt' = [receipt EXCEPT ![c] = "none"]
      BY <1>0, <2>1, <2>2 DEF Local
    <2>4. PICK rest \in Left(call[c].kind), k \in Nat, a \in Answers :
              /\ todo' = [todo EXCEPT ![c] = rest] /\ known' = [known EXCEPT ![c] = k]
              /\ answer' = [answer EXCEPT ![c] = a] /\ (rest # <<>> => a = answer[c])
      BY <1>4, QueriedEffect
    <2>. QED  BY <1>0, <1>3, <2>1, <2>3, <2>4 DEF Local
  <1>5. ASSUME NEW c \in Clients, Send(c) \/ SendAnswerLost(c) \/ SendFails(c)
        PROVE  StateOK'
    <2>1. /\ todo[c] # <<>> /\ First(todo[c]) # "check"
          /\ UNCHANGED <<contractVars, calls, history, call, polls, receipt>>
      BY <1>5, SendCases DEF Running, Sending
    <2>2. receipt[c] = "none"
      BY <1>0, <2>1, Rests
    <2>3. receipt' = [receipt EXCEPT ![c] = "none"] /\ answer = [answer EXCEPT ![c] = answer[c]]
      BY <1>0, <2>1, <2>2
    <2>4. queue' \in [Accounts -> Seq(Entry)]
      BY <1>0, <1>5, SendCases, EnqueueEffect
    <2>5. After(todo[c]) \in Left(call[c].kind) /\ known[c] \in Nat /\ answer[c] \in Answers
      BY <1>0, <2>1, LeftShape
    <2>6. CASE Proceed(c, After(todo[c]), known[c])
      BY <1>0, <1>3, <2>1, <2>3, <2>4, <2>5, <2>6 DEF Proceed
    <2>7. CASE Return(c, "error")
      BY <1>0, <1>3, <2>1, <2>3, <2>4, <2>7 DEF Return, Answers
    <2>. QED  BY <1>5, <2>6, <2>7, SendCases
  <1>6. ASSUME NEW c \in Clients, CheckTx(c)
        PROVE  StateOK'
    <2>1. /\ todo[c] # <<>> /\ First(todo[c]) = "check"
          /\ UNCHANGED <<contractVars, calls, history, call>>
          /\ answer = [answer EXCEPT ![c] = answer[c]]
      BY <1>0, <1>6, CheckCases DEF Running
    <2>2. After(todo[c]) \in Left(call[c].kind) /\ known[c] \in Nat /\ answer[c] \in Answers
      BY <1>0, <2>1, LeftShape
    <2>3. ASSUME Checked(c)
          PROVE  /\ receipt' = [receipt EXCEPT ![c] = "none"]
                 /\ polls' \in [Clients -> 0 .. MaxPolls - 1]
      BY <1>0, <2>3, PollsAssumption DEF Checked
    <2>4. ASSUME NEW a \in Answers, Return(c, a), Checked(c), queue' \in [Accounts -> Seq(Entry)]
          PROVE  StateOK'
      BY <1>0, <1>3, <2>1, <2>3, <2>4 DEF Return
    <2>5. CASE Proceed(c, After(todo[c]), known[c]) /\ Checked(c) /\ UNCHANGED queue
      BY <1>0, <1>3, <2>1, <2>2, <2>3, <2>5 DEF Proceed
    <2>6. CASE \E a \in Answers : Return(c, a) /\ Checked(c) /\ UNCHANGED queue
      BY <1>0, <2>4, <2>6
    <2>7. CASE Return(c, "notPackaged") /\ Checked(c) /\ Abandon(c)
      BY <2>4, <2>7, AbandonEffect DEF Answers
    <2>8. CASE /\ polls[c] + 1 < MaxPolls /\ polls' = [polls EXCEPT ![c] = @ + 1]
               /\ UNCHANGED <<todo, known, receipt, answer, queue>>
      <3>1. polls' \in [Clients -> 0 .. MaxPolls - 1]
        BY <1>0, <2>8, PollsAssumption
      <3>2. TypeOK'
        BY <1>0, <1>1, <2>1, <2>8, <3>1 DEF TypeOK, history
      <3>3. PlanOK'
        BY <1>0, <2>1, <2>8 DEF PlanOK, Running
      <3>. QED  BY <1>1, <2>1, <3>2, <3>3 DEF StateOK
    <2>. QED  BY <1>6, <2>5, <2>6, <2>7, <2>8, CheckCases DEF Answers
  <1>7. ASSUME NEW a \in Accounts, MineApprove(a) \/ MineAccepted(a) \/ MineUnpaid(a) \/ MineRefused(a)
        PROVE  StateOK'
    <2>. DEFINE e == Head(queue[a])
    <2>1. PICK status \in Receipts \ {"none"} : queue[a] # <<>> /\ Settle(a, status)
      BY <1>7, MineCases DEF Receipts
    <2>2. ContractOK' /\ ContractTypeOK'
      BY <1>7, MineCases DEF ContractOK
    <2>3. /\ queue' \in [Accounts -> Seq(Entry)] /\ receipt' \in [Clients -> Receipts]
          /\ done' \in [Clients -> BOOLEAN] /\ before' \in [Clients -> View \cup {Disturbed}]
          /\ UNCHANGED <<call, todo, known, polls, answer, calls, began>>
      BY <2>1, SettleEffect
    <2>4. \A c \in Clients : receipt'[c] # "none" => receipt[c] # "none" \/ (c = e.by /\ Awaits(todo[c], call[c], known[c], e))
      BY <2>1, SettleEffect, NobodyAssumption
    <2>5. TypeOK'
      BY <1>0, <2>2, <2>3 DEF TypeOK
    <2>6. \A c \in Clients : receipt'[c] # "none" => todo[c] \in {T1, T3, R4}
      BY <1>0, <2>4 DEF Awaits
    <2>7. PlanOK'
      BY <1>0, <2>3, <2>6 DEF PlanOK, Running
    <2>. QED  BY <2>2, <2>5, <2>7 DEF StateOK
  <1>8. CASE \/ \E d \in Deeds : Elsewhere(d[1], d[2])
             \/ \E c \in Clients : Penalized(AccountOf[c])
    <2>1. /\ ContractOK' /\ ContractTypeOK'
          /\ UNCHANGED <<clientVars, queue, calls, began, done>>
          /\ before' \in [Clients -> View \cup {Disturbed}]
      BY <1>8, AsideEffect DEF ContractOK
    <2>2. TypeOK'
      BY <1>0, <2>1 DEF TypeOK, clientVars
    <2>3. PlanOK'
      BY <1>0, <2>1 DEF PlanOK, Running, clientVars
    <2>. QED  BY <2>1, <2>2, <2>3 DEF StateOK
  <1>9. CASE UNCHANGED vars
    <2>1. ContractOK' /\ ContractTypeOK'
      BY <1>1, <1>9 DEF vars
    <2>2. TypeOK'
      BY <1>0, <1>9, <2>1 DEF TypeOK, vars, clientVars, history
    <2>3. PlanOK'
      BY <1>0, <1>9 DEF PlanOK, Running, vars, clientVars
    <2>. QED  BY <2>1, <2>2, <2>3 DEF StateOK
  <1>. QED  BY <1>2, <1>4, <1>5, <1>6, <1>7, <1>8, <1>9, NextCases

\* Every step keeps the queue: whoever waits for a transaction waits for one, his own.
LEMMA QueueStep ==
    ASSUME StateOK, QueueOK, [Next]_vars
    PROVE  QueueOK'
  <1>0. /\ call \in [Clients -> Calls] /\ todo \in [Clients -> Seq(Steps)]
        /\ known \in [Clients -> Nat] /\ receipt \in [Clients -> Receipts]
        /\ queue \in [Accounts -> Seq(Entry)] /\ AccountOf \in [Clients -> Accounts]
        /\ \A c \in Clients : /\ todo[c] \in Left(call[c].kind)
                              /\ receipt[c] # "none" => todo[c] \in {T1, T3, R4}
    BY AccountOfAssumption DEF StateOK, TypeOK, PlanOK
  \* An entry stays, and so does its client.
  <1>1. ASSUME NEW a \in Accounts, NEW i \in DOMAIN queue[a], Waits(a, i), queue'[a] = queue[a],
               NEW c, queue[a][i].by # c,
               \A d \in Clients \ {c} : /\ call'[d] = call[d] /\ todo'[d] = todo[d]
                                        /\ known'[d] = known[d] /\ receipt'[d] = receipt[d]
        PROVE  Waits(a, i)'
    BY <1>1 DEF Waits
  \* Nobody waits outside CheckTx, or with a receipt.
  <1>2. ASSUME NEW c \in Clients, todo[c] \notin {T1, T3, R4} \/ receipt[c] # "none",
               NEW a \in Accounts, NEW i \in DOMAIN queue[a], Waits(a, i)
        PROVE  queue[a][i].by # c
    BY <1>2 DEF Waits, Awaits
  <1>3. ASSUME NEW c \in Clients, todo[c] \notin {T1, T3, R4} \/ receipt[c] # "none", UNCHANGED queue,
               \A d \in Clients \ {c} : /\ call'[d] = call[d] /\ todo'[d] = todo[d]
                                        /\ known'[d] = known[d] /\ receipt'[d] = receipt[d]
        PROVE  QueueOK'
    <2>1. ASSUME NEW a \in Accounts, NEW i \in DOMAIN queue[a], queue[a][i].by # Nobody
          PROVE  Waits(a, i)'
      <3>1. Waits(a, i)
        BY <2>1 DEF QueueOK
      <3>. QED  BY <1>1, <1>2, <1>3, <3>1
    <2>. QED  BY <1>3, <2>1 DEF QueueOK
  <1>4. ASSUME NEW c \in Clients, NEW m \in CallsOf[c], Begin(c, m)
        PROVE  QueueOK'
    <2>1. todo[c] \notin {T1, T3, R4}
      BY <1>4, Rests DEF Begin, Running
    <2>. QED  BY <1>0, <1>3, <1>4, <2>1 DEF Begin
  <1>5. ASSUME NEW c \in Clients, Ask(c)
        PROVE  QueueOK'
    <2>1. First(todo[c]) # "check" /\ Local
      BY <1>5, AskCases DEF Querying
    <2>2. todo[c] \notin {T1, T3, R4}
      BY <2>1, Rests
    <2>3. \A d \in Clients \ {c} : todo'[d] = todo[d] /\ known'[d] = known[d]
      BY <1>0, <1>5, QueriedEffect
    <2>. QED  BY <1>3, <2>1, <2>2, <2>3 DEF Local
  <1>6. ASSUME NEW c \in Clients, Send(c) \/ SendAnswerLost(c) \/ SendFails(c)
        PROVE  QueueOK'
    <2>. DEFINE e(by) == [by |-> by, req |-> Request(c), at |-> began[c]]
    <2>1. /\ todo[c] # <<>> /\ First(todo[c]) \in Sending /\ todo[c] \notin {T1, T3, R4}
          /\ UNCHANGED <<call, receipt>>
      BY <1>6, SendCases, Rests DEF Running, Sending
    <2>2. todo[c] \in {T2, T4, R5}
      BY <1>0, <2>1, LeftShape DEF Sending
    <2>3. receipt[c] = "none"
      BY <1>0, <2>1
    <2>4. \A d \in Clients \ {c} : /\ todo'[d] = todo[d] /\ known'[d] = known[d]
                                   /\ call'[d] = call[d] /\ receipt'[d] = receipt[d]
      BY <1>0, <1>6, <2>1, SendCases DEF Proceed, Return
    <2>5. CASE UNCHANGED queue
      BY <1>3, <2>1, <2>4, <2>5
    <2>6. ASSUME NEW by \in {c, Nobody}, Enqueue(c, by),
                 by = c => Awaits(todo'[c], call'[c], known'[c], e(c))
          PROVE  QueueOK'
      <3>. DEFINE b == AccountOf[c]
                  q == queue[b]
      <3>1. e(by) \in Entry /\ queue' = [queue EXCEPT ![b] = Append(q, e(by))]
        BY <2>6, EnqueueEffect
      <3>2. q \in Seq(Entry) /\ b \in Accounts
        BY <1>0
      <3>3. e(by).by = by
        OBVIOUS
      <3>. HIDE DEF e
      <3>4. /\ DOMAIN Append(q, e(by)) = 1 .. Len(q) + 1 /\ Len(q) \in Nat /\ DOMAIN q = 1 .. Len(q)
            /\ \A i \in 1 .. Len(q) : Append(q, e(by))[i] = q[i]
            /\ Append(q, e(by))[Len(q) + 1] = e(by)
        BY <3>1, <3>2, AppendProperties, LenProperties
      <3>5. queue'[b] = Append(q, e(by)) /\ \A a \in Accounts : a # b => queue'[a] = queue[a]
        BY <1>0, <3>1, <3>2
      <3>6. ASSUME NEW a \in Accounts, a # b, NEW i \in DOMAIN queue[a], queue[a][i].by # Nobody
            PROVE  Waits(a, i)'
        <4>1. Waits(a, i)
          BY <3>6 DEF QueueOK
        <4>. QED  BY <1>1, <1>2, <2>1, <2>4, <3>5, <3>6, <4>1
      <3>7. \A j \in 1 .. Len(q) : q[j].by # c /\ queue'[b][j] = q[j]
        <4>1. \A j \in DOMAIN q : q[j].by # c
          BY <1>2, <2>1, <3>2, NobodyAssumption DEF QueueOK
        <4>. QED  BY <3>4, <3>5, <4>1
      <3>8. queue'[b][Len(q) + 1].by = by
        BY <3>3, <3>4, <3>5
      <3>9. ASSUME NEW i \in 1 .. Len(q), q[i].by # Nobody
            PROVE  Waits(b, i)'
        <4>1. Waits(b, i) /\ q[i].by \in Clients \ {c} /\ q[i].by # by
          BY <2>6, <3>2, <3>4, <3>7, <3>9 DEF QueueOK, Waits
        <4>2. \A j \in 1 .. Len(q) + 1 : queue'[b][j].by = q[i].by => j = i
          <5>1. \A j \in 1 .. Len(q) : q[j].by = q[i].by => j = i
            BY <3>4, <4>1 DEF Waits
          <5>2. \A j \in 1 .. Len(q) + 1 : j \in 1 .. Len(q) \/ j = Len(q) + 1
            BY <3>4
          <5>. HIDE DEF b, q
          <5>. QED  BY <3>7, <3>8, <4>1, <5>1, <5>2
        <4>3. queue'[b][i] = q[i] /\ DOMAIN queue'[b] = 1 .. Len(q) + 1
          BY <3>4, <3>5, <3>7, <3>9
        <4>4. PICK d \in Clients \ {c} : d = q[i].by
          BY <4>1
        <4>5. /\ b = AccountOf[d] /\ receipt[d] = "none"
              /\ Awaits(todo[d], call[d], known[d], q[i])
          BY <4>1, <4>4 DEF Waits
        <4>6. receipt'[d] = "none" /\ Awaits(todo'[d], call'[d], known'[d], q[i])
          BY <2>4, <4>4, <4>5
        <4>. QED  BY <4>2, <4>3, <4>4, <4>5, <4>6 DEF Waits
      <3>10. ASSUME by = c, NEW n, n = Len(q) + 1
             PROVE  Waits(b, n)'
        <4>1. \A j \in 1 .. Len(q) + 1 : queue'[b][j].by = c => j = n
          BY <3>4, <3>7, <3>10
        <4>2. queue'[b][n] = e(c) /\ e(c).by = c
          BY <3>3, <3>4, <3>5, <3>10
        <4>3. DOMAIN queue'[b] = 1 .. Len(q) + 1
          BY <3>4, <3>5
        <4>4. receipt'[c] = "none" /\ Awaits(todo'[c], call'[c], known'[c], e(c))
          BY <2>1, <2>3, <2>6, <3>10
        <4>. QED  BY <4>1, <4>2, <4>3, <4>4 DEF Waits
      <3>11. ASSUME NEW i \in 1 .. Len(q) + 1, queue'[b][i].by # Nobody
             PROVE  Waits(b, i)'
        <4>1. CASE i = Len(q) + 1
          BY <2>6, <3>8, <3>10, <3>11, <4>1
        <4>2. CASE i \in 1 .. Len(q)
          BY <3>7, <3>9, <3>11, <4>2
        <4>. QED  BY <3>4, <4>1, <4>2
      <3>. QED  BY <3>4, <3>5, <3>6, <3>11 DEF QueueOK
    <2>7. ASSUME Proceed(c, After(todo[c]), known[c])
          PROVE  Awaits(todo'[c], call'[c], known'[c], e(c))
      <3>1. /\ todo'[c] = After(todo[c]) /\ known'[c] = known[c] /\ call'[c] = call[c]
        BY <1>0, <2>1, <2>7 DEF Proceed
      <3>2. CASE todo[c] = T2
        <4>1. todo'[c] = T1 /\ Request(c) = call[c]
          BY <3>1, <3>2, Rests DEF Request, First
        <4>. QED  BY <3>1, <4>1 DEF Awaits
      <3>3. CASE todo[c] \in {T4, R5}
        <4>1. /\ todo'[c] \in {T3, R4}
              /\ Request(c) = [kind |-> "Approve", spender |-> Spender(call[c]), amount |-> known[c]]
          BY <3>1, <3>3, Rests DEF Request, First
        <4>. QED  BY <3>1, <4>1 DEF Awaits
      <3>. QED  BY <2>2, <3>2, <3>3
    <2>. QED  BY <1>6, <2>5, <2>6, <2>7, SendCases, NobodyAssumption
  <1>7. ASSUME NEW c \in Clients, CheckTx(c)
        PROVE  QueueOK'
    <2>1. UNCHANGED call
      BY <1>7, CheckCases
    <2>2. CASE receipt[c] # "none" /\ UNCHANGED queue /\ Checked(c)
      <3>1. \A d \in Clients \ {c} : /\ call'[d] = call[d] /\ todo'[d] = todo[d]
                                     /\ known'[d] = known[d] /\ receipt'[d] = receipt[d]
        BY <1>0, <1>7, <2>1, <2>2, CheckCases DEF Proceed, Return, Checked
      <3>. QED  BY <1>3, <2>2, <3>1
    <2>3. CASE UNCHANGED <<todo, known, receipt, answer, queue>>
      BY <2>1, <2>3 DEF QueueOK, Waits
    <2>4. CASE Return(c, "notPackaged") /\ Checked(c) /\ Abandon(c)
      <3>1. \A d \in Clients \ {c} : /\ call'[d] = call[d] /\ todo'[d] = todo[d]
                                     /\ known'[d] = known[d] /\ receipt'[d] = receipt[d]
        BY <1>0, <2>1, <2>4 DEF Return, Checked
      <3>2. ASSUME NEW a \in Accounts, NEW i \in DOMAIN queue'[a], queue'[a][i].by # Nobody
            PROVE  Waits(a, i)'
        <4>. DEFINE d == queue[a][i].by
        <4>1. /\ DOMAIN queue'[a] = DOMAIN queue[a] /\ queue'[a][i].by = d /\ d # Nobody
              /\ queue'[a][i].req = queue[a][i].req
              /\ \A j \in DOMAIN queue[a] : queue'[a][j].by \in {queue[a][j].by, Nobody}
              /\ a = AccountOf[c] => d # c
          BY <2>4, <3>2, AbandonEffect
        <4>2. /\ a = AccountOf[d] /\ receipt[d] = "none" /\ d \in Clients \ {c}
              /\ Awaits(todo[d], call[d], known[d], queue[a][i])
              /\ \A j \in DOMAIN queue[a] : queue[a][j].by = d => j = i
          BY <3>2, <4>1 DEF QueueOK, Waits
        <4>3. Awaits(todo[d], call[d], known[d], queue'[a][i])
          BY <4>1, <4>2 DEF Awaits
        <4>. HIDE DEF d
        <4>4. \A j \in DOMAIN queue'[a] : queue'[a][j].by = d => j = i
          BY <4>1, <4>2
        <4>. QED  BY <3>1, <4>1, <4>2, <4>3, <4>4 DEF Waits
      <3>. QED  BY <3>2 DEF QueueOK
    <2>. QED  BY <1>7, <2>2, <2>3, <2>4, CheckCases
  <1>8. ASSUME NEW a \in Accounts, MineApprove(a) \/ MineAccepted(a) \/ MineUnpaid(a) \/ MineRefused(a)
        PROVE  QueueOK'
    <2>. DEFINE e == Head(queue[a])
    <2>1. PICK status \in Receipts \ {"none"} : queue[a] # <<>> /\ Settle(a, status)
      BY <1>8, MineCases DEF Receipts
    <2>2. /\ \A b \in Accounts : b # a => queue'[b] = queue[b]
          /\ \A i \in DOMAIN queue'[a] :
                 /\ i + 1 \in DOMAIN queue[a] /\ queue'[a][i] = queue[a][i + 1]
          /\ \A i \in DOMAIN queue'[a] : queue'[a][i].by # Nobody => queue'[a][i].by # e.by
          /\ e.by # Nobody => AccountOf[e.by] = a
          /\ \A c \in Clients : receipt'[c] = IF c = e.by THEN status ELSE receipt[c]
          /\ UNCHANGED <<call, todo, known>>
      BY <2>1, SettleEffect
    <2>3. queue'[a] \in Seq(Entry)
      BY <2>1, SettleEffect
    <2>. HIDE DEF e
    <2>4. \A i \in DOMAIN queue'[a] : i \in Nat
      BY <2>3
    <2>5. ASSUME NEW i \in DOMAIN queue'[a], queue'[a][i].by # Nobody
          PROVE  Waits(a, i)'
      <3>1. i + 1 \in DOMAIN queue[a] /\ queue'[a][i] = queue[a][i + 1] /\ i \in Nat
        BY <2>2, <2>4, <2>5
      <3>2. Waits(a, i + 1) /\ queue[a][i + 1].by # e.by
        BY <2>2, <2>5, <3>1 DEF QueueOK
      <3>3. \A j \in DOMAIN queue'[a] : queue'[a][j].by = queue'[a][i].by => j = i
        BY <2>2, <2>4, <3>1, <3>2 DEF Waits
      <3>. QED  BY <2>2, <3>1, <3>2, <3>3 DEF Waits
    <2>6. ASSUME NEW b \in Accounts, b # a, NEW i \in DOMAIN queue[b], queue[b][i].by # Nobody
          PROVE  Waits(b, i)'
      <3>1. Waits(b, i)
        BY <2>6 DEF QueueOK
      <3>2. queue[b][i].by # e.by
        BY <2>2, <2>6, <3>1 DEF Waits
      <3>. QED  BY <1>1, <2>2, <2>6, <3>1, <3>2
    <2>. QED  BY <2>2, <2>5, <2>6 DEF QueueOK
  <1>9. CASE \/ \E d \in Deeds : Elsewhere(d[1], d[2])
             \/ \E c \in Clients : Penalized(AccountOf[c])
    BY <1>9, AsideEffect DEF clientVars, QueueOK, Waits
  <1>10. CASE UNCHANGED vars
    BY <1>10 DEF vars, clientVars, QueueOK, Waits
  <1>. QED  BY <1>4, <1>5, <1>6, <1>7, <1>8, <1>9, <1>10, NextCases

-----------------------------------------------------------------------------
(* What CheckTx says.                                                       *)

\* Every step keeps the answers true.
LEMMA AnswersStep ==
    ASSUME StateOK, QueueOK, AnswersOK, [Next]_vars
    PROVE  AnswersOK'
  <1>0. /\ todo \in [Clients -> Seq(Steps)] /\ receipt \in [Clients -> Receipts]
        /\ answer \in [Clients -> Answers] /\ done \in [Clients -> BOOLEAN]
        /\ \A c \in Clients : /\ todo[c] \in Left(call[c].kind)
                              /\ todo[c] # <<>> => answer[c] = "none"
                              /\ receipt[c] # "none" => todo[c] \in {T1, T3, R4}
                              /\ Truthful(c)
    BY DEF StateOK, TypeOK, PlanOK, AnswersOK, Running
  \* The other clients' answers are not touched.
  <1>1. ASSUME NEW c \in Clients, Truthful(c)',
               \A d \in Clients \ {c} : /\ todo'[d] = todo[d] /\ receipt'[d] = receipt[d]
                                        /\ answer'[d] = answer[d] /\ done'[d] = done[d]
        PROVE  AnswersOK'
    BY <1>0, <1>1 DEF AnswersOK, Truthful, Running
  <1>2. ASSUME NEW c \in Clients, NEW m \in CallsOf[c], Begin(c, m)
        PROVE  AnswersOK'
    <2>1. receipt[c] = "none"
      BY <1>0, <1>2, Rests DEF Begin, Running
    <2>2. /\ done' = [done EXCEPT ![c] = FALSE] /\ answer' = [answer EXCEPT ![c] = "none"]
          /\ receipt' = receipt /\ todo' = [todo EXCEPT ![c] = Plan[m.kind]]
      BY <1>2 DEF Begin
    <2>3. Truthful(c)'
      BY <1>0, <2>1, <2>2 DEF Truthful
    <2>. QED  BY <1>0, <1>1, <2>2, <2>3
  \* A step outside CheckTx is one of a call that has not been accepted.
  <1>3. ASSUME NEW c \in Clients, todo[c] # <<>>, First(todo[c]) # "check",
               UNCHANGED <<receipt, done>>, NEW rest, NEW a,
               todo' = [todo EXCEPT ![c] = rest], answer' = [answer EXCEPT ![c] = a],
               a \in {"none", "error", "won", "lost"}
        PROVE  AnswersOK'
    <2>1. receipt[c] = "none"
      BY <1>0, <1>3, Rests
    <2>2. ~ done[c]
      BY <1>0, <1>3, <2>1 DEF Truthful, Running
    <2>3. Truthful(c)'
      BY <1>0, <1>3, <2>1, <2>2 DEF Truthful
    <2>. QED  BY <1>0, <1>1, <1>3, <2>3
  <1>4. ASSUME NEW c \in Clients, Ask(c)
        PROVE  AnswersOK'
    <2>1. todo[c] # <<>> /\ First(todo[c]) # "check" /\ UNCHANGED <<receipt, done>>
      BY <1>4, AskCases DEF Running, Querying, Local, history
    <2>2. PICK rest, a : /\ todo' = [todo EXCEPT ![c] = rest] /\ answer' = [answer EXCEPT ![c] = a]
                         /\ a \in {"none", "error", "won", "lost"}
      BY <1>0, <1>4, <2>1, QueriedEffect
    <2>. QED  BY <1>3, <2>1, <2>2
  <1>5. ASSUME NEW c \in Clients, Send(c) \/ SendAnswerLost(c) \/ SendFails(c)
        PROVE  AnswersOK'
    <2>1. todo[c] # <<>> /\ First(todo[c]) # "check" /\ UNCHANGED <<receipt, done>>
      BY <1>5, SendCases DEF Running, Sending, history
    <2>2. answer = [answer EXCEPT ![c] = "none"]
      BY <1>0, <2>1
    <2>3. PICK rest, a : /\ todo' = [todo EXCEPT ![c] = rest] /\ answer' = [answer EXCEPT ![c] = a]
                         /\ a \in {"none", "error", "won", "lost"}
      BY <1>5, <2>2, SendCases DEF Proceed, Return
    <2>. QED  BY <1>3, <2>1, <2>3
  <1>6. ASSUME NEW c \in Clients, CheckTx(c)
        PROVE  AnswersOK'
    <2>1. /\ todo[c] # <<>> /\ First(todo[c]) = "check" /\ UNCHANGED done
          /\ answer[c] = "none"
      BY <1>0, <1>6, CheckCases DEF Running, history
    <2>2. todo[c] \in {T1, T3, R4}
      BY <1>0, <2>1, LeftShape
    <2>3. done[c] <=> todo[c] = T1 /\ receipt[c] = "ok"
      BY <1>0, <2>1 DEF Truthful, Running
    <2>4. ASSUME NEW rest, NEW a, Checked(c), todo' = [todo EXCEPT ![c] = rest],
                 answer' = [answer EXCEPT ![c] = a],
                 \/ rest = <<>> /\ a = "ok" /\ done[c]
                 \/ rest = <<>> /\ a \in {"gasLimit", "failed", "panicked"} /\ ~ done[c]
                 \/ rest = <<>> /\ a = "notPackaged"
                 \/ a = "none" /\ ~ done[c]
          PROVE  AnswersOK'
      <3>1. receipt' = [receipt EXCEPT ![c] = "none"]
        BY <2>4 DEF Checked
      <3>2. Truthful(c)'
        BY <1>0, <2>1, <2>4, <3>1 DEF Truthful, Running
      <3>. QED  BY <1>0, <1>1, <2>1, <2>4, <3>1, <3>2
    <2>5. CASE receipt[c] = "ok" /\ After(todo[c]) = <<>> /\ Return(c, "ok") /\ Checked(c)
      <3>1. done[c]
        BY <2>2, <2>3, <2>5, Rests
      <3>. QED  BY <2>4, <2>5, <3>1 DEF Return
    <2>6. CASE /\ receipt[c] = "ok" /\ After(todo[c]) # <<>>
               /\ Proceed(c, After(todo[c]), known[c]) /\ Checked(c)
      <3>1. ~ done[c]
        BY <2>2, <2>3, <2>6, Rests
      <3>2. answer' = [answer EXCEPT ![c] = "none"]
        BY <1>0, <2>1, <2>6 DEF Proceed
      <3>. QED  BY <2>4, <2>6, <3>1, <3>2 DEF Proceed
    <2>7. CASE /\ receipt[c] \in {"unpaid", "refused"} /\ Checked(c)
               /\ \E a \in {"gasLimit", "failed", "panicked"} : Return(c, a)
      BY <2>3, <2>4, <2>7 DEF Return
    <2>8. CASE UNCHANGED <<todo, known, receipt, answer, queue>>
      BY <1>0, <2>1, <2>8 DEF AnswersOK, Truthful, Running
    <2>9. CASE Return(c, "notPackaged") /\ Checked(c)
      BY <2>4, <2>9 DEF Return
    <2>. QED  BY <1>6, <2>5, <2>6, <2>7, <2>8, <2>9, CheckCases
  <1>7. ASSUME NEW a \in Accounts, MineApprove(a) \/ MineAccepted(a) \/ MineUnpaid(a) \/ MineRefused(a)
        PROVE  AnswersOK'
    <2>. DEFINE e == Head(queue[a])
    <2>1. PICK status \in Receipts \ {"none"} : queue[a] # <<>> /\ Settle(a, status)
      BY <1>7, MineCases DEF Receipts
    <2>2. /\ e.by # Nobody => /\ e.by \in Clients /\ receipt[e.by] = "none"
                              /\ Awaits(todo[e.by], call[e.by], known[e.by], e)
          /\ \A c \in Clients : receipt'[c] = IF c = e.by THEN status ELSE receipt[c]
          /\ done' \in [Clients -> BOOLEAN]
          /\ \A c \in Clients :
                done'[c] <=> done[c] \/ (c = e.by /\ status = "ok" /\ e.req.kind # "Approve")
          /\ UNCHANGED <<call, todo, known, polls, answer, calls, began>>
      BY <2>1, SettleEffect
    <2>. HIDE DEF e
    <2>3. CASE e.by = Nobody
      BY <1>0, <2>2, <2>3, NobodyAssumption DEF AnswersOK, Truthful, Running
    <2>4. CASE e.by # Nobody
      <3>1. PICK c \in Clients : c = e.by
        BY <2>2, <2>4
      <3>2. todo[c] \in {T1, T3, R4} /\ todo[c] # <<>> /\ answer[c] = "none" /\ ~ done[c]
        BY <1>0, <2>2, <2>4, <3>1, Rests DEF Awaits, Truthful, Running
      <3>3. e.req.kind # "Approve" <=> todo[c] = T1
        <4>1. call[c].kind # "Approve"
          BY CallFields DEF StateOK, TypeOK
        <4>2. T1 \notin {T3, R4}
          BY Rests
        <4>. QED  BY <2>2, <2>4, <3>1, <4>1, <4>2 DEF Awaits
      <3>4. Truthful(c)'
        BY <2>2, <3>1, <3>2, <3>3 DEF Truthful, Running
      <3>5. \A d \in Clients \ {c} : (done'[d] <=> done[d]) /\ receipt'[d] = receipt[d]
        BY <2>2, <3>1
      <3>6. \A d \in Clients : done'[d] \in BOOLEAN /\ done[d] \in BOOLEAN
        BY <1>0, <2>2
      <3>7. \A d \in Clients \ {c} : done'[d] = done[d]
        BY <3>5, <3>6
      <3>. QED  BY <1>1, <2>2, <3>4, <3>5, <3>7
    <2>. QED  BY <2>3, <2>4
  <1>8. CASE \/ \E d \in Deeds : Elsewhere(d[1], d[2])
             \/ \E c \in Clients : Penalized(AccountOf[c])
    BY <1>0, <1>8, AsideEffect DEF clientVars, AnswersOK, Truthful, Running
  <1>9. CASE UNCHANGED vars
    BY <1>0, <1>9 DEF vars, clientVars, history, AnswersOK, Truthful, Running
  <1>. QED  BY <1>2, <1>4, <1>5, <1>6, <1>7, <1>8, <1>9, NextCases

\* The model is type correct: the contracts, the clients, their plans and the queues.
THEOREM TypeCorrect == Spec => []TypeOK
  <1>1. StateOK /\ QueueOK /\ [Next]_vars => StateOK' /\ QueueOK'
    BY StateStep, QueueStep
  <1>2. StateOK => TypeOK
    BY DEF StateOK
  <1>. QED  BY <1>1, <1>2, InitState, PTL DEF Spec

\* A nil of CheckTx means that the call's own transaction took effect, and an error
\* that names a reverted transaction that it did not, for any calls of any clients.
THEOREM AnswersAreTrue == Spec => []AnswerIsTrue
  <1>1. StateOK /\ QueueOK /\ AnswersOK /\ [Next]_vars => StateOK' /\ QueueOK' /\ AnswersOK'
    BY StateStep, QueueStep, AnswersStep
  <1>2. AnswersOK => AnswerIsTrue
    BY DEF AnswersOK, Truthful, AnswerIsTrue
  <1>. QED  BY <1>1, <1>2, InitState, PTL DEF Spec

-----------------------------------------------------------------------------
(* Cycles.                                                                  *)

\* A step of client c outside Begin leaves the other clients and the chain alone.
LEMMA ClientFrame ==
    ASSUME StateOK, NEW c \in Clients, ClientStep(c)
    PROVE  /\ todo[c] # <<>>
           /\ UNCHANGED <<contractVars, history, call>>
           /\ \A d \in Clients \ {c} :
                 /\ todo'[d] = todo[d] /\ known'[d] = known[d]
                 /\ answer'[d] = answer[d] /\ receipt'[d] = receipt[d]
  <1>0. /\ todo \in [Clients -> Seq(Steps)] /\ known \in [Clients -> Nat]
        /\ receipt \in [Clients -> Receipts] /\ answer \in [Clients -> Answers]
    BY DEF StateOK, TypeOK
  <1>1. CASE Ask(c)
    BY <1>0, <1>1, AskCases, QueriedEffect DEF Local, Running
  <1>2. CASE Send(c) \/ SendAnswerLost(c) \/ SendFails(c)
    BY <1>0, <1>2, SendCases DEF Proceed, Return, Running
  <1>3. CASE CheckTx(c)
    <2>1. todo[c] # <<>> /\ UNCHANGED <<contractVars, history, call>>
      BY <1>3, CheckCases DEF Running
    <2>2. CASE UNCHANGED <<todo, known, receipt, answer>>
      BY <2>1, <2>2
    <2>3. CASE Checked(c) /\ \E a : Return(c, a)
      BY <1>0, <2>1, <2>3 DEF Return, Checked
    <2>4. CASE Checked(c) /\ Proceed(c, After(todo[c]), known[c])
      BY <1>0, <2>1, <2>4 DEF Proceed, Checked
    <2>. QED  BY <1>3, <2>2, <2>3, <2>4, CheckCases
  <1>. QED  BY <1>1, <1>2, <1>3 DEF ClientStep

\* The client is not touched by the step.
Untouched(d) ==
    /\ call'[d] = call[d] /\ todo'[d] = todo[d] /\ known'[d] = known[d]
    /\ answer'[d] = answer[d] /\ began'[d] = began[d]

\* The steps of the chain touch no client in this sense.
LEMMA ChainFrame ==
    ASSUME StateOK, QueueOK, Chain \/ UNCHANGED vars
    PROVE  /\ \A d \in Clients : Untouched(d)
           /\ cycle <= cycle' /\ results \subseteq results'
  <1>0. cycle \in Nat
    BY DEF StateOK, ContractOK, ContractTypeOK
  <1>1. ASSUME NEW a \in Accounts, MineApprove(a) \/ MineAccepted(a) \/ MineUnpaid(a) \/ MineRefused(a)
        PROVE  /\ \A d \in Clients : Untouched(d)
               /\ cycle <= cycle' /\ results \subseteq results'
    <2>1. PICK status \in Receipts \ {"none"} : queue[a] # <<>> /\ Settle(a, status)
      BY <1>1, MineCases DEF Receipts
    <2>. QED  BY <1>1, <2>1, MineCases DEF Settle, Untouched
  <1>2. CASE \/ \E d \in Deeds : Elsewhere(d[1], d[2])
             \/ \E c \in Clients : Penalized(AccountOf[c])
    BY <1>2, AsideEffect DEF clientVars, Untouched
  <1>3. CASE UNCHANGED vars
    BY <1>0, <1>3 DEF vars, clientVars, history, contractVars, Untouched
  <1>. QED  BY <1>1, <1>2, <1>3 DEF Chain

\* Every step keeps the points fresh.
LEMMA FreshStep ==
    ASSUME StateOK, QueueOK, FreshOK, [Next]_vars
    PROVE  FreshOK'
  <1>0. /\ todo \in [Clients -> Seq(Steps)] /\ call \in [Clients -> Calls]
        /\ began \in [Clients -> 1 .. MaxCycle] /\ cycle \in Nat /\ cycle' \in Nat
        /\ \A c \in Clients : todo[c] \in Left(call[c].kind) /\ Fresh(c) /\ began[c] \in Nat
    BY StateStep, CyclesAssumption
       DEF StateOK, TypeOK, PlanOK, FreshOK, ContractOK, ContractTypeOK
  \* A client that is not touched keeps its point.
  <1>1. ASSUME NEW d \in Clients, Untouched(d), cycle <= cycle'
        PROVE  Fresh(d)'
    BY <1>0, <1>1 DEF Fresh, Untouched
  <1>2. ASSUME NEW c \in Clients, NEW m \in CallsOf[c], Begin(c, m)
        PROVE  FreshOK'
    <2>1. /\ m \in Calls /\ call' = [call EXCEPT ![c] = m] /\ cycle' = cycle
          /\ todo' = [todo EXCEPT ![c] = Plan[m.kind]] /\ began' = [began EXCEPT ![c] = cycle]
          /\ \A d \in Clients \ {c} : Untouched(d)
      BY <1>0, <1>2, CallsAssumption DEF Begin, contractVars, Untouched, StateOK, TypeOK
    <2>2. m.kind = "SubmitAggregationProof" => Plan[m.kind] = R7
      BY DEF Plan, R7, SubmitAggregationProof
    <2>3. R7 \notin {T1, T2}
      BY Rests
    <2>4. Fresh(c)'
      BY <1>0, <2>1, <2>2, <2>3 DEF Fresh
    <2>. QED  BY <1>0, <1>1, <2>1, <2>4 DEF FreshOK
  <1>3. ASSUME NEW c \in Clients, ClientStep(c)
        PROVE  FreshOK'
    <2>1. /\ UNCHANGED <<cycle, call, began>> /\ todo[c] # <<>>
          /\ \A d \in Clients \ {c} : Untouched(d)
      BY <1>3, ClientFrame DEF contractVars, history, Untouched
    <2>2. ASSUME call[c].kind = "SubmitAggregationProof", todo'[c] \in {T1, T2}
          PROVE  call[c].point >= began[c]
      <3>1. todo[c] \in Left("SubmitAggregationProof")
        BY <1>0, <2>2
      <3>2. CASE todo[c] \in {T1, T2}
        BY <1>0, <2>2, <3>2 DEF Fresh
      <3>3. CASE todo[c] \notin {T1, T2}
        <4>1. todo[c] \in {R3, R4, R5, R6, R7}
          BY <2>1, <3>1, <3>3 DEF Left, Paying, Challenging
        <4>2. CASE Ask(c)
          <5>1. \/ todo'[c] \in {<<>>, After(todo[c])}
                \/ todo'[c] = After(After(After(todo[c]))) /\ First(todo[c]) = "balance"
            BY <1>0, <4>2, AskCases DEF Queried, Proceed, Return
          <5>2. todo[c] = R3
            BY <2>2, <4>1, <5>1, Rests
          <5>3. First(todo[c]) = "rnd" /\ todo'[c] # <<>>
            BY <2>2, <5>2, Rests
          <5>4. Queried(c)
            BY <4>2, AskCases
          <5>5. call[c].point = cycle
            BY <1>0, <5>3, <5>4 DEF Queried, Proceed, Return
          <5>. QED  BY <1>0, <5>5 DEF Fresh
        <4>3. CASE Send(c) \/ SendAnswerLost(c) \/ SendFails(c)
          <5>1. todo'[c] \in {<<>>, After(todo[c])} /\ First(todo[c]) \in Sending
            BY <1>0, <4>3, SendCases DEF Proceed, Return
          <5>. QED  BY <2>2, <4>1, <5>1, Rests DEF Sending
        <4>4. CASE CheckTx(c)
          <5>1. todo'[c] \in {<<>>, todo[c], After(todo[c])} /\ First(todo[c]) = "check"
            BY <1>0, <4>4, CheckCases DEF Proceed, Return
          <5>. QED  BY <2>2, <4>1, <5>1, Rests
        <4>. QED  BY <1>3, <4>2, <4>3, <4>4 DEF ClientStep
      <3>. QED  BY <3>2, <3>3
    <2>3. Fresh(c)'
      BY <1>0, <2>1, <2>2 DEF Fresh
    <2>. QED  BY <1>0, <1>1, <2>1, <2>3 DEF FreshOK
  <1>4. CASE Chain \/ UNCHANGED vars
    BY <1>1, <1>4, ChainFrame DEF FreshOK
  <1>. QED  BY <1>2, <1>3, <1>4 DEF Next

\* Every step keeps stale proofs out of the queues.
LEMMA StaleStep ==
    ASSUME StateOK, QueueOK, FreshOK, NoStaleProofSent, [Next]_vars
    PROVE  NoStaleProofSent'
  <1>0. /\ queue \in [Accounts -> Seq(Entry)]
        /\ \A c \in Clients : todo[c] \in Left(call[c].kind) /\ Fresh(c)
    BY DEF StateOK, TypeOK, PlanOK, FreshOK
  <1>1. ASSUME NEW c \in Clients, Send(c) \/ SendAnswerLost(c) \/ SendFails(c)
        PROVE  NoStaleProofSent'
    <2>1. CASE UNCHANGED queue
      BY <2>1 DEF NoStaleProofSent
    <2>2. ASSUME NEW by \in Clients \cup {Nobody}, Enqueue(c, by)
          PROVE  NoStaleProofSent'
      <3>. DEFINE e == [by |-> by, req |-> Request(c), at |-> began[c]]
                  q == queue[AccountOf[c]]
      <3>1. e \in Entry /\ queue' = [queue EXCEPT ![AccountOf[c]] = Append(q, e)] /\ q \in Seq(Entry)
        BY <1>0, <2>2, EnqueueEffect, AccountOfAssumption
      <3>2. e.req.kind = "SubmitAggregationProof" => e.req.point >= e.at
        <4>1. todo[c] # <<>> /\ First(todo[c]) \in Sending
          BY <1>1, SendCases DEF Running
        <4>2. CASE First(todo[c]) = "approve"
          <5>1. e.req.kind = "Approve"
            BY <4>2 DEF Request, First
          <5>. QED  BY <5>1
        <4>3. CASE First(todo[c]) = "spend"
          <5>1. todo[c] = T2
            BY <1>0, <4>1, <4>3, LeftShape
          <5>2. e.req = call[c] /\ e.at = began[c]
            BY <4>3 DEF Request, First
          <5>. QED  BY <1>0, <5>1, <5>2 DEF Fresh
        <4>. QED  BY <4>1, <4>2, <4>3 DEF Sending
      <3>. HIDE DEF e, q
      <3>3. /\ DOMAIN Append(q, e) = 1 .. Len(q) + 1 /\ DOMAIN q = 1 .. Len(q) /\ Len(q) \in Nat
            /\ \A i \in 1 .. Len(q) : Append(q, e)[i] = q[i]
            /\ Append(q, e)[Len(q) + 1] = e
        BY <3>1, AppendProperties, LenProperties
      <3>4. \A i \in DOMAIN q : q[i].req.kind = "SubmitAggregationProof" => q[i].req.point >= q[i].at
        BY AccountOfAssumption DEF q, NoStaleProofSent
      <3>5. \A i \in DOMAIN Append(q, e) :
               Append(q, e)[i].req.kind = "SubmitAggregationProof"
                  => Append(q, e)[i].req.point >= Append(q, e)[i].at
        BY <3>2, <3>3, <3>4
      <3>6. \A a \in Accounts : queue'[a] \in {queue[a], Append(q, e)}
        BY <1>0, <3>1
      <3>. QED  BY <3>5, <3>6 DEF NoStaleProofSent
    <2>. QED  BY <1>1, <2>1, <2>2, SendCases
  <1>2. ASSUME NEW c \in Clients, Abandon(c)
        PROVE  NoStaleProofSent'
    BY <1>2, AbandonEffect DEF NoStaleProofSent
  <1>3. ASSUME NEW a \in Accounts, MineApprove(a) \/ MineAccepted(a) \/ MineUnpaid(a) \/ MineRefused(a)
        PROVE  NoStaleProofSent'
    <2>1. PICK status \in Receipts \ {"none"} : queue[a] # <<>> /\ Settle(a, status)
      BY <1>3, MineCases DEF Receipts
    <2>2. /\ \A b \in Accounts : b # a => queue'[b] = queue[b]
          /\ \A i \in DOMAIN queue'[a] :
                 /\ i + 1 \in DOMAIN queue[a] /\ queue'[a][i] = queue[a][i + 1]
      BY <2>1, SettleEffect
    <2>. QED  BY <2>2 DEF NoStaleProofSent
  <1>4. ASSUME UNCHANGED queue
        PROVE  NoStaleProofSent'
    BY <1>4 DEF NoStaleProofSent
  <1>5. ASSUME NEW c \in Clients, CheckTx(c)
        PROVE  NoStaleProofSent'
    BY <1>2, <1>4, <1>5, CheckCases
  <1>6. ASSUME NEW c \in Clients, Ask(c) \/ \E m \in CallsOf[c] : Begin(c, m)
        PROVE  NoStaleProofSent'
    BY <1>4, <1>6, AskCases DEF Local, Begin
  <1>7. CASE \/ (\E d \in Deeds : Elsewhere(d[1], d[2])) \/ (\E c \in Clients : Penalized(AccountOf[c]))
             \/ UNCHANGED vars
    BY <1>4, <1>7, AsideEffect DEF vars
  <1>. QED  BY <1>1, <1>3, <1>5, <1>6, <1>7, NextCases

\* Every step keeps the verdicts that were reported those of cycles of the call.
LEMMA WinnerStep ==
    ASSUME StateOK, QueueOK, FreshOK, WinnerOK, [Next]_vars
    PROVE  WinnerOK'
  <1>. DEFINE Told(c) == answer[c] \in {"won", "lost"} =>
                  \E r \in results : /\ r.who = AccountOf[c]
                                     /\ r.won = (answer[c] = "won")
                                     /\ r.cycle >= began[c]
  <1>0. /\ todo \in [Clients -> Seq(Steps)] /\ call \in [Clients -> Calls]
        /\ known \in [Clients -> Nat] /\ answer \in [Clients -> Answers] /\ cycle \in Nat
        /\ results \subseteq Verdict
        /\ \A c \in Clients : /\ todo[c] \in Left(call[c].kind) /\ Fresh(c) /\ Asked(c) /\ Told(c)
                              /\ began[c] \in Nat
    BY CyclesAssumption
       DEF StateOK, TypeOK, PlanOK, FreshOK, ContractOK, ContractTypeOK, WinnerOK, WinnerIsOfItsCycle
  <1>1. ASSUME NEW d \in Clients, Untouched(d), results \subseteq results'
        PROVE  Asked(d)' /\ Told(d)'
    BY <1>0, <1>1 DEF Asked, Untouched
  <1>2. ASSUME NEW c \in Clients, Asked(c)', Told(c)', results \subseteq results',
               \A d \in Clients \ {c} : Untouched(d)
        PROVE  WinnerOK'
    BY <1>1, <1>2 DEF WinnerOK, WinnerIsOfItsCycle
  <1>3. ASSUME NEW c \in Clients, NEW m \in CallsOf[c], Begin(c, m)
        PROVE  WinnerOK'
    <2>1. /\ m \in Calls /\ todo' = [todo EXCEPT ![c] = Plan[m.kind]]
          /\ answer' = [answer EXCEPT ![c] = "none"] /\ results' = results
          /\ \A d \in Clients \ {c} : Untouched(d)
      BY <1>0, <1>3, CallsAssumption DEF Begin, contractVars, Untouched, StateOK, TypeOK
    <2>2. Plan[m.kind] \notin {W1, W2, W3, W4}
      <3>1. m.kind = "IsSubmitterWinner" => Plan[m.kind] = W5
        BY DEF Plan, W5, IsSubmitterWinner
      <3>2. m.kind # "IsSubmitterWinner" => Plan[m.kind] \notin {W1, W2, W3, W4}
        BY <2>1, PlanIsLeft, Rests DEF Left
      <3>3. W5 \notin {W1, W2, W3, W4}
        BY Rests
      <3>. QED  BY <3>1, <3>2, <3>3
    <2>3. Asked(c)'
      BY <1>0, <2>1, <2>2 DEF Asked
    <2>4. Told(c)'
      BY <1>0, <2>1
    <2>. QED  BY <1>2, <2>1, <2>3, <2>4
  <1>4. ASSUME NEW c \in Clients, ClientStep(c), Asked(c)', Told(c)'
        PROVE  WinnerOK'
    BY <1>2, <1>4, ClientFrame DEF contractVars, history, Untouched
  <1>5. ASSUME NEW c \in Clients, Ask(c)
        PROVE  WinnerOK'
    <2>1. todo[c] # <<>> /\ UNCHANGED <<results, began, call>>
      BY <1>5, AskCases DEF Running, Local, contractVars, history
    <2>2. Asked(c)' /\ Told(c)'
      <3>1. CASE Return(c, "error")
        <4>1. todo'[c] = <<>> /\ answer'[c] = "error"
          BY <1>0, <3>1 DEF Return
        <4>. QED  BY <4>1, Rests DEF Asked
      <3>2. CASE /\ First(todo[c]) = "results"
                 /\ \E r \in results : /\ r.who = AccountOf[c] /\ r.cycle = known[c]
                                       /\ Return(c, IF r.won THEN "won" ELSE "lost")
        <4>1. PICK r \in results : /\ r.who = AccountOf[c] /\ r.cycle = known[c]
                                   /\ Return(c, IF r.won THEN "won" ELSE "lost")
          BY <3>2
        <4>2. /\ todo'[c] = <<>> /\ answer'[c] = IF r.won THEN "won" ELSE "lost"
          BY <1>0, <4>1 DEF Return
        <4>3. r.won \in BOOLEAN /\ r \in results'
          BY <1>0, <2>1 DEF Verdict
        <4>4. r.won = (answer'[c] = "won")
          BY <4>2, <4>3
        <4>5. todo[c] = W1
          BY <1>0, <2>1, <3>2, LeftType, Rests DEF Rest
        <4>6. r.cycle >= began'[c]
          BY <1>0, <2>1, <4>1, <4>5 DEF Asked
        <4>7. Told(c)'
          BY <4>1, <4>3, <4>4, <4>6
        <4>8. Asked(c)'
          BY <4>2, Rests DEF Asked
        <4>. QED  BY <4>7, <4>8
      <3>3. CASE First(todo[c]) = "cycle" /\ Proceed(c, After(todo[c]), cycle)
        <4>1. known'[c] = cycle /\ answer' = answer
          BY <1>0, <3>3 DEF Proceed
        <4>. QED  BY <1>0, <2>1, <4>1 DEF Asked, Fresh
      <3>4. CASE /\ First(todo[c]) \in {"credential", "proofs", "dividedCn", "status", "rnd"}
                 /\ Proceed(c, After(todo[c]), known[c])
        <4>1. known'[c] = known[c] /\ answer' = answer /\ todo'[c] = After(todo[c])
          BY <1>0, <3>4 DEF Proceed
        <4>2. todo'[c] \in {W1, W2, W3, W4} => todo[c] \in {W1, W2, W3, W4}
          <5>1. todo[c] \in Rest \ {<<>>} /\ todo[c] # W5
            BY <1>0, <2>1, <3>4, LeftType, Rests
          <5>. QED  BY <4>1, <5>1, AskingApart DEF Asking
        <4>. QED  BY <1>0, <2>1, <4>1, <4>2 DEF Asked
      <3>5. CASE First(todo[c]) = "setting" /\ \E k : Proceed(c, After(todo[c]), k)
        <4>1. answer' = answer /\ todo'[c] = After(todo[c])
          BY <1>0, <3>5 DEF Proceed
        <4>2. todo'[c] \notin {W1, W2, W3, W4}
          <5>1. todo[c] \in Rest \ {<<>>}
            BY <1>0, <2>1, LeftType
          <5>. QED  BY <3>5, <4>1, <5>1, AskingApart DEF Asking
        <4>. QED  BY <1>0, <2>1, <4>1, <4>2 DEF Asked
      <3>6. CASE /\ First(todo[c]) = "balance"
                 /\ \E k : \/ Proceed(c, After(todo[c]), k)
                           \/ Proceed(c, After(After(After(todo[c]))), k)
        <4>1. answer' = answer /\ todo'[c] \in {After(todo[c]), After(After(After(todo[c])))}
          BY <1>0, <3>6 DEF Proceed
        <4>2. todo'[c] \notin {W1, W2, W3, W4}
          <5>1. todo[c] \in {H5, R6}
            BY <1>0, <2>1, <3>6, LeftShape
          <5>2. todo'[c] \in {T4, T2, R5, R3}
            BY <4>1, <5>1, Rests
          <5>3. \A t \in {W1, W2, W3, W4} : First(t) \notin {"approve", "spend", "rnd"}
            BY Rests
          <5>. QED  BY <5>2, <5>3, Rests
        <4>. QED  BY <1>0, <2>1, <4>1, <4>2 DEF Asked
      <3>. QED  BY <1>5, <3>1, <3>2, <3>3, <3>4, <3>5, <3>6, AskCases DEF Queried
    <2>. QED  BY <1>4, <1>5, <2>2 DEF ClientStep
  <1>6. ASSUME NEW c \in Clients, Send(c) \/ SendAnswerLost(c) \/ SendFails(c)
        PROVE  WinnerOK'
    <2>1. /\ todo'[c] \in {<<>>, After(todo[c])} /\ First(todo[c]) \in Sending /\ todo[c] # <<>>
          /\ answer'[c] \in {answer[c], "error"} /\ UNCHANGED <<results, began>>
      BY <1>0, <1>6, SendCases DEF Proceed, Return, Running, contractVars, history
    <2>2. todo'[c] \notin {W1, W2, W3, W4}
      <3>1. todo[c] \in Rest \ {<<>>} /\ \A t \in {W1, W2, W3, W4} : t # <<>>
        BY <1>0, <2>1, LeftType, Rests
      <3>. QED  BY <2>1, <3>1, AskingApart DEF Asking, Sending
    <2>3. Asked(c)' /\ Told(c)'
      BY <1>0, <2>1, <2>2 DEF Asked
    <2>. QED  BY <1>4, <1>6, <2>3 DEF ClientStep
  <1>7. ASSUME NEW c \in Clients, CheckTx(c)
        PROVE  WinnerOK'
    <2>1. /\ todo'[c] \in {<<>>, todo[c], After(todo[c])} /\ First(todo[c]) = "check"
          /\ todo[c] # <<>> /\ UNCHANGED <<results, began>>
          /\ answer'[c] \in {answer[c], "ok", "gasLimit", "failed", "panicked", "notPackaged"}
      BY <1>0, <1>7, CheckCases DEF Proceed, Return, Running, contractVars, history
    <2>2. todo'[c] \notin {W1, W2, W3, W4}
      <3>1. todo[c] \in Rest \ {<<>>} /\ \A t \in {W1, W2, W3, W4} : t # <<>>
        BY <1>0, <2>1, LeftType, Rests
      <3>. QED  BY <2>1, <3>1, AskingApart DEF Asking
    <2>3. Asked(c)' /\ Told(c)'
      BY <1>0, <2>1, <2>2 DEF Asked
    <2>. QED  BY <1>4, <1>7, <2>3 DEF ClientStep
  <1>8. CASE Chain \/ UNCHANGED vars
    BY <1>1, <1>8, ChainFrame DEF WinnerOK, WinnerIsOfItsCycle
  <1>. QED  BY <1>3, <1>5, <1>6, <1>7, <1>8 DEF Next, ClientStep

\* The invariants on cycles, winners and money hold in the initial states.
LEMMA InitRest == Init => FreshOK /\ WinnerOK /\ NoStaleProofSent /\ MoneyOK
  <1>. SUFFICES ASSUME Init PROVE FreshOK /\ WinnerOK /\ NoStaleProofSent /\ MoneyOK
    OBVIOUS
  <1>1. <<>> \notin {T1, T2, W1, W2, W3, W4}
    BY Rests
  <1>2. FreshOK
    BY <1>1 DEF Init, ContractInit, FreshOK, Fresh
  <1>3. WinnerOK
    BY <1>1 DEF Init, WinnerOK, Asked, WinnerIsOfItsCycle
  <1>4. NoStaleProofSent
    BY DEF Init, NoStaleProofSent
  <1>5. MoneyOK
    BY DEF Init, MoneyOK, Quiet
  <1>. QED  BY <1>2, <1>3, <1>4, <1>5

\* No proof is sent for a cycle that was over when the call was made, whatever points
\* the callers bring and however the cycles turn.
THEOREM NoStaleProof == Spec => []NoStaleProofSent
  <1>. DEFINE Inv == StateOK /\ QueueOK /\ FreshOK /\ NoStaleProofSent
  <1>1. Inv /\ [Next]_vars => Inv'
    BY StateStep, QueueStep, FreshStep, StaleStep
  <1>2. Init => Inv
    BY InitState, InitRest
  <1>. QED  BY <1>1, <1>2, PTL DEF Spec

\* IsSubmitterWinner reports the verdict of a cycle that was current during the call,
\* although it asks five times.
THEOREM WinnerOfItsCycle == Spec => []WinnerIsOfItsCycle
  <1>. DEFINE Inv == StateOK /\ QueueOK /\ FreshOK /\ WinnerOK
  <1>1. Inv /\ [Next]_vars => Inv'
    BY StateStep, QueueStep, FreshStep, WinnerStep
  <1>2. Init => Inv
    BY InitState, InitRest
  <1>3. Inv => WinnerIsOfItsCycle
    BY DEF WinnerOK
  <1>. QED  BY <1>1, <1>2, <1>3, PTL DEF Spec

-----------------------------------------------------------------------------
(* Money.                                                                   *)

\* What a call costs, kind by kind.
LEMMA ChargeIs ==
    ASSUME NEW m, NEW p
    PROVE  /\ m.kind = "AddFile" => Charge(m, p) = setting.price * m.size * Span(m)
           /\ m.kind = "Pledge" => Charge(m, p) = m.amount
           /\ m.kind = "BeSubmitter" => Charge(m, p) = setting.subPledge
           /\ m.kind = "SubmitAggregationProof" => Charge(m, p) = Shortfall(setting.subPledge, p)
           /\ m.kind \in Challenging => Charge(m, p) = Shortfall(setting.chalPledge, p)
           /\ m.kind \notin Paying \cup {"SubmitAggregationProof"} => Charge(m, p) = 0
  <1>1. m.kind = "AddFile" => Charge(m, p) = setting.price * m.size * Span(m)
    BY DEF Charge, Challenging
  <1>2. m.kind = "Pledge" => Charge(m, p) = m.amount
    BY DEF Charge, Challenging
  <1>3. m.kind = "BeSubmitter" => Charge(m, p) = setting.subPledge
    BY DEF Charge, Challenging
  <1>4. m.kind = "SubmitAggregationProof" => Charge(m, p) = Shortfall(setting.subPledge, p)
    BY DEF Charge, Challenging
  <1>5. m.kind \in Challenging => Charge(m, p) = Shortfall(setting.chalPledge, p)
    BY DEF Charge, Challenging
  <1>6. m.kind \notin Paying \cup {"SubmitAggregationProof"} => Charge(m, p) = 0
    BY DEF Charge, Challenging, Paying
  <1>. QED  BY <1>1, <1>2, <1>3, <1>4, <1>5, <1>6

\* Which plans have which rests.
LEMMA LeftKind ==
    ASSUME NEW k, NEW s \in Left(k)
    PROVE  /\ s \in {T3, T4} => k \in Paying
           /\ s \in {F5, F6} => k = "AddFile"
           /\ s = B5 => k = "BeSubmitter"
           /\ s \in {H5, H6} => k \in Challenging
           /\ s \in {R3, R4, R5, R6, R7} => k = "SubmitAggregationProof"
  BY Rests DEF Left

\* The call has its type, and the account it began with is one.
LEMMA QuietType ==
    ASSUME StateOK, NEW c \in Clients, Quiet(c)
    PROVE  /\ call[c] \in Calls /\ known[c] \in Nat /\ todo[c] \in Left(call[c].kind)
           /\ before[c].allowance \in [Spenders -> Nat] /\ before[c].bal \in Nat
           /\ Cost(c) \in Nat /\ (~ Approves(c) => Cost(c) = 0)
           /\ Spender(call[c]) \in Spenders /\ AccountOf[c] \in Accounts
           /\ setting \in Setting
  <1>1. /\ call[c] \in Calls /\ known[c] \in Nat /\ todo[c] \in Left(call[c].kind)
        /\ before[c] \in View /\ setting \in Setting
    BY SettingsAssumption DEF StateOK, TypeOK, PlanOK, ContractOK, ContractTypeOK, Quiet
  <1>2. before[c].allowance \in [Spenders -> Nat] /\ before[c].bal \in Nat
    BY <1>1 DEF View
  <1>3. Cost(c) \in Nat
    BY <1>1, <1>2, ChargeType DEF Cost
  <1>. QED
    BY <1>1, <1>2, <1>3, AccountOfAssumption DEF Approves, Spender, Spenders

\* The steps of a call keep its accounts.
LEMMA LedgerOfClient ==
    ASSUME StateOK, AnswersOK, AnswersOK', NEW c \in Clients, ClientStep(c), Quiet(c), Ledger(c)
    PROVE  Ledger(c)'
  <1>0. /\ call[c] \in Calls /\ known[c] \in Nat /\ todo[c] \in Left(call[c].kind)
        /\ before[c].bal \in Nat /\ Cost(c) \in Nat /\ setting \in Setting
        /\ todo \in [Clients -> Seq(Steps)] /\ receipt \in [Clients -> Receipts]
        /\ answer \in [Clients -> Answers] /\ known \in [Clients -> Nat] /\ AccountOf[c] \in Accounts
        /\ receipt[c] # "none" => todo[c] \in {T1, T3, R4}
        /\ Truthful(c) /\ Truthful(c)'
    BY QuietType DEF StateOK, TypeOK, PlanOK, AnswersOK
  <1>1. todo[c] # <<>> /\ UNCHANGED <<contractVars, history, call>>
    BY ClientFrame
  <1>2. /\ setting' = setting /\ bal' = bal /\ allowance' = allowance /\ before' = before
        /\ done' = done /\ call' = call
    BY <1>1 DEF contractVars, history
  <1>3. Cost(c)' = Cost(c) /\ (Approves(c)' <=> Approves(c)) /\ (Paid(c)' <=> Paid(c))
    BY <1>2 DEF Cost, Charge, Approves, Paid
  <1>4. ASSUME Unspent(c), Approved(c)' <=> Approved(c)
        PROVE  Unspent(c)'
    BY <1>2, <1>3, <1>4 DEF Unspent
  \* The call returns.
  <1>5. ASSUME todo'[c] = <<>>, receipt'[c] = "none", answer'[c] = "ok" => Paid(c)
        PROVE  Ledger(c)'
    <2>1. <<>> \notin {T4, T3, R5, R4, F5, H5, R6}
      BY Rests
    <2>. QED  BY <1>3, <1>5, <2>1 DEF Ledger, Running
  \* The call goes on.
  <1>6. ASSUME receipt'[c] = "none", ~ done[c],
               todo'[c] \in {T4, T3, R5, R4, F5} => known'[c] = Cost(c) /\ Approves(c),
               todo'[c] = H5 => known'[c] = setting.chalPledge,
               todo'[c] = R6 => known'[c] = setting.subPledge,
               Approves(c) => (todo'[c] \in {R3, T2, T1} <=> todo[c] \in {R3, T2, T1} \/ receipt[c] = "ok")
        PROVE  Ledger(c)'
    <2>1. answer'[c] # "ok"
      BY <1>0, <1>2, <1>6 DEF Truthful
    <2>2. Approved(c)' <=> Approved(c)
      BY <1>3, <1>6 DEF Approved
    <2>3. Unspent(c)'
      BY <1>1, <1>4, <1>6, <2>2 DEF Ledger, Running
    <2>. QED  BY <1>2, <1>3, <1>6, <2>1, <2>3 DEF Ledger
  <1>7. CASE Ask(c)
    <2>1. First(todo[c]) \in Querying /\ Queried(c) /\ receipt' = receipt
      BY <1>7, AskCases DEF Local
    <2>2. todo[c] \notin {T1, T2, T3, T4, R4, R5}
      BY <2>1, Rests DEF Querying, Sending
    <2>3. receipt[c] = "none" /\ receipt'[c] = "none" /\ ~ done[c] /\ Unspent(c)
      BY <1>0, <1>1, <2>1, <2>2 DEF Truthful, Running, Ledger
    <2>4. ASSUME NEW a, a # "ok", Return(c, a)
          PROVE  Ledger(c)'
      BY <1>0, <1>5, <2>3, <2>4 DEF Return
    <2>5. CASE /\ First(todo[c]) = "setting"
               /\ Proceed(c, After(todo[c]), CASE call[c].kind = "AddFile" -> FileAmount(call[c])
                                               [] call[c].kind \in Challenging -> setting.chalPledge
                                               [] OTHER -> setting.subPledge)
      <3>1. /\ todo'[c] = After(todo[c])
            /\ known'[c] = CASE call[c].kind = "AddFile" -> FileAmount(call[c])
                             [] call[c].kind \in Challenging -> setting.chalPledge
                             [] OTHER -> setting.subPledge
        BY <1>0, <2>5 DEF Proceed
      <3>2. todo[c] \in {F6, B5, H6, R7}
        BY <1>0, <1>1, <2>5, LeftType, RestFrom
      <3>3. CASE todo[c] = F6
        <4>1. call[c].kind = "AddFile"
          BY <1>0, <3>3, LeftKind
        <4>2. known'[c] = FileAmount(call[c])
          BY <3>1, <4>1 DEF Challenging
        <4>3. FileAmount(call[c]) = Cost(c)
          BY <1>0, <4>1, FileAmountType, ChargeIs DEF Quiet, Fits, Cost
        <4>4. Approves(c)
          BY <4>1 DEF Approves
        <4>5. todo'[c] = F5
          BY <3>1, <3>3, Rests
        <4>6. F5 \notin {H5, R6, R3, T2, T1} /\ F6 \notin {R3, T2, T1}
          BY Rests
        <4>. QED  BY <1>6, <2>3, <3>3, <4>2, <4>3, <4>4, <4>5, <4>6
      <3>4. CASE todo[c] = B5
        <4>1. call[c].kind = "BeSubmitter"
          BY <1>0, <3>4, LeftKind
        <4>2. known'[c] = setting.subPledge
          BY <3>1, <4>1 DEF Challenging
        <4>3. setting.subPledge = Cost(c) /\ Approves(c)
          BY <4>1, ChargeIs DEF Cost, Approves
        <4>4. todo'[c] = T4 /\ T4 \notin {H5, R6, R3, T2, T1} /\ B5 \notin {R3, T2, T1}
          BY <3>1, <3>4, Rests
        <4>. QED  BY <1>6, <2>3, <3>4, <4>2, <4>3, <4>4
      <3>5. CASE todo[c] = H6
        <4>1. call[c].kind \in Challenging
          BY <1>0, <3>5, LeftKind
        <4>2. known'[c] = setting.chalPledge
          BY <3>1, <4>1 DEF Challenging
        <4>3. todo'[c] = H5 /\ H5 \notin {T4, T3, R5, R4, F5, R6, R3, T2, T1} /\ H6 \notin {R3, T2, T1}
          BY <3>1, <3>5, Rests
        <4>. QED  BY <1>6, <2>3, <3>5, <4>2, <4>3
      <3>6. CASE todo[c] = R7
        <4>1. call[c].kind = "SubmitAggregationProof"
          BY <1>0, <3>6, LeftKind
        <4>2. known'[c] = setting.subPledge
          BY <3>1, <4>1 DEF Challenging
        <4>3. todo'[c] = R6 /\ R6 \notin {T4, T3, R5, R4, F5, H5, R3, T2, T1} /\ R7 \notin {R3, T2, T1}
          BY <3>1, <3>6, Rests
        <4>. QED  BY <1>6, <2>3, <3>6, <4>2, <4>3
      <3>. QED  BY <3>2, <3>3, <3>4, <3>5, <3>6
    <2>6. CASE First(todo[c]) = "balance"
      <3>. DEFINE short == Shortfall(known[c], bal[AccountOf[c]])
      <3>1. todo[c] \in {H5, R6} /\ bal[AccountOf[c]] = before[c].bal
        BY <1>0, <1>1, <2>3, <2>6, LeftShape DEF Unspent
      <3>2. Cost(c) = short /\ (Approves(c) <=> short > 0)
        <4>1. CASE todo[c] = H5
          <5>1. call[c].kind \in Challenging /\ known[c] = setting.chalPledge
            BY <1>0, <4>1, LeftKind DEF Ledger
          <5>. QED  BY <3>1, <5>1, ChargeIs DEF Cost, Approves, Challenging
        <4>2. CASE todo[c] = R6
          <5>1. call[c].kind = "SubmitAggregationProof" /\ known[c] = setting.subPledge
            BY <1>0, <4>2, LeftKind DEF Ledger
          <5>. QED  BY <3>1, <5>1, ChargeIs DEF Cost, Approves
        <4>. QED  BY <3>1, <4>1, <4>2
      <3>3. {H5, R6} \cap {R3, T2, T1} = {}
        BY Rests
      <3>. HIDE DEF short
      <3>4. CASE short > 0 /\ Proceed(c, After(todo[c]), short)
        <4>1. todo'[c] \in {T4, R5} /\ known'[c] = short
          BY <1>0, <3>1, <3>4, Rests DEF Proceed
        <4>2. {T4, R5} \cap {H5, R6, R3, T2, T1} = {}
          BY Rests
        <4>. QED  BY <1>6, <2>3, <3>1, <3>2, <3>3, <3>4, <4>1, <4>2
      <3>5. CASE ~ (short > 0) /\ Proceed(c, After(After(After(todo[c]))), 0)
        <4>1. todo'[c] \in {T2, R3}
          BY <1>0, <3>1, <3>5, Rests DEF Proceed
        <4>2. {T2, R3} \cap {T4, T3, R5, R4, F5, H5, R6} = {}
          BY Rests
        <4>. QED  BY <1>6, <2>3, <3>1, <3>2, <3>3, <3>5, <4>1, <4>2
      <3>6. CASE Return(c, "error")
        BY <2>4, <3>6
      <3>. QED  BY <2>1, <2>6, <3>4, <3>5, <3>6 DEF Queried, short
    <2>7. CASE First(todo[c]) = "rnd" /\ Proceed(c, After(todo[c]), known[c])
      <3>1. todo[c] = R3 /\ todo'[c] = T2
        BY <1>0, <1>1, <2>7, LeftShape, Rests DEF Proceed
      <3>2. T2 \notin {T4, T3, R5, R4, F5, H5, R6}
        BY Rests
      <3>. QED  BY <1>6, <2>3, <3>1, <3>2
    <2>8. CASE First(todo[c]) = "credential" /\ Proceed(c, After(todo[c]), known[c])
      <3>1. todo[c] = F5
        BY <1>0, <1>1, <2>8, LeftType, RestFrom
      <3>2. todo'[c] = T4 /\ known'[c] = known[c] /\ known[c] = Cost(c) /\ Approves(c)
        BY <1>0, <2>8, <3>1, Rests DEF Proceed, Ledger
      <3>3. T4 \notin {H5, R6, R3, T2, T1} /\ F5 \notin {R3, T2, T1}
        BY Rests
      <3>. QED  BY <1>6, <2>3, <3>1, <3>2, <3>3
    <2>9. CASE /\ First(todo[c]) \in {"cycle", "proofs", "dividedCn", "status"}
               /\ \E k : Proceed(c, After(todo[c]), k)
      <3>1. todo[c] \in {W5, W4, W3, W2}
        BY <1>0, <1>1, <2>9, LeftType, RestFrom
      <3>2. todo'[c] \in {W4, W3, W2, W1}
        BY <1>0, <2>9, <3>1, Rests DEF Proceed
      <3>3. {W5, W4, W3, W2, W1} \cap {T4, T3, R5, R4, F5, H5, R6, R3, T2, T1} = {}
        BY Rests
      <3>. QED  BY <1>6, <2>3, <3>1, <3>2, <3>3
    <2>. QED
      BY <2>1, <2>4, <2>5, <2>6, <2>7, <2>8, <2>9 DEF Queried
  <1>8. CASE Send(c) \/ SendAnswerLost(c) \/ SendFails(c)
    <2>1. First(todo[c]) \in Sending /\ receipt' = receipt
      BY <1>8, SendCases
    <2>2. todo[c] \in {T2, T4, R5} /\ todo[c] \notin {T1, T3, R4}
      <3>1. todo[c] \in {T2, T4, R5}
        BY <1>0, <1>1, <2>1, LeftShape DEF Sending
      <3>. QED  BY <3>1, Rests
    <2>3. receipt[c] = "none" /\ receipt'[c] = "none" /\ ~ done[c]
      BY <1>0, <1>1, <2>1, <2>2 DEF Truthful, Running
    <2>4. CASE Return(c, "error")
      BY <1>0, <1>5, <2>3, <2>4 DEF Return
    <2>5. CASE Proceed(c, After(todo[c]), known[c])
      <3>1. todo'[c] = After(todo[c]) /\ known'[c] = known[c]
        BY <1>0, <2>5 DEF Proceed
      <3>2. CASE todo[c] = T2
        <4>1. todo'[c] = T1 /\ T1 \notin {T4, T3, R5, R4, F5, H5, R6}
          BY <3>1, <3>2, Rests
        <4>. QED  BY <1>6, <2>3, <3>2, <4>1
      <3>3. CASE todo[c] \in {T4, R5}
        <4>1. todo'[c] \in {T3, R4} /\ known'[c] = Cost(c) /\ Approves(c)
          BY <3>1, <3>3, Rests DEF Ledger
        <4>2. {T3, R4, T4, R5} \cap {H5, R6, R3, T2, T1} = {}
          BY Rests
        <4>. QED  BY <1>6, <2>3, <3>3, <4>1, <4>2
      <3>. QED  BY <2>2, <3>2, <3>3
    <2>. QED  BY <1>8, <2>4, <2>5, SendCases
  <1>9. CASE CheckTx(c)
    <2>1. First(todo[c]) = "check" /\ todo[c] \in {T1, T3, R4}
      BY <1>0, <1>1, <1>9, CheckCases, LeftShape
    <2>2. ASSUME Checked(c) PROVE receipt'[c] = "none"
      BY <1>0, <2>2 DEF Checked
    <2>3. CASE /\ receipt[c] = "ok" /\ After(todo[c]) = <<>> /\ Return(c, "ok") /\ Checked(c)
      <3>1. todo[c] = T1
        BY <2>1, <2>3, Rests
      <3>2. Paid(c)
        BY <1>0, <1>1, <2>3, <3>1 DEF Truthful, Ledger, Running
      <3>. QED  BY <1>0, <1>5, <2>2, <2>3, <3>2 DEF Return
    <2>4. CASE /\ receipt[c] = "ok" /\ After(todo[c]) # <<>>
               /\ Proceed(c, After(todo[c]), known[c]) /\ Checked(c)
      <3>1. todo[c] \in {T3, R4} /\ todo[c] # T1
        BY <2>1, <2>4, Rests
      <3>2. todo'[c] \in {T2, R3} /\ known'[c] = known[c]
        BY <1>0, <2>4, <3>1, Rests DEF Proceed
      <3>3. {T2, R3} \cap {T4, T3, R5, R4, F5, H5, R6} = {}
        BY Rests
      <3>4. ~ done[c]
        BY <1>0, <1>1, <3>1 DEF Truthful, Running
      <3>. QED  BY <1>6, <2>2, <2>4, <3>2, <3>3, <3>4
    <2>5. CASE Checked(c) /\ \E a : a # "ok" /\ Return(c, a)
      BY <1>0, <1>5, <2>2, <2>5 DEF Return
    <2>6. CASE UNCHANGED <<todo, known, receipt, answer>>
      <3>1. Approved(c)' <=> Approved(c)
        BY <1>3, <2>6 DEF Approved
      <3>. QED  BY <1>2, <1>3, <1>4, <2>6, <3>1 DEF Ledger, Running
    <2>. QED  BY <1>9, <2>3, <2>4, <2>5, <2>6, CheckCases
  <1>. QED  BY <1>7, <1>8, <1>9 DEF ClientStep

\* A client that is not touched, and whose account and setting did not move either.
LEMMA LedgerOfOthers ==
    ASSUME NEW d \in Clients, Quiet(d) => Ledger(d), Quiet(d)',
           call'[d] = call[d], todo'[d] = todo[d], known'[d] = known[d], receipt'[d] = receipt[d],
           answer'[d] = answer[d], done'[d] = done[d],
           \/ before'[d] = Disturbed
           \/ /\ before'[d] = before[d] /\ setting' = setting
              /\ allowance'[AccountOf[d]] = allowance[AccountOf[d]] /\ bal'[AccountOf[d]] = bal[AccountOf[d]]
    PROVE  Ledger(d)'
  <1>1. /\ before'[d] = before[d] /\ setting' = setting
        /\ allowance'[AccountOf[d]] = allowance[AccountOf[d]] /\ bal'[AccountOf[d]] = bal[AccountOf[d]]
    BY DEF Quiet
  <1>2. Quiet(d)
    BY <1>1 DEF Quiet, Fits
  <1>3. Cost(d)' = Cost(d) /\ (Approves(d)' <=> Approves(d))
    BY <1>1 DEF Cost, Charge, Approves
  <1>4. (Paid(d)' <=> Paid(d)) /\ (Unspent(d)' <=> Unspent(d))
    BY <1>1, <1>3 DEF Paid, Unspent, Approved
  <1>. QED  BY <1>1, <1>2, <1>3, <1>4 DEF Ledger, Running

\* A call that begins has moved nothing.
LEMMA LedgerOfBegin ==
    ASSUME StateOK, StateOK', NEW c \in Clients, NEW m \in Calls, Begin(c, m), Quiet(c)'
    PROVE  Ledger(c)'
  <1>1. /\ todo \in [Clients -> Seq(Steps)] /\ receipt \in [Clients -> Receipts]
        /\ answer \in [Clients -> Answers] /\ known \in [Clients -> Nat]
        /\ before \in [Clients -> View \cup {Disturbed}] /\ call \in [Clients -> Calls]
        /\ done \in [Clients -> BOOLEAN]
        /\ receipt[c] # "none" => todo[c] \in {T1, T3, R4}
    BY DEF StateOK, TypeOK, PlanOK
  <1>2. /\ call'[c] = m /\ todo'[c] = Plan[m.kind] /\ answer'[c] = "none" /\ before'[c] = Now(c)
        /\ m.kind = "Pledge" => known'[c] = m.amount
        /\ ~ done'[c] /\ receipt' = receipt
        /\ todo[c] = <<>> /\ bal' = bal /\ allowance' = allowance /\ setting' = setting
    <2>1. /\ todo[c] = <<>> /\ receipt' = receipt
          /\ bal' = bal /\ allowance' = allowance /\ setting' = setting
      BY DEF Begin, Running, contractVars
    <2>2. call' = [call EXCEPT ![c] = m] /\ todo' = [todo EXCEPT ![c] = Plan[m.kind]]
      BY DEF Begin
    <2>3. answer' = [answer EXCEPT ![c] = "none"] /\ before' = [before EXCEPT ![c] = Now(c)]
      BY DEF Begin
    <2>4. /\ known' = [known EXCEPT ![c] = IF m.kind = "Pledge" THEN m.amount ELSE 0]
          /\ done' = [done EXCEPT ![c] = FALSE]
      BY DEF Begin
    <2>5. (m.kind = "Pledge" => known'[c] = m.amount) /\ ~ done'[c]
      BY <1>1, <2>4
    <2>. QED  BY <1>1, <2>1, <2>2, <2>3, <2>5
  <1>3. receipt[c] = "none"
    <2>1. <<>> \notin {T1, T3, R4}
      BY Rests
    <2>. QED  BY <1>1, <1>2, <2>1
  <1>4. Plan[m.kind] \in Left(m.kind)
    BY PlanIsLeft
  <1>5. /\ m.kind = "Pledge" => Plan[m.kind] = T4
        /\ m.kind = "AddFile" => Plan[m.kind] = F6
        /\ m.kind = "BeSubmitter" => Plan[m.kind] = B5
        /\ m.kind = "SubmitAggregationProof" => Plan[m.kind] = R7
        /\ m.kind \in Challenging => Plan[m.kind] = H6
        /\ m.kind \notin Paying \cup {"SubmitAggregationProof"} => Plan[m.kind] \in {T2, W5}
    BY CallFields
       DEF Plan, Challenging, Paying, Pledge, GenerateRnd, ResponseChallenge, EndChallenge,
           WithdrawMissedProfit, Withdraw, AlterSetting, AlterFoundation, IsSubmitterWinner,
           AddFile, BeSubmitter, SubmitAggregationProof, ChallengePn, ChallengeCn,
           OwnTransaction, W5, F6, B5, T4, H6, R7, T2
  <1>6. /\ {F6, B5, H6, R7, W5} \cap {R3, T2, T1, T4, T3, R5, R4, F5, H5, R6} = {}
        /\ T4 \notin {R3, T2, T1, H5, R6} /\ T2 \notin {T4, T3, R5, R4, F5, H5, R6}
    BY Rests
  <1>7. ~ Approved(c)'
    <2>1. CASE Plan[m.kind] = T2
      <3>1. m.kind \notin Paying \cup {"SubmitAggregationProof"}
        BY <1>5, <1>6, <2>1 DEF Paying
      <3>2. Cost(c)' = 0
        BY <1>2, <3>1 DEF Cost, Charge, Paying, Challenging
      <3>. QED  BY <1>2, <3>1, <3>2 DEF Approved, Approves, Paying
    <2>2. CASE Plan[m.kind] # T2
      <3>1. Plan[m.kind] \in {F6, B5, H6, R7, W5, T4}
        BY <1>5, <2>2 DEF Paying
      <3>. QED  BY <1>2, <1>3, <1>6, <3>1 DEF Approved
    <2>. QED  BY <2>1, <2>2
  <1>8. Unspent(c)'
    BY <1>2, <1>7 DEF Unspent, Now
  <1>9. CASE m.kind = "Pledge"
    <2>1. Cost(c)' = m.amount
      BY <1>2, <1>9 DEF Cost, Charge, Challenging
    <2>2. known'[c] = Cost(c)' /\ Approves(c)'
      BY <1>2, <1>9, <2>1 DEF Approves
    <2>. QED  BY <1>2, <1>3, <1>5, <1>6, <1>8, <1>9, <2>2 DEF Ledger
  <1>10. CASE m.kind # "Pledge"
    <2>1. Plan[m.kind] \in {F6, B5, H6, R7, W5, T2}
      BY <1>5, <1>10 DEF Paying
    <2>. QED  BY <1>2, <1>3, <1>6, <1>8, <2>1 DEF Ledger
  <1>. QED  BY <1>9, <1>10

\* The call whose transaction is mined.
LEMMA LedgerOfMine ==
    ASSUME StateOK, QueueOK, AnswersOK, NEW a \in Accounts,
           MineApprove(a) \/ MineAccepted(a) \/ MineUnpaid(a) \/ MineRefused(a),
           NEW c \in Clients, c = Head(queue[a]).by, Quiet(c) => Ledger(c), Quiet(c)'
    PROVE  Ledger(c)'
  <1>. DEFINE e == Head(queue[a])
              s == Spender(call[c])
  <1>1. PICK status \in Receipts \ {"none"} : queue[a] # <<>> /\ Settle(a, status)
    BY MineCases DEF Receipts
  <1>2. /\ a = AccountOf[c] /\ receipt[c] = "none" /\ Awaits(todo[c], call[c], known[c], e)
        /\ \A st \in Receipts \ {"none"} : Settle(a, st) =>
              receipt'[c] = st /\ (done'[c] <=> done[c] \/ (st = "ok" /\ e.req.kind # "Approve"))
        /\ UNCHANGED <<call, todo, known, answer>>
    BY <1>1, SettleEffect, NobodyAssumption
  <1>3. before'[c] = before[c]
    BY <1>1 DEF Settle, Watch
  <1>4. /\ call[c] \in Calls /\ call[c].kind # "Approve" /\ todo[c] \in {T1, T3, R4} /\ todo[c] # <<>>
        /\ answer[c] = "none" /\ ~ done[c]
    BY <1>2, Rests, CallFields
       DEF StateOK, TypeOK, PlanOK, AnswersOK, Truthful, Running, Awaits
  <1>5. T1 \notin {T3, R4, T4, R5, F5, H5, R6, R3, T2} /\ {T3, R4} \cap {H5, R6, R3, T2} = {}
    BY Rests
  <1>6. /\ todo[c] = T1 => e.req = call[c]
        /\ todo[c] # T1 => e.req = [kind |-> "Approve", spender |-> s, amount |-> known[c]]
    BY <1>2, <1>5 DEF Awaits
  <1>. HIDE DEF e
  \* No setting that matters to the call is altered.
  <1>7. /\ Quiet(c) /\ Cost(c)' = Cost(c) /\ (Approves(c)' <=> Approves(c))
        /\ setting' = setting \/ (todo[c] = T1 /\ call[c].kind = "AlterSetting")
    <2>1. setting' = setting \/ (todo[c] = T1 /\ call[c].kind = "AlterSetting")
      <3>1. \/ e.req.kind = "Approve" /\ SetAllowance(a, e.req.spender, e.req.amount)
            \/ e.req.kind # "Approve" /\ Perform(a, e.req)
            \/ UNCHANGED contractVars
        BY MineCases DEF e, Execute
      <3>. QED  BY <1>6, <3>1 DEF SetAllowance, Perform, contractVars
    <2>2. CASE setting' = setting
      BY <1>2, <1>3, <2>1, <2>2 DEF Quiet, Fits, Cost, Charge, Approves
    <2>3. CASE call[c].kind = "AlterSetting"
      <3>1. Quiet(c)
        BY <1>3, <2>3 DEF Quiet, Fits
      <3>2. Cost(c) = 0 /\ Cost(c)' = 0
        BY <1>2, <2>3 DEF Cost, Charge, Challenging
      <3>. QED  BY <1>2, <2>1, <2>3, <3>1, <3>2 DEF Approves
    <2>. QED  BY <2>1, <2>2, <2>3
  <1>8. /\ before[c].allowance \in [Spenders -> Nat] /\ before[c].bal \in Nat /\ Cost(c) \in Nat
        /\ ~ Approves(c) => Cost(c) = 0
        /\ s \in Spenders /\ Ledger(c) /\ Unspent(c)
        /\ allowance \in [Accounts -> [Spenders -> Nat]] /\ bal \in [Accounts -> Nat]
    BY <1>4, <1>7, QuietType DEF Ledger, Running, StateOK, ContractOK, ContractTypeOK
  <1>9. CASE e.req.kind = "Approve" /\ SetAllowance(a, e.req.spender, e.req.amount) /\ Settle(a, "ok")
    <2>1. todo[c] \in {T3, R4} /\ known[c] = Cost(c) /\ Approves(c) /\ e.req.spender = s
          /\ e.req.amount = Cost(c)
      BY <1>4, <1>6, <1>8, <1>9 DEF Ledger
    <2>2. ~ Approved(c)
      BY <1>2, <1>5, <2>1 DEF Approved
    <2>3. /\ allowance' = [allowance EXCEPT ![a][s] = Cost(c)] /\ bal' = bal /\ setting' = setting
      BY <1>9, <2>1 DEF SetAllowance
    <2>4. allowance'[a] = [before[c].allowance EXCEPT ![s] = Cost(c)] /\ bal'[a] = before[c].bal
      BY <1>2, <1>8, <2>2, <2>3 DEF Unspent
    <2>5. receipt'[c] = "ok" /\ ~ done'[c]
      BY <1>2, <1>4, <1>9 DEF Receipts
    <2>6. Unspent(c)'
      BY <1>2, <1>3, <1>7, <2>1, <2>4, <2>5 DEF Unspent, Approved
    <2>. QED  BY <1>2, <1>4, <1>5, <1>7, <2>1, <2>5, <2>6 DEF Ledger
  <1>10. CASE /\ e.req.kind # "Approve" /\ Payable(a, e.req) /\ Admissible(a, e.req)
              /\ Execute(a, e.req) /\ Settle(a, "ok")
    <2>1. todo[c] = T1 /\ e.req = call[c]
      BY <1>6, <1>10
    <2>2. Approved(c) <=> Approves(c)
      BY <1>2, <2>1 DEF Approved
    <2>3. /\ allowance[a] = IF Approves(c) THEN [before[c].allowance EXCEPT ![s] = Cost(c)]
                            ELSE before[c].allowance
          /\ bal[a] = before[c].bal
      BY <1>2, <1>8, <2>2 DEF Unspent
    <2>4. Charge(call[c], bal[a]) = Cost(c)
      BY <2>3 DEF Cost
    <2>5. /\ allowance'[a] = [allowance[a] EXCEPT ![s] = allowance[a][s] - Cost(c)]
          /\ bal'[a] = CASE call[c].kind = "AddFile" -> bal[a]
                         [] call[c].kind = "Withdraw" -> 0
                         [] OTHER -> bal[a] + Cost(c)
      BY <1>4, <1>10, <2>1, <2>4, ExecuteEffect DEF StateOK
    <2>6. allowance'[a] = [before[c].allowance EXCEPT ![s] = IF Approves(c) THEN 0 ELSE before[c].allowance[s]]
      <3>1. CASE Approves(c)
        <4>1. allowance[a] = [before[c].allowance EXCEPT ![s] = Cost(c)]
          BY <2>3, <3>1
        <4>2. allowance[a][s] = Cost(c) /\ Cost(c) - Cost(c) = 0
          BY <1>8, <4>1
        <4>3. allowance'[a] = [allowance[a] EXCEPT ![s] = 0]
          BY <2>5, <4>2
        <4>4. allowance'[a] = [before[c].allowance EXCEPT ![s] = 0]
          BY <1>8, <4>1, <4>3
        <4>. QED  BY <3>1, <4>4
      <3>2. CASE ~ Approves(c)
        <4>1. allowance[a] = before[c].allowance /\ allowance[a][s] \in Nat /\ Cost(c) = 0
          BY <1>8, <2>3, <3>2
        <4>2. allowance[a][s] - Cost(c) = allowance[a][s]
          BY <4>1
        <4>3. allowance'[a] = [before[c].allowance EXCEPT ![s] = before[c].allowance[s]]
          BY <2>5, <4>1, <4>2
        <4>. QED  BY <3>2, <4>3
      <3>. QED  BY <3>1, <3>2
    <2>7. Paid(c)'
      <3>1. allowance'[AccountOf[c]] =
               [before'[c].allowance EXCEPT ![Spender(call'[c])] = IF Approves(c)' THEN 0 ELSE @]
        BY <1>2, <1>3, <1>7, <2>6
      <3>2. bal'[AccountOf[c]] = CASE call'[c].kind = "Withdraw" -> 0
                                   [] call'[c].kind = "AddFile" -> before'[c].bal
                                   [] OTHER -> before'[c].bal + Cost(c)'
        <4>1. CASE call[c].kind = "Withdraw"
          BY <1>2, <1>3, <1>7, <2>3, <2>5, <4>1
        <4>2. CASE call[c].kind = "AddFile"
          BY <1>2, <1>3, <1>7, <2>3, <2>5, <4>2
        <4>3. CASE call[c].kind \notin {"Withdraw", "AddFile"}
          BY <1>2, <1>3, <1>7, <2>3, <2>5, <4>3
        <4>. QED  BY <4>1, <4>2, <4>3
      <3>. QED  BY <3>1, <3>2 DEF Paid
    <2>8. receipt'[c] = "ok" /\ done'[c]
      BY <1>2, <1>10 DEF Receipts
    <2>. QED  BY <1>2, <1>5, <2>1, <2>7, <2>8 DEF Ledger
  <1>11. CASE /\ e.req.kind # "Approve" /\ ~ Payable(a, e.req)
              /\ UNCHANGED contractVars /\ Settle(a, "unpaid")
    <2>1. todo[c] = T1 /\ e.req = call[c]
      BY <1>6, <1>11
    <2>2. Approved(c) <=> Approves(c)
      BY <1>2, <2>1 DEF Approved
    <2>3. bal[a] = before[c].bal /\ Cost(c) <= allowance[a][s]
      <3>1. /\ allowance[a] = IF Approves(c) THEN [before[c].allowance EXCEPT ![s] = Cost(c)]
                              ELSE before[c].allowance
            /\ bal[a] = before[c].bal
        BY <1>2, <1>8, <2>2 DEF Unspent
      <3>. HIDE DEF s
      <3>2. CASE Approves(c)
        <4>1. allowance[a][s] = Cost(c)
          BY <1>8, <3>1, <3>2
        <4>. QED  BY <1>8, <3>1, <4>1
      <3>3. CASE ~ Approves(c)
        BY <1>8, <3>1, <3>3
      <3>. QED  BY <3>2, <3>3
    <2>4. Payable(a, e.req)
      BY <2>1, <2>3 DEF Payable, Cost
    <2>. QED  BY <1>11, <2>4
  <1>12. CASE UNCHANGED contractVars /\ Settle(a, "refused")
    <2>1. receipt'[c] = "refused" /\ ~ done'[c]
      BY <1>2, <1>4, <1>12 DEF Receipts
    <2>2. Approved(c)' <=> Approved(c)
      BY <1>2, <1>7, <2>1 DEF Approved
    <2>3. Unspent(c)'
      BY <1>2, <1>3, <1>7, <1>8, <1>12, <2>2 DEF Unspent, contractVars
    <2>. QED  BY <1>2, <1>4, <1>5, <1>7, <1>8, <1>12, <2>1, <2>3 DEF Ledger, contractVars
  <1>. QED  BY <1>9, <1>10, <1>11, <1>12, MineCases DEF e

\* Every step keeps the accounts.
LEMMA MoneyStep ==
    ASSUME StateOK, QueueOK, AnswersOK, MoneyOK, [Next]_vars
    PROVE  MoneyOK'
  <1>0. /\ \A c \in Clients : Quiet(c) => Ledger(c)
        /\ call \in [Clients -> Calls] /\ before \in [Clients -> View \cup {Disturbed}]
        /\ began \in [Clients -> 1 .. MaxCycle] /\ done \in [Clients -> BOOLEAN]
        /\ todo \in [Clients -> Seq(Steps)] /\ known \in [Clients -> Nat]
        /\ receipt \in [Clients -> Receipts] /\ answer \in [Clients -> Answers]
    BY DEF MoneyOK, StateOK, TypeOK
  <1>1. StateOK' /\ AnswersOK'
    BY StateStep, AnswersStep
  <1>2. ASSUME NEW c \in Clients, NEW m \in CallsOf[c], Begin(c, m)
        PROVE  MoneyOK'
    <2>1. m \in Calls
      BY CallsAssumption
    <2>2. Quiet(c)' => Ledger(c)'
      BY <1>1, <1>2, <2>1, LedgerOfBegin
    <2>3. ASSUME NEW d \in Clients \ {c}, Quiet(d)'
          PROVE  Ledger(d)'
      <3>1. /\ call'[d] = call[d] /\ todo'[d] = todo[d] /\ known'[d] = known[d]
            /\ receipt'[d] = receipt[d] /\ answer'[d] = answer[d] /\ done'[d] = done[d]
            /\ before'[d] = before[d] /\ setting' = setting /\ allowance' = allowance /\ bal' = bal
        BY <1>0, <1>2 DEF Begin, contractVars
      <3>. QED  BY <1>0, <2>3, <3>1, LedgerOfOthers
    <2>. QED  BY <2>2, <2>3 DEF MoneyOK
  <1>3. ASSUME NEW c \in Clients, ClientStep(c)
        PROVE  MoneyOK'
    <2>1. /\ UNCHANGED <<setting, allowance, bal, before, done, call>>
          /\ \A d \in Clients \ {c} :
                /\ todo'[d] = todo[d] /\ known'[d] = known[d]
                /\ answer'[d] = answer[d] /\ receipt'[d] = receipt[d]
      BY <1>3, ClientFrame DEF contractVars, history
    <2>2. Quiet(c)' => Quiet(c)
      BY <2>1 DEF Quiet, Fits
    <2>3. Quiet(c)' => Ledger(c)'
      BY <1>0, <1>1, <1>3, <2>2, LedgerOfClient
    <2>4. ASSUME NEW d \in Clients \ {c}, Quiet(d)'
          PROVE  Ledger(d)'
      BY <1>0, <2>1, <2>4, LedgerOfOthers
    <2>. QED  BY <2>3, <2>4 DEF MoneyOK
  \* What the chain does to a call that is not its own disturbs it or leaves it alone.
  <1>4. ASSUME NEW by, Watch(by), NEW d \in Clients \ {by}, Quiet(d)',
               call'[d] = call[d], todo'[d] = todo[d], known'[d] = known[d],
               receipt'[d] = receipt[d], answer'[d] = answer[d], done'[d] = done[d]
        PROVE  Ledger(d)'
    <2>1. before'[d] = IF <<setting, Now(d)>>' # <<setting, Now(d)>> THEN Disturbed ELSE before[d]
      BY <1>4 DEF Watch
    <2>2. \/ before'[d] = Disturbed
          \/ /\ before'[d] = before[d] /\ setting' = setting
             /\ allowance'[AccountOf[d]] = allowance[AccountOf[d]] /\ bal'[AccountOf[d]] = bal[AccountOf[d]]
      BY <2>1 DEF Now
    <2>. QED  BY <1>0, <1>4, <2>2, LedgerOfOthers
  <1>5. ASSUME NEW a \in Accounts, MineApprove(a) \/ MineAccepted(a) \/ MineUnpaid(a) \/ MineRefused(a)
        PROVE  MoneyOK'
    <2>. DEFINE e == Head(queue[a])
    <2>1. PICK status \in Receipts \ {"none"} : queue[a] # <<>> /\ Settle(a, status)
      BY <1>5, MineCases DEF Receipts
    <2>2. ASSUME NEW d \in Clients, d # e.by, Quiet(d)'
          PROVE  Ledger(d)'
      <3>1. Watch(e.by) /\ UNCHANGED <<call, todo, known, answer>>
        BY <2>1 DEF Settle
      <3>2. receipt'[d] = receipt[d] /\ (done'[d] <=> done[d])
        BY <2>1, <2>2, SettleEffect
      <3>3. done'[d] \in BOOLEAN /\ done[d] \in BOOLEAN
        BY <1>0, <1>1 DEF StateOK, TypeOK
      <3>4. done'[d] = done[d]
        BY <3>2, <3>3
      <3>. QED  BY <1>4, <2>2, <3>1, <3>2, <3>4
    <2>3. ASSUME NEW d \in Clients, d = e.by, Quiet(d)'
          PROVE  Ledger(d)'
      BY <1>0, <1>5, <2>3, LedgerOfMine
    <2>. QED  BY <2>2, <2>3 DEF MoneyOK
  <1>6. CASE \/ \E d \in Deeds : Elsewhere(d[1], d[2])
             \/ \E c \in Clients : Penalized(AccountOf[c])
    <2>1. Watch(Nobody) /\ UNCHANGED <<call, todo, known, receipt, answer, done>>
      BY <1>6, AsideEffect DEF clientVars
    <2>. QED  BY <1>4, <2>1, NobodyAssumption DEF MoneyOK
  <1>7. CASE UNCHANGED vars
    <2>1. UNCHANGED <<setting, allowance, bal, before, done, call, todo, known, receipt, answer>>
      BY <1>7 DEF vars, contractVars, clientVars, history
    <2>2. ASSUME NEW d \in Clients, Quiet(d)'
          PROVE  Ledger(d)'
      BY <1>0, <2>1, <2>2, LedgerOfOthers
    <2>. QED  BY <2>2 DEF MoneyOK
  <1>. QED  BY <1>2, <1>3, <1>5, <1>6, <1>7, NextCases DEF ClientStep

\* A transaction is refused for want of an allowance only if somebody moved the
\* setting, the pledge or the allowance after the call began.
THEOREM UnpaidIsDisturbed == Spec => []UnpaidWasDisturbed
  <1>. DEFINE Inv == StateOK /\ QueueOK /\ AnswersOK /\ MoneyOK
  <1>1. Inv /\ [Next]_vars => Inv'
    BY StateStep, QueueStep, AnswersStep, MoneyStep
  <1>2. Init => Inv
    BY InitState, InitRest
  <1>3. Inv => UnpaidWasDisturbed
    BY DEF MoneyOK, Quiet, Ledger, UnpaidWasDisturbed
  <1>. QED  BY <1>1, <1>2, <1>3, PTL DEF Spec

\* A nil of a call that nobody disturbed is exact: the account has pledged what the
\* method costs, and what it approved is used up.
THEOREM QuietCallIsExact == Spec => []QuietCallPaysExactly
  <1>. DEFINE Inv == StateOK /\ QueueOK /\ AnswersOK /\ MoneyOK
  <1>1. Inv /\ [Next]_vars => Inv'
    BY StateStep, QueueStep, AnswersStep, MoneyStep
  <1>2. Init => Inv
    BY InitState, InitRest
  <1>3. Inv => QuietCallPaysExactly
    <2>. SUFFICES ASSUME MoneyOK, NEW c \in Clients, answer[c] = "ok", Quiet(c)
                  PROVE  Paid(c)
      BY DEF QuietCallPaysExactly, Quiet, Paid
    <2>. QED  BY DEF MoneyOK, Ledger
  <1>. QED  BY <1>1, <1>2, <1>3, PTL DEF Spec
=============================================================================
