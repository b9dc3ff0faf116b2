------------------------- MODULE FileProofContracts -------------------------
(***************************************************************************)
(* The contracts behind ProofInstance (file proof, pledge, ERC20 token,    *)
(* auth), which are not part of the repository: modelled from how          *)
(* src/file-proof/proof.go uses them.  A method that costs something takes *)
(* it out of an allowance the account has given to the pledge or to the    *)
(* proof contract with ERC20 Approve, which replaces the one before.       *)
(*                                                                         *)
(* Only conditions the client knows of are stated.  A contract may refuse  *)
(* a transaction for other reasons (time windows, token balances, a proof  *)
(* of an element that does not verify), so a refusal is always possible.   *)
(***************************************************************************)
EXTENDS Integers, FiniteSetsExt

CONSTANTS
    Accounts,       \* the accounts that take part
    Submitters,     \* those that are submitters at first
    Settings,       \* the possible settings
    FirstSetting,
    MaxCycle,       \* bound: proof cycles in a behaviour
    MaxAlter,       \* bound: alterations of the setting in a behaviour
    FirstBals,      \* what accounts may have pledged at first
    FirstProofs     \* the proofs of the first cycle at first

Setting == [price : Nat, subPledge : Nat, chalPledge : Nat]

Proof == [who : Accounts, cycle : Nat, point : Nat]

ASSUME SubmittersAssumption == Submitters \subseteq Accounts
ASSUME SettingsAssumption == FirstSetting \in Settings /\ Settings \subseteq Setting
ASSUME CyclesAssumption == MaxCycle \in Nat \ {0}
ASSUME BoundsAssumption == MaxAlter \in Nat /\ FirstBals \subseteq Nat
ASSUME FirstProofsAssumption == FirstProofs \subseteq Proof /\ \A p \in FirstProofs : p.cycle = 1

VARIABLES
    setting,        \* GetSettingInfo
    authNonce,      \* the nonce of the auth contract, which AlterSetting uses up
    allowance,      \* allowance[a][s]: what contract s may still take from a
    bal,            \* bal[a]: what a has pledged (Bal)
    submitters,     \* who called BeSubmitter (IsSubmitter)
    cycle,          \* the current cycle, which Rnd and Last identify
    proofs,         \* SubmitProof events: who proved, in which cycle, at which point
    challenge,      \* challenge[s]: the state of the challenge of s's last proof
    results         \* ChallengeRes events

contractVars ==
    <<setting, authNonce, allowance, bal, submitters, cycle, proofs, challenge, results>>

Spenders == {"pledge", "proof"}

\* Status 0, between 1 and 10, and 11.
ChallengeStatus == {"none", "open", "done"}

Verdict == [who : Accounts, cycle : Nat, won : BOOLEAN]

ContractTypeOK ==
    /\ setting \in Settings
    /\ authNonce \in Nat
    /\ allowance \in [Accounts -> [Spenders -> Nat]]
    /\ bal \in [Accounts -> Nat]
    /\ submitters \subseteq Accounts
    /\ cycle \in 1 .. MaxCycle
    /\ proofs \subseteq Proof
    /\ challenge \in [Accounts -> ChallengeStatus]
    /\ results \subseteq Verdict

ContractInit ==
    /\ setting = FirstSetting
    /\ authNonce = 0
    /\ allowance = [a \in Accounts |-> [s \in Spenders |-> 0]]
    /\ bal \in [Accounts -> FirstBals]
    /\ submitters = Submitters
    /\ cycle = 1
    /\ proofs = FirstProofs
    /\ challenge = [a \in Accounts |-> "none"]
    /\ results = {}

-----------------------------------------------------------------------------
(* What a method costs, and who takes it.                                  *)

Shortfall(wanted, got) == IF got < wanted THEN wanted - got ELSE 0

Spender(call) == IF call.kind = "AddFile" THEN "proof" ELSE "pledge"

Challenging == {"ChallengePn", "ChallengeCn"}

\* How long a file is kept.  A span that ends before it starts costs nothing, if
\* the contract accepts it at all.
Span(call) == Shortfall(call.span, 0)

\* The charge for an account that has pledged p.
Charge(call, p) ==
    CASE call.kind = "AddFile" -> setting.price * call.size * Span(call)
      [] call.kind = "Pledge" -> call.amount
      [] call.kind = "BeSubmitter" -> setting.subPledge
      [] call.kind = "SubmitAggregationProof" -> Shortfall(setting.subPledge, p)
      [] call.kind \in Challenging -> Shortfall(setting.chalPledge, p)
      [] OTHER -> 0

Payable(a, call) == Charge(call, bal[a]) <= allowance[a][Spender(call)]

HasProof(a) == \E p \in proofs : p.who = a /\ p.cycle = cycle

\* The conditions of the methods that their use shows.
Admissible(a, call) ==
    /\ call.kind = "BeSubmitter" => a \notin submitters
    /\ call.kind = "SubmitAggregationProof" => a \in submitters /\ ~ HasProof(a)
    /\ call.kind \in Challenging =>
           call.submitter # a /\ HasProof(call.submitter) /\ challenge[call.submitter] # "done"
    /\ call.kind = "ResponseChallenge" => challenge[a] = "open"
    /\ call.kind = "EndChallenge" => challenge[call.submitter] = "open"
    /\ call.kind = "AlterSetting" => call.nonce = authNonce /\ authNonce < MaxAlter
    /\ call.kind = "GenerateRnd" => cycle < MaxCycle

\* The cycle of the last proof of s.
LastProved(s) == Max({p.cycle : p \in {q \in proofs : q.who = s}})

-----------------------------------------------------------------------------
(* What a method does.                                                     *)

\* Approve of the token contract.
SetAllowance(a, s, amount) ==
    /\ allowance' = [allowance EXCEPT ![a][s] = amount]
    /\ UNCHANGED <<setting, authNonce, bal, submitters, cycle, proofs, challenge, results>>

\* The charge leaves the allowance; for all but AddFile it becomes a pledge.
Pay(a, call) ==
    /\ allowance' = [allowance EXCEPT ![a][Spender(call)] = @ - Charge(call, bal[a])]
    /\ bal' = [bal EXCEPT ![a] = CASE call.kind = "AddFile" -> @
                                   [] call.kind = "Withdraw" -> 0
                                   [] OTHER -> @ + Charge(call, @)]

\* The challenge of s goes on, or it ends with a verdict on its last proof.
GoesOn(s) == challenge' = [challenge EXCEPT ![s] = "open"] /\ UNCHANGED results

Ends(s, won) ==
    /\ challenge' = [challenge EXCEPT ![s] = "done"]
    /\ results' = results \cup {[who |-> s, cycle |-> LastProved(s), won |-> won]}

Contest(a, call) ==
    CASE call.kind = "SubmitAggregationProof" ->
             challenge' = [challenge EXCEPT ![a] = "none"] /\ UNCHANGED results
      [] call.kind = "ChallengePn" -> \E won \in BOOLEAN : Ends(call.submitter, won)
      [] call.kind = "ChallengeCn" -> GoesOn(call.submitter)
      [] call.kind = "ResponseChallenge" -> GoesOn(a) \/ \E won \in BOOLEAN : Ends(a, won)
      [] call.kind = "EndChallenge" -> Ends(call.submitter, FALSE)
      [] OTHER -> UNCHANGED <<challenge, results>>

\* What an accepted method does besides the payment.
Perform(a, call) ==
    /\ Contest(a, call)
    /\ proofs' = IF call.kind = "SubmitAggregationProof"
                 THEN proofs \cup {[who |-> a, cycle |-> cycle, point |-> call.point]}
                 ELSE proofs
    /\ submitters' = IF call.kind = "BeSubmitter" THEN submitters \cup {a} ELSE submitters
    /\ cycle' = IF call.kind = "GenerateRnd" THEN cycle + 1 ELSE cycle
    /\ IF call.kind = "AlterSetting"
       THEN setting' = call.setting /\ authNonce' = authNonce + 1
       ELSE UNCHANGED <<setting, authNonce>>

\* An accepted transaction of account a.
Execute(a, call) == Pay(a, call) /\ Perform(a, call)

\* The loser of a challenge is penalized by a part of its pledge.
Penalize(a) ==
    /\ \E rest \in 0 .. bal[a] - 1 : bal' = [bal EXCEPT ![a] = rest]
    /\ UNCHANGED <<setting, authNonce, allowance, submitters, cycle, proofs, challenge, results>>
=============================================================================
