------------------------------- MODULE DidUrls -------------------------------
(***************************************************************************)
(* The fragments of memo DID URLs (src/types/memo_did.go): which of them   *)
(* ParseMemoDIDUrl takes, which verification method they mean, and which   *)
(* one DIDUrl writes.                                                      *)
(*                                                                         *)
(* A fragment is a word or "key-" and digits.  Digits are some zeros and   *)
(* the numeral of a number, which is empty for 0: every string of digits   *)
(* is exactly one such pair ("0" is one zero and 0, "" none and 0).        *)
(***************************************************************************)
EXTENDS Integers

CONSTANT IntLimit   \* the first number Atoi does not parse (2^63 in the code)

ASSUME IntLimitAssumption == IntLimit \in Nat \ {0}

supportFragment == {"authentication", "assertion", "delegation", "recovery", "masterKey"}

Word(w) == [form |-> "word", word |-> w]
Key(zeros, number) == [form |-> "key", zeros |-> zeros, number |-> number]

\* "unsupported" stands for all the words that are not supported.
Fragment ==
    [form : {"word"}, word : supportFragment \cup {"unsupported"}]
        \cup [form : {"key"}, zeros : Nat, number : Nat]

MasterKey == Word("masterKey")

\* Only "" and "0" are refused: "00" is taken for a positive number.
isNotPositiveNumber(f) == f.number = 0 /\ f.zeros <= 1

\* Whether the fragment is accepted.
ParseMemoDIDUrl(f) ==
    \/ f.form = "word" /\ f.word \in supportFragment
    \/ f.form = "key" /\ ~ isNotPositiveNumber(f)

\* Faulty variant of GetMethodIndex: what Atoi does not parse is the master key.
GetMethodIndexOrMaster(f) ==
    IF f.form = "key" /\ f.number < IntLimit THEN f.number ELSE 0

\* The index of the verification method, -1 for none.
GetMethodIndex(f) ==
    IF f = MasterKey THEN 0
    ELSE IF f.form = "key" /\ f.number < IntLimit THEN f.number
    ELSE -1

\* The URL the SDK writes for method i of d.
DIDUrl(d, i) == [did |-> d, fragment |-> IF i = 0 THEN MasterKey ELSE Key(0, i)]
=============================================================================
