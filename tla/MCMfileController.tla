------------------------- MODULE MCMfileController -------------------------
(* Instances of MfileController for TLC. *)
EXTENDS MfileController, TLC

CONSTANTS f1, alice, bob

mcMemos == {alice, bob}
mcFtypes == {0, 1}
mcPrices == {1, 2}
mcKeywords == {<<"movie">>, <<"movie", "china">>}

Register(m) == [kind |-> "registerFile", did |-> f1, by |-> m, encode |-> "mid",
                ftype |-> 0, price |-> 1, keywords |-> <<"movie">>]
HandTo(m, n) == [kind |-> "changeController", did |-> f1, by |-> m, controller |-> n]
Grant(m, r) == [kind |-> "grantRead", did |-> f1, by |-> m, reader |-> r]
Revoke(m, r) == [kind |-> "deactivateRead", did |-> f1, by |-> m, reader |-> r]
Publish(m) == [kind |-> "changeFtype", did |-> f1, by |-> m, ftype |-> 1]
Price(m) == [kind |-> "changePrice", did |-> f1, by |-> m, price |-> 2]
Words(m) == [kind |-> "changeKeywords", did |-> f1, by |-> m, keywords |-> <<"movie", "china">>]
Close(m) == [kind |-> "deactivateFile", did |-> f1, by |-> m]

\* Read permissions come and go.
ReadRequests == {Register(alice), Grant(alice, bob), Revoke(alice, bob)}

\* Every kind of request, on one file.
AllRequests ==
    {Register(alice), HandTo(alice, bob), HandTo(bob, alice), Publish(bob), Price(bob), Words(alice),
     Grant(alice, bob), Revoke(alice, bob), Close(bob)}

\* The callers are interchangeable.
CallerSymmetry == Permutations(Callers)
=============================================================================
