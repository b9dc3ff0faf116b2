-------------------------- MODULE MCMfileResolver --------------------------
(* Instances of MfileResolver for TLC. *)
EXTENDS MfileResolver

CONSTANTS f1, alice, bob, odd

mcMemos == {alice, bob, odd}
mcParsable == {alice, bob}
mcBuyers == {bob, odd}
mcFtypes == {0, 1}
mcPrices == {1, 3, 5}
mcKeywords == {<<"movie">>}

Register(p) == [kind |-> "registerFile", did |-> f1, by |-> alice, encode |-> "mid",
                ftype |-> 0, price |-> p, keywords |-> <<"movie">>]
HandTo(m, n) == [kind |-> "changeController", did |-> f1, by |-> m, controller |-> n]
Publish(m) == [kind |-> "changeFtype", did |-> f1, by |-> m, ftype |-> 1]
Price(m, p) == [kind |-> "changePrice", did |-> f1, by |-> m, price |-> p]
Grant(m, r) == [kind |-> "grantRead", did |-> f1, by |-> m, reader |-> r]
Revoke(m, r) == [kind |-> "deactivateRead", did |-> f1, by |-> m, reader |-> r]
Close(m) == [kind |-> "deactivateFile", did |-> f1, by |-> m]

\* alice registers a file, grants and revokes bob's permission, publishes the file, or
\* hands it to bob, who changes the price.  bob may also buy a permission, and so may
\* odd, whose name does not parse.  5 does not fit the document's integer, which ends
\* at 3 here.
FileRequests ==
    {Register(1), Grant(alice, bob), Revoke(alice, bob), Publish(alice), Close(alice),
     HandTo(alice, bob), HandTo(bob, alice), Price(bob, 3), Price(alice, 5)}
=============================================================================
