-------------------------- MODULE MCMemoController --------------------------
(* Instances of MemoController for TLC. *)
EXTENDS MemoController, TLC

CONSTANTS d1, d2, k1, k2

mcDids == {d1, d2}
mcKeys == {k1, k2}

Supported == "EcdsaSecp256k1VerificationKey2019"
Unsupported == "RsaVerificationKey2018"
mcMTypes == {Supported, Unsupported}

mcFragments == {MasterKey, Key(0, 1), Word("recovery")}
Url(d, i) == DIDUrl(d, i)

Create(d, k) == [kind |-> "createDID", did |-> d, mtype |-> Supported, key |-> k]
Add(d, t) == [kind |-> "addVeri", did |-> d, mtype |-> t, key |-> k2]
Update(d, i, k) == [kind |-> "updateVeri", did |-> d, index |-> i, mtype |-> Supported, key |-> k]
UpdateTo(d, i, t) == [kind |-> "updateVeri", did |-> d, index |-> i, mtype |-> t, key |-> k2]
Disable(d, i) == [kind |-> "deactivateVeri", did |-> d, index |-> i]
RelateUntil(d, r, u, t) ==
    [kind |-> "addRelation", did |-> d, relation |-> r, url |-> u, expiry |-> t]
Relate(d, r, u) == RelateUntil(d, r, u, 1)
Unrelate(d, r, u) == [kind |-> "removeRelation", did |-> d, relation |-> r, url |-> u]
Close(d) == [kind |-> "deactivateDID", did |-> d]

\* Two callers race on one DID: both create it, grant and revoke a relation and
\* deactivate it.
RaceRequests ==
    {Create(d1, k1),
     Relate(d1, "authentication", Url(d1, 0)), Unrelate(d1, "authentication", Url(d1, 0)),
     Close(d1)}

\* Every kind of request, on two DIDs, with arguments the controller refuses,
\* a URL that is not of a method, a relation to the other DID's method and an
\* expiry time before 1970.
AllRequests ==
    {Create(d1, k1), Create(d2, k1), Add(d1, Supported), Add(d1, Unsupported),
     UpdateTo(d1, 0, Unsupported), Update(d1, 1, k1), Disable(d1, 0), Disable(d1, -1),
     Relate(d1, "authentication", Url(d1, 0)),
     Relate(d1, "delegation", Url(d2, 0)), RelateUntil(d1, "delegation", Url(d2, 0), -1),
     Unrelate(d1, "delegation", Url(d2, 0)),
     Close(d1)}

mcExpiries == {1, -1}

\* The callers are interchangeable.
CallerSymmetry == Permutations(Callers)
=============================================================================
