--------------------------- MODULE MCMemoResolver ---------------------------
(* Instances of MemoResolver for TLC. *)
EXTENDS MemoResolver

CONSTANTS d1, d2, k1, k2

mcKeys == {k1, k2}
mcMTypes == {"EcdsaSecp256k1VerificationKey2019"}
EcdsaType == "EcdsaSecp256k1VerificationKey2019"

Url(d, i) == DIDUrl(d, i)

\* What DIDUrl writes; key-01, another name of key-1; and key-00, another name of
\* the master key, a number too long for an int and a word that is not supported.
LoginFragments == {MasterKey, Key(0, 1), Key(1, 1)}
OddFragments == {MasterKey, Key(2, 0), Key(0, 4), Word("unsupported")}

Create(d, k) == [kind |-> "createDID", did |-> d, mtype |-> EcdsaType, key |-> k]
Add(d, k) == [kind |-> "addVeri", did |-> d, mtype |-> EcdsaType, key |-> k]
Update(d, i, k) == [kind |-> "updateVeri", did |-> d, index |-> i, mtype |-> EcdsaType, key |-> k]
Disable(d, i) == [kind |-> "deactivateVeri", did |-> d, index |-> i]
Relate(d, r, u, t) == [kind |-> "addRelation", did |-> d, relation |-> r, url |-> u, expiry |-> t]
Unrelate(d, r, u) == [kind |-> "removeRelation", did |-> d, relation |-> r, url |-> u]
Close(d) == [kind |-> "deactivateDID", did |-> d]

\* One DID with two keys: the second comes and goes as an authentication method,
\* and the master key is added as one too.
OneDid == {d1}
LoginRequests ==
    {Create(d1, k1), Add(d1, k2), Disable(d1, 1),
     Relate(d1, "authentication", Url(d1, 1), 0),
     Unrelate(d1, "authentication", Url(d1, 1)), Close(d1),
     Relate(d1, "authentication", [did |-> d1, fragment |-> Key(1, 1)], 0),
     Relate(d1, "authentication", Url(d1, 0), 0)}

\* A delegation to the key of another DID, which expires or has an expiry time that
\* does not fit an int64, is taken back and given again, while the other DID
\* rotates the key or deactivates the method.
TwoDids == {d1, d2}
DelegationRequests ==
    {Create(d1, k1), Create(d2, k1),
     Relate(d1, "delegation", Url(d2, 0), 2), Relate(d1, "delegation", Url(d2, 0), -1),
     Unrelate(d1, "delegation", Url(d2, 0)),
     Update(d2, 0, k2), Disable(d2, 0)}

\* The master key in and out of authentication.
MasterRequests ==
    {Create(d1, k1), Relate(d1, "authentication", Url(d1, 0), 0),
     Unrelate(d1, "authentication", Url(d1, 0)), Close(d1)}

\* The proxy access authentication method of README.md.
ProxyRequests == {Create(d1, k1), Relate(d1, "delegation", Url(d1, 0), 0)}

\* The smallest widths that keep the time apart from what is cut: -1 is packed into
\* 15, which is -1 again as an int64.
mcExpiries == {0, 2, -1}
=============================================================================
