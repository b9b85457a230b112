---------------------------- MODULE MCSnapshotView ----------------------------
(* All manifests of up to two entries two names deep, and two that have a     *)
(* file three names deep.                                                     *)
EXTENDS SnapshotView

Entry(p, k) == [path |-> p, kind |-> k]

Shallow == {Entry(p, k) : p \in {<<"a">>, <<"b">>, <<"a", "a">>, <<"a", "b">>}, k \in Kinds}

Small ==
    {f \in UNION {[1..n -> Shallow] : n \in 0..2} :
        \A i, j \in DOMAIN f : f[i].path = f[j].path => i = j}
    \cup
    {<<Entry(<<"a", "b", "a">>, "file"), Entry(<<"a", "b">>, "dir"), Entry(<<"a">>, "dir")>>,
     <<Entry(<<"a">>, "dir"), Entry(<<"a", "b">>, "link"), Entry(<<"a", "a">>, "file")>>,
     <<Entry(<<"a">>, "dir"), Entry(<<"a", "b", "a">>, "link")>>}
=============================================================================
