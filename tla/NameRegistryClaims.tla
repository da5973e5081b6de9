------------------------- MODULE NameRegistryClaims -------------------------
(* Sentences of the documents that the registration of names does not keep. *)
EXTENDS NameRegistry

\* query.proto:36: "NamesByDestination queries all names pointing to a destination address".
\* The index still finds a burnt name under the destination it had, and one registered anew.
NamesPointThere == \A p \in names : uri[p[2]] = p[1]

\* The same sentence, the other way round: a name of the authority or of the class's admin
\* points somewhere and is not found there.
AllNamesAreFound == \A n \in Names : Found(n)

\* msg_set_name_destination.go:65: "A chain of 10 names total (source + 9 intermediate) is the
\* maximum allowed"; 10 is HopLimit + 1.  The longest chain accepted has HopLimit names.
LongestChainIsAccepted ==
    \A n \in Names : \A p \in Paths(n, HopLimit) :
        (uri[p[HopLimit]] \in Accounts) =>
            \A m \in Names : Exists(m) /\ (\A i \in 1..HopLimit : p[i] # m) => ChainEnds(m, n)

=============================================================================
