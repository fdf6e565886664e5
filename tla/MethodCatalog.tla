---------------------------- MODULE MethodCatalog ----------------------------
(***************************************************************************)
(* The built-in catalog of methods (pkg/omnisdk): a method is a leaf, one  *)
(* plan built from the caller's parameters and one provider's credentials, *)
(* or a composite of other methods, whose plans are read as one cursor.    *)
(* buildPlans descends the composites; every row is stamped with the       *)
(* declared inputs (echoParams), as the published schema says (withParams).*)
(***************************************************************************)
EXTENDS Naturals, Sequences, FiniteSets, SequencesExt

CONSTANTS Callable,      \* the calls made: sequences of method names, one (New) or more (NewMerged)
          Scopes,        \* the sets of parameters a caller gives
          Keys,          \* the sets of providers a caller gives credentials for
          Generated      \* composites beyond the hand-authored ones, as name |-> sequence of members

VARIABLES call,          \* what was asked: [paths, given, keys]
          todo,          \* the descent: a stack of [m, args, seen]
          plans,         \* plans built: [m, args, cred]
          result         \* "building", "ready" or "refused"

vars == <<call, todo, plans, result>>

----------------------------------------------------------------------------
(* The table.  reads are the parameters a build uses, service whose API it calls. *)

Leaf(required, optional, one, cols, provider, service, reads) ==
    [required |-> required, optional |-> optional, one |-> one, cols |-> cols, provider |-> provider,
     service |-> service, reads |-> reads, members |-> <<>>]
Composite(required, optional, one, cols, members) ==
    [required |-> required, optional |-> optional, one |-> one, cols |-> cols, provider |-> "",
     service |-> "", reads |-> {}, members |-> members]

Blob == {"provider", "name", "encryption", "public"}
Principal == {"provider", "principal", "scope", "grant"}
GoogleScope == {"google_project", "google_org"}
Aws(cols) == Leaf({"region"}, {}, {}, cols, "aws", "aws", {"region"})
Azure(cols) == Leaf({}, {}, {}, cols, "azure", "azure", {})

BlobMethods ==
    [aws_s3_buckets_list |-> Aws(Blob),
     azure_storage_containers_list |-> Azure(Blob),
     google_storage_buckets_list |->
        Leaf({}, {"project", "org", "grpc_target", "grpc_plaintext"}, {GoogleScope}, Blob, "google", "google",
             GoogleScope \cup {"grpc_target", "grpc_plaintext"}),
     omni_storage_buckets_list |->
        Composite({"region"}, GoogleScope, {GoogleScope}, Blob,
                  <<"aws_s3_buckets_list", "azure_storage_containers_list", "google_storage_buckets_list">>)]

PrincipalMethods ==
    [aws_iam_principals_list |-> Aws(Principal),
     entra_identities_list |-> Azure(Principal),
     gcp_iam_principals_list |-> Leaf({}, GoogleScope, {GoogleScope}, Principal, "aws", "google", GoogleScope),
     omni_iam_principals_list |->
        Composite({"region"}, GoogleScope, {GoogleScope}, Principal,
                  <<"aws_iam_principals_list", "entra_identities_list", "gcp_iam_principals_list">>)]

AccessMethods ==
    [aws_iam_principals_access |-> Aws(Principal),
     entra_identities_access |-> Azure(Principal),
     omni_iam_principals_access |->
        Composite({"region"}, GoogleScope, {GoogleScope}, Principal,
                  <<"aws_iam_principals_access", "entra_identities_access", "gcp_iam_principals_list">>)]

NetworkMethods ==
    [aws_s3_buckets_enumerate |-> Aws({"name", "created"}),
     aws_ec2_networks_provision |->
        Leaf({"region", "vpc_cidr", "subnet_cidr"}, {}, {}, {"vpc_id", "subnet_id"}, "aws", "aws",
             {"region", "vpc_cidr", "subnet_cidr"}),
     gcp_compute_networks_provision |->
        Leaf({"project"}, {"region"}, {}, {"vpc_id", "subnet_id"}, "azure", "google", {"project", "region"}),
     azure_network_subnets_list |-> Azure({"subnet_id"})]

methods == BlobMethods @@ PrincipalMethods @@ AccessMethods @@ NetworkMethods
           @@ [n \in DOMAIN Generated |-> Composite({}, {"region"} \cup GoogleScope, {}, Blob, Generated[n])]

Params(m) == methods[m].required \cup methods[m].optional

----------------------------------------------------------------------------
(* Building. *)

\* Required parameters, and exactly one of each group.
satisfied(m, given) ==
    /\ methods[m].required \subseteq given
    /\ \A group \in methods[m].one : Cardinality(group \cap given) = 1

fit(t) == t.m \in DOMAIN methods /\ t.m \notin ToSet(t.seen) /\ satisfied(t.m, t.args)

\* A composite hands its legs only its own declared parameters.
memberArgs(given, m) == given \cap Params(m)

\* The credential a build reads: the caller's for the provider the method names, else the environment's.
withCredential(keys, provider) == IF provider \in keys THEN provider ELSE "env"

Init ==
    /\ \E paths \in Callable, given \in Scopes, keys \in Keys :
         /\ call = [paths |-> paths, given |-> given, keys |-> keys]
         /\ todo = [i \in DOMAIN paths |-> [m |-> paths[i], args |-> given, seen |-> <<>>]]
    /\ plans = <<>> /\ result = "building"

Refuse == result' = "refused" /\ plans' = <<>> /\ todo' = <<>> /\ UNCHANGED call

\* The members of a composite, each below the composites on its own way down.
descended(t) == [i \in DOMAIN methods[t.m].members |->
    [m |-> methods[t.m].members[i], args |-> memberArgs(t.args, t.m), seen |-> Append(t.seen, t.m)]]

buildPlans ==
    /\ result = "building" /\ todo # <<>>
    /\ LET t == Head(todo)
       IN  \/ ~fit(t) /\ Refuse
           \/ /\ fit(t)
              /\ \/ /\ methods[t.m].members = <<>>
                    /\ plans' = Append(plans, [m |-> t.m, args |-> t.args,
                                               cred |-> withCredential(call.keys, methods[t.m].provider)])
                    /\ todo' = Tail(todo)
                 \/ /\ methods[t.m].members # <<>>
                    /\ todo' = descended(t) \o Tail(todo)
                    /\ UNCHANGED plans
              /\ UNCHANGED <<call, result>>

Ready == result = "building" /\ todo = <<>> /\ result' = "ready" /\ UNCHANGED <<call, todo, plans>>

Done == result # "building" /\ UNCHANGED vars
Next == buildPlans \/ Ready \/ Done
Spec == Init /\ [][Next]_vars /\ WF_vars(buildPlans \/ Ready)

----------------------------------------------------------------------------
(* Rows. *)

unionParams == UNION {Params(p) : p \in ToSet(call.paths)}

\* Declared inputs as they were given; one that was not is null.
echoParams == [n \in unionParams |-> IF n \in call.given THEN "given" ELSE "null"]

\* A row of one plan: the provider's columns win.
Row(p) == [c \in methods[p.m].cols |-> "data"] @@ echoParams

\* The published schema of a method: its columns, and its inputs, null only where they are optional.
withParams(m) == [c \in methods[m].cols |-> {"data"}]
                 @@ [c \in methods[m].required |-> {"given"}] @@ [c \in methods[m].optional |-> {"given", "null"}]

----------------------------------------------------------------------------
(* What the catalog promises. *)

AllButLast(w) == SubSeq(w, 1, Len(w) - 1)
RECURSIVE Ways(_, _)
\* Every way down from a method, to the depth of the catalog; one that meets itself goes no further.
Ways(w, n) == {w} \cup
    IF n = 0 \/ Last(w) \notin DOMAIN methods \/ Last(w) \in ToSet(AllButLast(w)) THEN {}
    ELSE UNION {Ways(Append(w, methods[Last(w)].members[i]), n - 1) : i \in DOMAIN methods[Last(w)].members}

WaysDown == UNION {Ways(<<m>>, Cardinality(DOMAIN methods)) : m \in ToSet(call.paths)}
Arrives(w) == {n \in call.given : \A i \in 1 .. Len(w) - 1 : n \in Params(w[i])}
Broken(w) == \/ Last(w) \notin DOMAIN methods
             \/ Last(w) \in ToSet(AllButLast(w))
             \/ ~satisfied(Last(w), Arrives(w))
Legs == {w \in WaysDown : Last(w) \in DOMAIN methods /\ methods[Last(w)].members = <<>>}

Made(m, args) == Cardinality({i \in DOMAIN plans : plans[i].m = m /\ plans[i].args = args})

\* A call is refused exactly when some way down meets itself, an unknown method or an unmet parameter;
\* otherwise each way to a leaf is one plan, built from what the composites above it declare (buildPlans).
BuildsEveryLeg ==
    /\ result = "refused" => \E w \in WaysDown : Broken(w)
    /\ result = "ready" => /\ \A w \in WaysDown : ~Broken(w)
                           /\ \A w \in Legs : Made(Last(w), Arrives(w)) =
                                Cardinality({v \in Legs : Last(v) = Last(w) /\ Arrives(v) = Arrives(w)})
                           /\ Len(plans) = Cardinality(Legs)

\* A parameter that steers a leg's query is on every row: "an undeclared param cannot slip through to a
\* leg and quietly steer the query while the row's echoed scope columns say it was never supplied".
\* Called by itself, google.storage.buckets.list is the exception: it reads google_project and
\* google_org and declares project and org (omnisdk.go:758), so its rows have those, null.
ScopeIsEchoed ==
    result = "ready" => \A i \in DOMAIN plans : \A n \in plans[i].args \cap methods[plans[i].m].reads :
        \/ n \in DOMAIN echoParams /\ echoParams[n] = "given"
        \/ /\ "google_storage_buckets_list" \in ToSet(call.paths) /\ n \in GoogleScope
           /\ n \notin DOMAIN echoParams

\* Every row of a method has exactly the published columns, and null only where they allow it.
RowsMatchTheSchema ==
    result = "ready" /\ Len(call.paths) = 1 =>
        LET schema == withParams(call.paths[1])
        IN  \A i \in DOMAIN plans : /\ DOMAIN Row(plans[i]) = DOMAIN schema
                                    /\ \A c \in DOMAIN schema : Row(plans[i])[c] \in schema[c]

\* The methods whose entry in the table names another provider than the one they call
\* (omnisdk.go:863, 1004): of a composite they are legs of, too.
Misnamed == {"gcp_iam_principals_list", "gcp_compute_networks_provision"}

\* "provider is whose credentials a leaf method authenticates with" (omnisdk.go:641): a leg takes the
\* credential given for the service it calls and no other one's.  The two misnamed ones never do.
OwnCredential ==
    result = "ready" => \A i \in DOMAIN plans :
      IF plans[i].m \in Misnamed THEN plans[i].cred # methods[plans[i].m].service ELSE
        plans[i].cred \in {methods[plans[i].m].service, "env"}
        /\ (methods[plans[i].m].service \in call.keys => plans[i].cred # "env")

=============================================================================
