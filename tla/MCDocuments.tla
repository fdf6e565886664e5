---------------------------- MODULE MCDocuments ----------------------------
(***************************************************************************)
(* From a query or a desired state to requests: documents, the methods     *)
(* they declare, credentials, compilation, addressing, ownership and the   *)
(* caches, each on a small instance.  A behaviour is of one part, whose    *)
(* variables are s1, s2 and so on in the order it declares them.           *)
(***************************************************************************)
EXTENDS Integers, Sequences, FiniteSets, TLC

VARIABLES part, s1, s2, s3, s4, s5, s6, s7, s8, s9, s10, s11, s12, s13

vars == <<part, s1, s2, s3, s4, s5, s6, s7, s8, s9, s10, s11, s12, s13>>

\* Two names, declared and given in every way; bodies from every source.
Param(n, in, r) == [n |-> n, in |-> in, req |-> r, def |-> FALSE, list |-> FALSE]
Ways(n) == {{}} \cup {{Param(n, in, r)} : in \in {"query", "path", "header", "body"}, r \in BOOLEAN}
           \cup {{Param(n, in, TRUE), Param(n, "body", FALSE)} : in \in {"query", "path"}}
           \cup {{[Param(n, "header", FALSE) EXCEPT !.def = TRUE]}, {[Param(n, "query", TRUE) EXCEPT !.list = TRUE]}}
DeclaredWays == [a |-> Ways("a"), b |-> {{}} \cup {{Param("b", in, TRUE)} : in \in {"query", "path", "header", "body"}}]
GivenWays == [n \in {"a", "b"} |-> {"none", "input", "field", "slot"} \cup
                IF n = "a" THEN {"bound", "provided", "inbox"} ELSE {}]
Rest(alone, media, fixed, sent, fallback, base) ==
    [alone |-> alone, media |-> media, fixed |-> fixed, sent |-> sent, fallback |-> fallback, base |-> base,
     inputs |-> {"region"}, url |-> {"a"}]
SomeRequests == {Rest(FALSE, "none", FALSE, FALSE, FALSE, FALSE), Rest(FALSE, "json", FALSE, FALSE, FALSE, TRUE),
                 Rest(FALSE, "json", FALSE, TRUE, FALSE, FALSE), Rest(TRUE, "form", TRUE, FALSE, FALSE, FALSE),
                 Rest(TRUE, "json", FALSE, FALSE, TRUE, TRUE), Rest(FALSE, "json", TRUE, TRUE, FALSE, TRUE)}
SomeSecurity ==
    {[operation |-> o, provider |-> p, creds |-> c, noSign |-> FALSE, signer |-> FALSE] :
        <<o, p, c>> \in {<<"none", "none", {}>>, <<"none", "sigv4", {"sigv4"}>>, <<"oauth", "sigv4", {"sigv4"}>>,
                         <<"service_account", "none", {"service_account"}>>}}
    \cup {[operation |-> "sigv4", provider |-> "none", creds |-> {}, noSign |-> TRUE, signer |-> FALSE]}

\* One service under two keys, the preferred one without a document; one under its key.
Entry(k, n, f, p) == [key |-> k, name |-> n, file |-> f, preferred |-> p]
Listed == {Entry("ec2-v1", "ec2", "ec2", FALSE), Entry("ec2-v2", "ec2", "gone", TRUE), Entry("s3", "", "s3", FALSE)}
FileCost == [ec2 |-> 2, s3 |-> 1, gone |-> 1]

\* Every scheme but an API key, whose value is found as a bearer token's is, with and without a
\* method of the caller's own.
CredentialCalls ==
    {<<"service_account", "bearer">>, <<"service_account", "kubeconfig">>, <<"oci", "">>, <<"sigv4", "">>, <<"sigv4", "bearer">>, <<"oauth", "">>, <<"oauth", "bearer">>, <<"basic", "">>, <<"basic", "bearer">>,
     <<"bearer", "">>, <<"bearer", "kubeconfig">>, <<"oauth", "kubeconfig">>, <<"service_account", "">>, <<"oci", "oci">>}

\* The hand-authored methods, and generated composites: nested, sharing a leg, cyclic.
Composites == [g_nested |-> <<"g_pair", "azure_storage_containers_list">>,
               g_pair |-> <<"aws_s3_buckets_list", "azure_storage_containers_list">>,
               g_in |-> <<"azure_storage_containers_list", "g_loop">>, g_loop |-> <<"g_back">>, g_back |-> <<"g_loop">>,
               g_gone |-> <<"azure_storage_containers_list", "nope">>]
CatalogCalls ==
    {<<n>> : n \in {"aws_s3_buckets_list", "azure_storage_containers_list", "omni_storage_buckets_list",
                    "aws_iam_principals_list", "entra_identities_list", "aws_iam_principals_access",
                    "entra_identities_access", "aws_s3_buckets_enumerate", "aws_ec2_networks_provision",
                    "azure_network_subnets_list", "google_storage_buckets_list", "gcp_iam_principals_list",
                    "gcp_compute_networks_provision", "omni_iam_principals_list", "omni_iam_principals_access", "g_nested", "g_in", "g_loop", "g_back", "g_gone", "nope"}}
    \cup {<<"aws_s3_buckets_list", "omni_storage_buckets_list">>, <<"google_storage_buckets_list", "gcp_iam_principals_list">>,
          <<"g_nested", "g_pair">>, <<"g_pair", "g_loop">>}
CatalogScopes == SUBSET {"region", "google_project", "google_org", "grpc_target", "vpc_cidr"}
                 \cup {{"region", "vpc_cidr", "subnet_cidr"}, {"project"}, {"project", "google_project"}, {"project", "region"}}

\* Three readers of two keys, and a store with room for less than both.
RowKey == [r1 |-> "a", r2 |-> "a", r3 |-> "b"]

\* The cases the modules themselves list.
OwnSets == INSTANCE Ownership WITH
  Edits <- {}, Worlds <- {}, world <- s1, live <- s2, plan <- s3, asked <- s4,
  pc <- s5, mutation <- s6, chosen <- s7
OtherEdits == OwnSets!MCEdits
OwnWorlds == OwnSets!MCWorlds

EffectSets == INSTANCE DocEffect WITH
  Objects <- {}, Wraps <- {}, Betas <- {}, MaxAttempts <- 0, MaxCalls <- 0,
  remote <- s1, lro <- s2, making <- s3, beta <- s4, wrap <- s5, call <- s6,
  intent <- s7, ident <- s8, actual <- s9, calls <- s10
EffectObjects == EffectSets!MCObjects

QuerySets == INSTANCE Query WITH
  Cases <- {}, case <- s1, pc <- s2, r <- s3, todo <- s4, rows <- s5, ran <- s6, effects <- s7
QueryCases == QuerySets!MCCases

Qry == INSTANCE Query WITH
  Cases <- QueryCases, case <- s1, pc <- s2, r <- s3, todo <- s4, rows <- s5, ran <- s6,
  effects <- s7

Met == INSTANCE DocMethods WITH
  SQLVerbs <- {"select", "insert", "delete", "exec"}, MaxHops <- 8, bundle <- s1,
  answer <- s2

Req == INSTANCE DocRequest WITH
  Declared <- DeclaredWays, Given <- GivenWays, Requests <- SomeRequests,
  Security <- SomeSecurity, doc <- s1, opt <- s2, sec <- s3, req <- s4, wire <- s5

Cat == INSTANCE DocCatalog WITH
  Readers <- {"r1", "r2"}, Roots <- {"base"}, Versions <- {1, 2}, Entries <- Listed,
  Files <- {"ec2", "s3", "gone"}, Present <- {"ec2", "s3"}, Cost <- FileCost,
  Kinds <- {"operation"}, Budget <- 3, MaxEntries <- 2, TTL <- 1, MaxWrites <- 1,
  MaxAsks <- 2, MaxTime <- 2, Ticks <- TRUE, disk <- s1, installed <- s2, caches <- s3,
  now <- s4, asks <- s5, writes <- s6, rd <- s7

Gra == INSTANCE GraphCompile WITH
  Each <- 2, Lists <- 2, Cols <- [a |-> {"id"}, b |-> {"id", "q"}, c |-> {"id"}],
  Required <- [a |-> {}, b |-> {}, c |-> {"k"}], Auth <- {"a"}, g <- s1, pc <- s2,
  at <- s3, ix <- s4, specs <- s5, betas <- s6, inputs <- s7, rows <- s8, asks <- s9

Cre == INSTANCE Credentials WITH
  Calls <- CredentialCalls, Hows <- {"none", "inline", "var", "file"}, doc <- s1,
  caller <- s2, host <- s3, kube <- s4, phase <- s5, got <- s6, signer <- s7,
  reads <- s8

Mth == INSTANCE MethodCatalog WITH
  Callable <- CatalogCalls, Scopes <- CatalogScopes,
  Keys <- {{}, {"aws"}, {"google", "azure"}}, Generated <- Composites, call <- s1,
  todo <- s2, plans <- s3, result <- s4

Own == INSTANCE Ownership WITH
  Edits <- OtherEdits, Worlds <- OwnWorlds, world <- s1, live <- s2, plan <- s3,
  asked <- s4, pc <- s5, mutation <- s6, chosen <- s7

Adr == INSTANCE Addressing WITH
  MaxRuns <- 4, doc <- s1, parent <- s2, objects <- s3, entry <- s4, astray <- s5,
  last <- s6, runs <- s7

Eff == INSTANCE DocEffect WITH
  Objects <- EffectObjects, Wraps <- {"flat", "listed"}, Betas <- {TRUE, FALSE},
  MaxAttempts <- 2, MaxCalls <- 4, remote <- s1, lro <- s2, making <- s3, beta <- s4,
  wrap <- s5, call <- s6, intent <- s7, ident <- s8, actual <- s9, calls <- s10

Row == INSTANCE RowCache WITH
  Keys <- {"a", "b"}, Readers <- {"r1", "r2", "r3"}, KeyOf <- RowKey, NRows <- 2,
  MaxBytes <- 5, MaxEntryBytes <- 3, MaxEntries <- 2, TTL <- 1, Versions <- 2,
  world <- s1, entry <- s2, order <- s3, bytes <- s4, reserved <- s5, writers <- s6,
  closed <- s7, read <- s8, left <- s9, version <- s10, given <- s11, writer <- s12,
  ended <- s13

\* The variables from one on, which a part with fewer does not use.
Free13 == s13 = "-"
Free12 == s12 = "-" /\ Free13
Free11 == s11 = "-" /\ Free12
Free10 == s10 = "-" /\ Free11
Free9 == s9 = "-" /\ Free10
Free8 == s8 = "-" /\ Free9
Free7 == s7 = "-" /\ Free8
Free6 == s6 = "-" /\ Free7
Free5 == s5 = "-" /\ Free6
Free4 == s4 = "-" /\ Free5
Free3 == s3 = "-" /\ Free4

Same11 == UNCHANGED <<s11, s12, s13>>
Same10 == UNCHANGED <<s10, s11, s12, s13>>
Same9 == UNCHANGED <<s9, s10, s11, s12, s13>>
Same8 == UNCHANGED <<s8, s9, s10, s11, s12, s13>>
Same6 == UNCHANGED <<s6, s7, s8, s9, s10, s11, s12, s13>>
Same5 == UNCHANGED <<s5, s6, s7, s8, s9, s10, s11, s12, s13>>
Same3 == UNCHANGED <<s3, s4, s5, s6, s7, s8, s9, s10, s11, s12, s13>>

Init ==
  \/ part = "query" /\ Qry!Init /\ Free8
  \/ part = "methods" /\ Met!Init /\ Free3
  \/ part = "request" /\ Req!Init /\ Free6
  \/ part = "documents" /\ Cat!Init /\ Free8
  \/ part = "graph" /\ Gra!Init /\ Free10
  \/ part = "credential" /\ Cre!Init /\ Free9
  \/ part = "catalog" /\ Mth!Init /\ Free5
  \/ part = "ownership" /\ Own!Init /\ Free8
  \/ part = "addressing" /\ Adr!Init /\ Free8
  \/ part = "effect" /\ Eff!Init /\ Free11
  \/ part = "rows" /\ Row!Init

QueryStep == part = "query" /\ Qry!Next /\ UNCHANGED part /\ Same8
MethodsStep == part = "methods" /\ Met!Next /\ UNCHANGED part /\ Same3
RequestStep == part = "request" /\ Req!Next /\ UNCHANGED part /\ Same6
DocumentsStep == part = "documents" /\ Cat!Next /\ UNCHANGED part /\ Same8
GraphStep == part = "graph" /\ Gra!Next /\ UNCHANGED part /\ Same10
CredentialStep == part = "credential" /\ Cre!Next /\ UNCHANGED part /\ Same9
CatalogStep == part = "catalog" /\ Mth!Next /\ UNCHANGED part /\ Same5
OwnershipStep == part = "ownership" /\ Own!Next /\ UNCHANGED part /\ Same8
AddressingStep == part = "addressing" /\ Adr!Next /\ UNCHANGED part /\ Same8
EffectStep == part = "effect" /\ Eff!Next /\ UNCHANGED part /\ Same11
RowsStep == part = "rows" /\ Row!Next /\ UNCHANGED part

Next ==
  \/ QueryStep
  \/ MethodsStep
  \/ RequestStep
  \/ DocumentsStep
  \/ GraphStep
  \/ CredentialStep
  \/ CatalogStep
  \/ OwnershipStep
  \/ AddressingStep
  \/ EffectStep
  \/ RowsStep

Spec == Init /\ [][Next]_vars

-----------------------------------------------------------------------------
\* A query that is not refused returns the rows SQL says, as many times as it says, wherever its
\* conditions were placed, but for the exceptions module Query names (query.go:401).
ResultIsSQL == part = "query" => Qry!ResultIsSQL

\* A mutation has the effects its statement asks for, and leaves no condition to be checked after
\* them (query.go:1238).
EffectsAsAsked == part = "query" => Qry!EffectsAsAsked

\* What is accepted runs as meant: a compiled graph returns the rows its statement means, every
\* edge reads a cell that is written, every input has an edge or a value; a catalogued method builds every leg it
\* names, under the caller's scope, and its rows have the declared columns.
CompiledIsComplete ==
  /\ part = "graph" => Gra!RowsAsMeant /\ Gra!AskedOnce /\ Gra!EdgesAreFed /\ Gra!AcceptedIsComplete
  /\ part = "catalog" => Mth!BuildsEveryLeg /\ Mth!ScopeIsEchoed /\ Mth!RowsMatchTheSchema

\* A request is the one the document declares: a verb names the method its pointers lead to, a
\* method lists every input it needs and takes the nearest declaration, and each value goes to
\* the place declared for it, none of them empty.
RequestAsDeclared ==
  /\ part = "methods" => /\ Met!ResolvedWhereItPoints /\ Met!NoInputIsLost /\ Met!NeverFinishedEarly
                         /\ Met!EffectsAreNotPaged /\ Met!NearestDeclarationCounts
                         /\ Met!NoMethodIsHidden /\ Met!ListingIsEnough
  /\ part = "request" => Req!PlacedWhereItBelongs /\ Req!NothingGoesOutEmpty /\ Req!SentAsDeclared


\* A cache answers as the source would: a document as it now is, rows of one whole answer; and
\* it stays within its bounds, with its accounts in balance, whoever reads, writes or evicts.
CachesAreTrue ==
  /\ part = "documents" => /\ Cat!NeverStale /\ Cat!CachedAsParsed /\ Cat!VerifiedIsRead
                           /\ Cat!WithinBudget /\ Cat!AddressableMeansPresent
  /\ part = "rows" => Row!AccountsBalance /\ Row!WithinBounds /\ Row!OnlyWholeAnswers /\ Row!ReadsAreWhole

\* One object, found again: however often a run is repeated there is one object at most, the
\* ledger's record alone suffices to delete it, an effect that was withdrawn made nothing, and
\* what an effect resolved to exists and is what was observed.
OneObject ==
  /\ part = "addressing" => Adr!DeletableAlone /\ Adr!OneObject
  /\ part = "effect" => Eff!WithdrawnMadeNothing /\ Eff!ResolvedExists /\ Eff!ActualIsTheObject

\* A run that settles leaves what was asked for, whatever another actor changed before it, and
\* an update it chose has a method to make it.
Converged ==
  /\ part = "ownership" => Own!Converged /\ Own!ChosenHasAnArm

\* A step touches its own: an update changes no field this collection never asked for and takes
\* away the ones it no longer asks for, and refreshing a key evicts it only for another's sake.
OthersUntouched ==
  [][
  /\ part = "ownership" => Own!DroppedGoes /\ Own!OthersUntouched
  /\ part = "rows" => Row!RefreshKeepsTheOld]_vars
=============================================================================
