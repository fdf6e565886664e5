----------------------------- MODULE Credentials -----------------------------
(***************************************************************************)
(* Which credential a provider's requests carry (providerOptions and what  *)
(* it calls): the caller's entry laid over the document's defaults, each   *)
(* part resolved from a literal, a variable or a file, the scheme the      *)
(* document declares, and a method of the caller's own in its place.       *)
(* A value is the name of the source it came from.                         *)
(***************************************************************************)
EXTENDS Naturals, Sequences, FiniteSets

CONSTANTS Calls,         \* <<scheme, type>>: what the document declares and the caller's entry selects, "" for none
          Hows           \* the ways a caller's entry gives a part: none, inline, var, file

VARIABLES doc,           \* [scheme, vars: parts the document names a variable for, tokenURL]
          caller,        \* [type, how]: the caller's entry
          host,          \* [vars, unset, file, has]: variables that hold a value, but for one part; a file's state; tools
          kube,          \* the kubeconfig user, where one is selected
          phase,         \* "auth", "grant", "declared", "compile", "sent", "refused"
          got,           \* the parts of the credential chosen so far, and where each came from
          signer,        \* a request transform of the caller's or the document's choice is in place
          reads          \* what was looked into

vars == <<doc, caller, host, kube, phase, got, signer, reads>>
inputsOf == <<doc, caller, host, kube>>

PartsOf == [sigv4 |-> {"id", "key", "token", "cred"}, oauth |-> {"tenant", "id", "secret", "cred"},
            service_account |-> {"cred"}, basic |-> {"user", "pass", "cred"}, bearer |-> {"cred"},
            oci |-> {"tenancy", "ocid", "pem"}]
ToolsOf == [sigv4 |-> {"profile"}, oauth |-> {"cli"}, service_account |-> {"adc"}, basic |-> {}, bearer |-> {},
            oci |-> {"profile"}]
Parts == UNION {PartsOf[s] : s \in DOMAIN PartsOf}
OciParts == PartsOf.oci

----------------------------------------------------------------------------
(* Sources. *)

Holds(v, p) == v \in host.vars /\ p # host.unset
Literal(p) == <<"inline", IF caller.how[p] = "inline" THEN "value" ELSE "empty">>
Env(v, p) == <<v, IF Holds(v, p) THEN "value" ELSE "empty">>
File(p) == <<"file", IF caller.how[p] = "file" THEN host.file ELSE "empty">>
Owner(s) == IF s \in {"inline", "callers", "file"} THEN "caller" ELSE s

\* The first source that is not empty; one that cannot be read ends the search.
Require(srcs) ==
    LET some == {i \in DOMAIN srcs : srcs[i][2] # "empty"}
        i == CHOOSE j \in some : \A k \in some : j <= k
    IN  IF some = {} \/ srcs[i][2] = "broken" THEN "none" ELSE srcs[i][1]

Optional(srcs) ==
    LET some == {i \in DOMAIN srcs : srcs[i][2] = "value"}
    IN  IF some = {} THEN "none" ELSE srcs[CHOOSE j \in some : \A k \in some : j <= k][1]


\* Where the document's variable stands in for one the caller did not name.
mayDefault(p) == /\ p = "cred" => caller.how[p] \notin {"inline", "file"}
                 /\ p \in OciParts => caller.type # "oci"

overlay(p) == IF caller.how[p] = "var" THEN "callers"
              ELSE IF p \in doc.vars /\ mayDefault(p) THEN "documents" ELSE "none"
canonical(p) == IF caller.how[p] = "var" THEN "callers" ELSE "canonical"

----------------------------------------------------------------------------
(* Each method's parts; "none" marks one that is missing. *)

One(p, v) == [q \in {p} |-> v]
cred == Require(<<Literal("cred"), Env(overlay("cred"), "cred"), File("cred")>>)

basicCredential ==
    LET user == Optional(<<Literal("user"), Env(overlay("user"), "user")>>)
        pass == Optional(<<Literal("pass"), Env(overlay("pass"), "pass")>>)
    IN  IF user # "none" /\ pass # "none" THEN [user |-> user, pass |-> pass] ELSE One("cred", cred)

\* A variable that is named is read, and the literal beside it is not; but a key given itself is
\* not looked for in a file.
ociValue(p) == LET v == overlay(p)
               IN  IF v = "none" \/ (p = "pem" /\ caller.how[p] = "inline")
                     THEN Require(<<Literal(p)>>) ELSE Require(<<Env(v, p)>>)
ociMethod ==
    IF \E p \in OciParts : caller.how[p] # "none" \/ overlay(p) # "none"
    THEN [p \in OciParts |-> ociValue(p)]
    ELSE [p \in OciParts |-> IF "profile" \in host.has THEN "profile" ELSE "none"]

\* The user's token, else its token file, else a plugin, which may give a certificate instead; a password
\* where there is no token.  A certificate needs its key.
kubeconfig ==
    LET token == IF kube.token THEN "token" ELSE IF kube.tokenFile # "empty" THEN "file"
                 ELSE IF kube.exec = "token" THEN "exec" ELSE "none"
        broken == \/ ~kube.token /\ kube.tokenFile = "broken"
                  \/ ~kube.token /\ kube.tokenFile = "empty" /\ kube.exec = "fails"
        pair == IF ~kube.token /\ kube.tokenFile = "empty" /\ kube.exec = "cert" THEN "exec"
                ELSE IF kube.cert /\ kube.key THEN "user" ELSE "none"
        half == kube.cert # kube.key /\ pair # "exec"
        header == IF token # "none" THEN token ELSE IF kube.password THEN "password" ELSE "none"
    IN  IF broken \/ half THEN One("header", "none")
        ELSE IF header # "none" THEN One("header", header) ELSE One("pair", pair)

awsKeys == [id |-> Require(<<Literal("id"), Env(canonical("id"), "id")>>),
            key |-> Require(<<Literal("key"), Env(canonical("key"), "key")>>),
            token |-> Optional(<<Literal("token"), Env(canonical("token"), "token")>>)]
awsCreds == IF awsKeys.id # "none" /\ awsKeys.key # "none" THEN awsKeys
            ELSE IF "profile" \in host.has THEN [id |-> "profile", key |-> "profile", token |-> "profile"]
            ELSE [id |-> "none", key |-> "none", token |-> "none"]

azureNativeCreds == [p \in {"tenant", "id", "secret"} |-> Require(<<Literal(p), Env(canonical(p), p)>>)]

googleOption == One("cred", Require(<<Literal("cred"), Env(canonical("cred"), "cred"), File("cred"),
                                      <<"adc", IF "adc" \in host.has THEN "value" ELSE "broken">>>>))

clientCredentials == [p \in {"id", "secret"} |-> Require(<<Literal(p), Env(overlay(p), p)>>)]

Complete(c) == \A p \in DOMAIN c \ {"token"} : c[p] # "none"

----------------------------------------------------------------------------
Init ==
    /\ \E <<s, t>> \in Calls, named \in BOOLEAN, url \in BOOLEAN :
         /\ doc = [scheme |-> s, vars |-> IF named THEN PartsOf[s] ELSE {}, tokenURL |-> url]
         /\ s # "oauth" => ~url
         /\ \E how \in [PartsOf[s] -> Hows] :
              caller = [type |-> t, how |-> [p \in Parts |-> IF p \in PartsOf[s] THEN how[p] ELSE "none"]]
    /\ \A p \in Parts : caller.how[p] = "file" => p = "cred"            \* only the blob has a file
    /\ doc.scheme \in {"sigv4", "oauth"} /\ caller.type = "" => caller.how["cred"] = "none"
    /\ caller.type = "kubeconfig" => \A p \in Parts : caller.how[p] = "none"
    /\ host \in [vars : SUBSET {"callers", "documents", "canonical"}, unset : {"key", "secret", "pass", "-"},
                 file : IF caller.how["cred"] = "file" THEN {"value", "broken"} ELSE {"value"},
                 has : SUBSET ToolsOf[doc.scheme]]
    /\ host.unset \in PartsOf[doc.scheme] \cup {"-"}
    /\ kube \in IF caller.type = "kubeconfig"
                THEN [token : BOOLEAN, tokenFile : {"empty", "value", "broken"}, exec : {"none", "token", "cert", "fails"},
                      cert : BOOLEAN, key : BOOLEAN, password : BOOLEAN]
                ELSE {[token |-> FALSE]}
    /\ phase = "auth" /\ got = <<>> /\ signer = FALSE /\ reads = {}

\* The method the caller selects, else the one the scheme stands for.
kindOf == IF caller.type # "" THEN caller.type
          ELSE IF doc.scheme \in {"oci", "basic", "bearer"} THEN doc.scheme ELSE ""
newMethod == CASE kindOf = "bearer" -> One("cred", cred)
               [] kindOf = "basic" -> basicCredential
               [] kindOf = "oci" -> ociMethod
               [] kindOf = "kubeconfig" -> kubeconfig
               [] OTHER -> <<>>

\* requestAuth: a method sent with each request.
requestAuth ==
    /\ phase = "auth"
    /\ got' = newMethod
    /\ signer' = (kindOf # "")
    /\ reads' = IF kindOf = "" THEN {} ELSE {kindOf}
    /\ phase' = IF Complete(newMethod) THEN "grant" ELSE "refused"
    /\ UNCHANGED inputsOf

\* A request credential replaces token acquisition.
settled == signer

\* The grant at a token URL the document or the caller names.
Grant ==
    /\ phase = "grant"
    /\ IF doc.scheme = "oauth" /\ doc.tokenURL /\ ~settled
       THEN /\ got' = clientCredentials /\ reads' = reads \cup {"client"}
            /\ phase' = IF Complete(got') THEN "compile" ELSE "refused"
       ELSE phase' = "declared" /\ UNCHANGED <<got, reads>>
    /\ UNCHANGED <<doc, caller, host, kube, signer>>

\* docOptions: the credential of the scheme the document declares, and no other.
docOptions ==
    /\ phase = "declared"
    /\ \/ /\ doc.scheme = "sigv4" /\ reads' = reads \cup {"aws"}
          /\ got' = IF signer THEN got ELSE awsCreds
          /\ phase' = "compile" /\ UNCHANGED signer
       \/ /\ doc.scheme = "oauth" /\ settled
          /\ phase' = "compile" /\ UNCHANGED <<got, signer, reads>>
       \/ /\ doc.scheme = "oauth" /\ ~settled
          /\ \/ /\ Complete(azureNativeCreds) /\ reads' = reads \cup {"azure"}
                /\ got' = (IF signer THEN got ELSE azureNativeCreds) /\ phase' = "compile"
             \/ /\ ~Complete(azureNativeCreds) /\ reads' = reads \cup {"azure", "cli"}
                /\ got' = (IF signer THEN got ELSE One("cred", "cli"))
                /\ phase' = IF "cli" \in host.has THEN "compile" ELSE "refused"
          /\ UNCHANGED signer
       \/ /\ doc.scheme = "service_account" /\ reads' = reads \cup {"google"}
          /\ LET g == googleOption
                 key == Complete(g) /\ ~(signer /\ Owner(g["cred"]) = "caller")   \* a token is not a key file
             IN  got' = (IF signer THEN got ELSE g) /\ phase' = IF key THEN "compile" ELSE "refused"
          /\ UNCHANGED signer
       \/ /\ doc.scheme \in {"basic", "bearer", "oci"}
          /\ phase' = "compile" /\ UNCHANGED <<got, signer, reads>>
    /\ UNCHANGED inputsOf

\* compile: a declared scheme with nothing to satisfy it is refused, here and not at the provider.
Compile ==
    /\ phase = "compile"
    /\ phase' = IF Complete(got) THEN "sent" ELSE "refused"
    /\ UNCHANGED <<doc, caller, host, kube, got, signer, reads>>

Done == phase \in {"sent", "refused"} /\ UNCHANGED vars
Next == requestAuth \/ Grant \/ docOptions \/ Compile \/ Done
Spec == Init /\ [][Next]_vars

----------------------------------------------------------------------------
\* Where the document's variable displaces what the caller gives inline (oci.go:27): an OCI
\* document's, unless the caller selects the method as well.
Displaced(p) == kindOf = "oci" /\ caller.type = "" /\ p \in doc.vars \ {"pem"}

\* Where inline keys are signed with a session that is not theirs (omnisdk.go:1821): the caller
\* gives no session token, and the environment has one.
StraySession == caller.how["token"] = "none" /\ Holds("canonical", "token")

\* A part the caller gives inline is the one sent, and one it gives any other way is never displaced by
\* the document's: "Every credential resolves inline value -> env var -> file, in that order"; and
\* beside keys given inline nothing is the environment's.  Displaced and StraySession are exceptions.
CallerFirst ==
    /\ phase = "sent" => \A p \in DOMAIN got \cap Parts :
        /\ caller.how[p] = "inline" =>
              got[p] \in {"inline", "profile"} \/ Displaced(p)   \* a profile stands in for half a pair
        /\ caller.how[p] \in {"var", "file"} => got[p] # "documents"
    /\ phase = "sent" /\ reads = {"aws"} /\ caller.how["id"] = "inline" /\ caller.how["key"] = "inline" =>
          Owner(got["token"]) \in {"caller", "none"} \/ StraySession

\* What is sent is whole: a credential with a part that does not resolve is refused before any request.
WholeOrRefused == phase = "sent" => \A p \in DOMAIN got : p # "token" => got[p] \notin {"none", "blank"}

\* A method the caller selects, and can resolve, is what is sent, with nothing acquired beside it: "An
\* explicit request credential replaces token acquisition".  Not so for a service account, whose key
\* is looked for all the same (omnisdk.go:1542): without one the call is refused.
OverrideStands ==
    caller.type # "" /\ phase \in {"sent", "refused"} /\ Complete(newMethod) =>
        /\ phase = "sent" => got = newMethod
        /\ phase = "refused" => doc.scheme = "service_account"
        /\ reads \cap {"azure", "cli", "client"} = {}

=============================================================================
