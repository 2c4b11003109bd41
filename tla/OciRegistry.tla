----------------------------- MODULE OciRegistry -----------------------------
(***************************************************************************)
(* Pulling an OCI image: crates/oci, registry/ and image.rs.  The client   *)
(* resolves a tag or digest to a manifest, perhaps through an index, and   *)
(* fetches the configuration and the layers by their digests.  Requests    *)
(* may be answered with a challenge or with redirects, and the registry    *)
(* may move the tag or serve anything at all.                              *)
(*                                                                         *)
(* A document stands for its digest: what is asked for by digest is the    *)
(* only document that passes verify().                                     *)
(***************************************************************************)
EXTENDS Naturals, Sequences, FiniteSets

CONSTANTS
  Images,     \* bound: images that the tag may name
  Layers,     \* bound: layers of every image
  Hosts,      \* origins: Registry, token servers, content delivery
  Registry,   \* the origin of the image's reference
  MaxHops,    \* redirects that get() follows: 5
  Budget,     \* max_bytes; every layer is one unit, as declared
  None

VARIABLES
  options,  \* RegistryOptions: credentials and token_realm
  tag,      \* the image that the tag names at the registry
  auth,     \* Registry.authorization
  image,    \* whose manifest the reference is pinned to by its digest
  step,     \* the part that unpack_inner waits for; with a tag, Index first
  req,      \* the request that get() has under way
  got,      \* the verified documents
  sent      \* which secret went to which host (a history variable)

vars == <<options, tag, auth, image, step, req, got, sent>>

(* The parts of an image, in the order they are fetched; layers follow. *)
Index     == 1
Pinned    == 2  \* the manifest
Config    == 3
Ready     == Config + Layers + 1
Failed    == 0
Document  == Images \X (Index..(Ready - 1))
Secrets   == {"bearer", "basic", "token"}
Options   == [cred : {"anonymous", "basic", "bearer"}, realm : Hosts \cup {None}]
Request   == [host : Hosts, hops : 0..MaxHops, retried : BOOLEAN]

(* What the constants stand for: bounds are numbers, the registry is a host, *)
(* and None is what is absent.                                               *)
RegistryConstants ==
  /\ {Layers, MaxHops, Budget} \subseteq Nat
  /\ Registry \in Hosts
  /\ None \notin Images /\ None \notin Request /\ None \notin Secrets

TypeOK ==
  /\ options \in Options
  /\ tag \in Images
  /\ auth \in Secrets \cup {None}
  /\ image \in Images \cup {None}
  /\ step \in Failed..Ready
  /\ req \in Request \cup {None}
  /\ got \in Seq(Document)
  /\ sent \subseteq Secrets \X Hosts
  /\ step = Ready => Layers <= Budget

(* Registry::new: a configured bearer token is sent from the start. *)
Init ==
  /\ options \in Options
  /\ tag \in Images
  /\ auth = IF options.cred = "bearer" THEN "bearer" ELSE None
  /\ \/ step = Index /\ image = None
     \/ step = Pinned /\ image \in Images  \* the reference has a digest
  /\ req = None
  /\ got = <<>>
  /\ sent = {}

-----------------------------------------------------------------------------
Active   == step \notin {Ready, Failed}
Gives(d) == got' = Append(got, d)
Fails    == step' = Failed /\ req' = None /\ UNCHANGED <<options, tag, auth, image, got>>

(* Mutant: a redirected request carries the header wherever it goes. *)
IsAuthenticatedAlways(host) == auth # None

(* request(): the header goes along on the registry's own origin only. *)
IsAuthenticated(host) == auth # None /\ host = Registry

Sends(r) ==
  /\ req' = r
  /\ sent' = IF IsAuthenticated(r.host) THEN sent \cup {<<auth, r.host>>} ELSE sent

(* blob_file: a layer larger than what is left of the budget is not asked for. *)
Get ==
  /\ Active
  /\ req = None
  /\ IF step > Config + Budget
     THEN Fails /\ UNCHANGED sent
     ELSE /\ Sends([host |-> Registry, hops |-> 0, retried |-> FALSE])
          /\ UNCHANGED <<options, tag, auth, image, step, got>>

(* get(): challenges of the first answer are met once.  No redirect came yet. *)
Challengeable == req # None /\ req.hops = 0 /\ ~req.retried

(* Mutant: the challenge decides where the password is sent. *)
IsTrustedAny(realm) == TRUE

(* authenticate(): a realm is the registry's own or the one configured; for *)
(* Docker Hub, whose realm is on another host, that is built in.            *)
IsTrusted(realm) == realm \in {Registry, options.realm}

BearerChallenge(realm) ==
  /\ Challengeable
  /\ IF options.cred = "bearer" \/ ~IsTrusted(realm) THEN Fails /\ UNCHANGED sent
     ELSE LET login == IF options.cred = "basic" THEN {<<"basic", realm>>} ELSE {} IN
          \/ /\ auth' = "token"
             /\ req' = [req EXCEPT !.retried = TRUE]
             /\ sent' = sent \cup login \cup {<<"token", Registry>>}
             /\ UNCHANGED <<options, tag, image, step, got>>
          \/ Fails /\ sent' = sent \cup login

BasicChallenge ==
  /\ Challengeable
  /\ IF options.cred # "basic" THEN Fails /\ UNCHANGED sent
     ELSE /\ auth' = "basic"
          /\ req' = [req EXCEPT !.retried = TRUE]
          /\ sent' = sent \cup {<<"basic", Registry>>}
          /\ UNCHANGED <<options, tag, image, step, got>>

(* Only blobs may be redirected, five times, to HTTPS URLs. *)
Redirect(host) ==
  /\ req # None
  /\ IF step \in {Index, Pinned} \/ req.hops = MaxHops
     THEN Fails /\ UNCHANGED sent
     ELSE /\ Sends([req EXCEPT !.host = host, !.hops = @ + 1])
          /\ UNCHANGED <<options, tag, auth, image, step, got>>

(* Any other status, a broken connection, a time limit, or 30 minutes over. *)
Refused ==
  /\ Active
  /\ Fails
  /\ UNCHANGED sent

-----------------------------------------------------------------------------
(* Mutant: what comes is taken for what was asked for. *)
VerifiesAny(d, asked) == TRUE

(* verify(), for documents that are asked for by digest. *)
Verifies(d, asked) == d = asked

(* What a manifest, index or blob request answers, or the pull fails. *)
Answer(d, asked, next) ==
  IF Verifies(d, asked)
  THEN /\ step' = next
       /\ Gives(d)
       /\ req' = None
       /\ UNCHANGED <<options, tag, auth, image, sent>>
  ELSE Fails /\ UNCHANGED sent

(* resolve_manifest: the body of the tag's answer is pinned by its own     *)
(* digest; a digest the registry advertises must be the same.              *)
Resolved(d, advertised) ==
  /\ step = Index
  /\ req # None
  /\ d \in {<<tag, Index>>, <<tag, Pinned>>}
  /\ IF advertised \in {d, None}
     THEN /\ image' = d[1]
          /\ step' = d[2] + 1
          /\ Gives(d)
          /\ req' = None
          /\ UNCHANGED <<options, tag, auth, sent>>
     ELSE Fails /\ UNCHANGED sent

(* The manifest of the host's platform; if the reference has the digest of *)
(* an index, that comes first.                                             *)
Manifest(d) ==
  /\ step = Pinned
  /\ req # None
  /\ \/ got = <<>> /\ Answer(d, <<image, Index>>, Pinned)
     \/ Answer(d, <<image, Pinned>>, Config)

(* The configuration, then the layers. *)
Blob(d) ==
  /\ step \in Config..(Ready - 1)
  /\ req # None
  /\ Answer(d, <<image, step>>, step + 1)

TagMoves(i) ==
  /\ Active
  /\ i # tag
  /\ tag' = i
  /\ UNCHANGED <<options, auth, image, step, req, got, sent>>

Next ==
  \/ Get \/ BasicChallenge \/ Refused
  \/ \E host \in Hosts : BearerChallenge(host) \/ Redirect(host)
  \/ \E d \in Document : \/ Manifest(d) \/ Blob(d)
                         \/ \E a \in Document \cup {None} : Resolved(d, a)
  \/ \E i \in Images : TagMoves(i)

Spec == Init /\ [][Next]_vars

-----------------------------------------------------------------------------
(* Tokens stay with the registry, and the password with it and the realm   *)
(* that the operator trusts, through challenges and redirects.             *)
SecretsStay ==
  \A s \in sent : s[2] = Registry \/ (s[1] = "basic" /\ s[2] = options.realm)

(* However often the tag moves during a pull and whatever is served, an    *)
(* image is put together from one manifest, perhaps after an index that     *)
(* names it, its configuration and all its layers in their order.           *)
OneImage ==
  /\ \A k \in DOMAIN got : got[k][1] = image
  /\ step = Ready =>
       \E m \in {1, 2} :
         /\ Len(got) = m + 1 + Layers
         /\ \A k \in DOMAIN got : got[k] = <<image, IF k < m THEN Index ELSE Pinned + k - m>>

=============================================================================
