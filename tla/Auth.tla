-------------------------------- MODULE Auth --------------------------------
(***************************************************************************)
(* The request path of src/src/auth.rs: conditional_auth_middleware turns *)
(* the bearer token into an AuthenticatedUser or rejects the request, then *)
(* the route's extractor (AuthenticatedCosigner, AuthenticatedUser or      *)
(* none) admits or rejects it, and the handler runs.  Of the handlers,    *)
(* get_file is kept in detail (it joins the requested file_id to          *)
(* files_dir and serves whatever path results) and so are the multipart    *)
(* forms of post_operation and respond_to_operation (Multipart); their     *)
(* database checks are Bridge's and are taken to pass here.                *)
(*                                                                         *)
(* A token is abstracted to what the middleware asks of it: how far it     *)
(* gets through the header, signature and authorizer-with-time checks      *)
(* ("no_bearer", "bad_signature", "expired" or "ok"), and its role and     *)
(* xpub facts.  A query returns its facts in an order the code does not   *)
(* fix, so `first()` is any one of them.  A path is a sequence of          *)
(* components; an absolute path starts with "/".                           *)
(***************************************************************************)
EXTENDS Integers, Sequences, FiniteSets, SequencesExt, Multipart

CONSTANTS
  Known,        \* xpubs of the Cosigner rows (cosigners_by_xpub)
  Unknown,      \* other xpubs a token may name
  FileIdInputs, \* file_id strings a client may send, as component sequences
  FilesDir,     \* state.files_dir
  Existing,     \* the paths that exist on the host
  PostForms,    \* multipart forms a cosigner may post (field sequences)
  RespondForms, \* multipart forms a cosigner may respond with
  None          \* model value

Roles == {"cosigner", "watch-only", "admin"}

Routes == {"/info", "/getcurrentaddressindices", "/bumpaddressindices",
           "/postoperation", "/respondtooperation", "/markoperationprocessed",
           "/getlastprocessedopidx", "/getoperationbyidx", "/getfile"}

Tokens == [check : {"no_bearer", "bad_signature", "expired", "ok"},
           roles : SUBSET Roles, xpubs : SUBSET (Known \cup Unknown)]

(* The handlers that take a body through WithRejection<Json<_>> or       *)
(* WithRejection<Multipart>; a body the extractor rejects becomes          *)
(* InvalidRequest (From<JsonRejection>, From<MultipartRejection>).         *)
BodyRoutes ==
  {"/bumpaddressindices", "/getfile", "/getoperationbyidx",
   "/markoperationprocessed", "/postoperation", "/respondtooperation"}

(* The file_id matters to get_file only, the body to BodyRoutes only.     *)
(* Every token is tried with an empty form; the forms themselves are sent *)
(* with the token of a cosigner, the only one that reaches their parse.    *)
Requests ==
  LET Bodies(p) == IF p \in BodyRoutes THEN {"ok", "malformed"} ELSE {"ok"}
      Ids(p) == IF p = "/getfile" THEN FileIdInputs ELSE {<<>>}
      CosignerTokens == [check : {"ok"}, roles : {{"cosigner"}}, xpubs : {{k} : k \in Known}]
      Forms(p) == IF p = "/postoperation" THEN PostForms ELSE RespondForms
  IN UNION {[token : Tokens, path : {p}, body : Bodies(p), fileId : Ids(p), form : {<<>>}]
              : p \in Routes}
     \cup UNION {[token : CosignerTokens, path : {p}, body : {"ok"}, fileId : {<<>>},
                  form : Forms(p)] : p \in {"/postoperation", "/respondtooperation"}}

VARIABLES
  req,      \* the request being served
  stage,    \* "idle", "authed" (past the middleware) or "done"
  user,     \* the AuthenticatedUser in the request extensions, or None
  status,   \* the response status, 0 until there is one
  served    \* the path get_file streams, or None

vars == <<req, stage, user, status, served>>

-----------------------------------------------------------------------------
\* Variant of the allow-list that also lists /bumpaddressindices.
WATCH_ONLY_ALLOWED_ROUTES_bump ==
  {"/info", "/getoperationbyidx", "/getcurrentaddressindices", "/getfile",
   "/bumpaddressindices"}

\* WATCH_ONLY_ALLOWED_ROUTES
WATCH_ONLY_ALLOWED_ROUTES ==
  {"/info", "/getoperationbyidx", "/getcurrentaddressindices", "/getfile"}

\* handlers whose signature takes AuthenticatedCosigner
CosignerRoutes ==
  {"/postoperation", "/respondtooperation", "/markoperationprocessed",
   "/getlastprocessedopidx"}

\* Path::join: an absolute file_id replaces the base
Join(dir, id) == IF id # <<>> /\ Head(id) = "/" THEN id ELSE dir \o id

\* what the OS resolves: ".." drops the previous component, never the root
RECURSIVE Resolve(_, _)
Resolve(acc, rest) ==
  IF rest = <<>> THEN acc
  ELSE IF Head(rest) = ".."
    THEN Resolve(IF Len(acc) > 1 THEN Front(acc) ELSE acc, Tail(rest))
    ELSE Resolve(Append(acc, Head(rest)), Tail(rest))

\* Variant of the existence probe that reports every path as present.
exists_always(p) == TRUE

\* Path::exists
exists(p) == p \in Existing

\* Variant of the APIError mapping that answers FileNotFound with 404.
APIErrorStatus_notfound(e) ==
  CASE e \in {"Database", "IO", "Unexpected"} -> 500
    [] e = "FileNotFound" -> 404
    [] e \in {"InvalidCount", "InvalidOperationType", "InvalidRequest",
              "OperationNotFound"} -> 400
    [] e \in {"CannotMarkOperationProcessed", "CannotPostNewOperation",
              "CannotRespondToOperation"} -> 403

\* IntoResponse for APIError: the status of each variant
APIErrorStatus(e) ==
  CASE e \in {"Database", "IO", "Unexpected"} -> 500
    [] e \in {"FileNotFound", "InvalidCount", "InvalidOperationType",
              "InvalidRequest", "OperationNotFound"} -> 400
    [] e \in {"CannotMarkOperationProcessed", "CannotPostNewOperation",
              "CannotRespondToOperation"} -> 403

(* The response of a handler run by no_cancel: a panic in the spawned task *)
(* drops the oneshot sender, rx.await.unwrap() panics in turn and the      *)
(* connection is closed with no response (status 0).                       *)
FormStatus(e) ==
  CASE e = "ok"    -> 200
    [] e = "panic" -> 0
    [] OTHER       -> APIErrorStatus(e)

\* IntoResponse for AuthError
AuthErrorStatus(e) == IF e = "Unauthorized" THEN 401 ELSE 403

Init ==
  /\ req \in Requests
  /\ stage = "idle"
  /\ user = None
  /\ status = 0
  /\ served = None

(* conditional_auth_middleware: the bearer header, token parsing and       *)
(* signature, the authorizer with the time fact, the role and xpub         *)
(* queries, the cosigner lookup, and the watch-only allow-list.            *)
conditional_auth_middleware ==
  LET t == req.token IN
  /\ stage = "idle"
  /\ served' = None
  /\ IF t.check # "ok" \/ t.roles = {}
       THEN /\ stage' = "done" /\ status' = AuthErrorStatus("Unauthorized") /\ user' = None
       ELSE \E role \in t.roles, xpub \in IF t.xpubs = {} THEN {None} ELSE t.xpubs :
              LET u == CASE role = "cosigner" /\ xpub \in Known -> xpub
                         [] role = "watch-only" /\ xpub = None -> "watch-only"
                         [] OTHER -> None
              IN IF u = None
                   THEN /\ stage' = "done" /\ status' = AuthErrorStatus("Unauthorized") /\ user' = None
                 ELSE IF u = "watch-only" /\ req.path \notin WATCH_ONLY_ALLOWED_ROUTES
                   THEN /\ stage' = "done" /\ status' = AuthErrorStatus("Forbidden") /\ user' = None
                 ELSE /\ stage' = "authed" /\ user' = u /\ UNCHANGED status
  /\ UNCHANGED req

(* The route's extractors in argument order, then the handler: the       *)
(* AuthenticatedCosigner extractor (a FORBIDDEN rejection), then the body  *)
(* extractor.  get_file joins file_id to files_dir, answers FileNotFound   *)
(* unless the result exists, and streams it; post and respond parse their *)
(* form; every other handler is only admitted here.                        *)
handle ==
  LET p == Resolve(<<>>, Join(FilesDir, req.fileId)) IN
  /\ stage = "authed"
  /\ stage' = "done"
  /\ CASE req.path \in CosignerRoutes /\ user = "watch-only" ->
            status' = 403 /\ UNCHANGED served
       [] req.body = "malformed" ->
            status' = APIErrorStatus("InvalidRequest") /\ UNCHANGED served
       [] req.path = "/getfile" /\ ~exists(p) ->
            status' = APIErrorStatus("FileNotFound") /\ UNCHANGED served
       [] req.path = "/getfile" ->
            status' = 200 /\ served' = p
       [] req.path = "/postoperation" ->
            status' = FormStatus(PostFormOutcome(req.form)) /\ UNCHANGED served
       [] req.path = "/respondtooperation" ->
            status' = FormStatus(RespondFormOutcome(req.form)) /\ UNCHANGED served
       [] OTHER ->
            status' = 200 /\ UNCHANGED served
  /\ UNCHANGED <<req, user>>

\* the connection sends its next request
next_request ==
  /\ stage = "done"
  /\ \E r \in Requests : req' = r
  /\ stage' = "idle"
  /\ user' = None
  /\ status' = 0
  /\ served' = None

Next == conditional_auth_middleware \/ handle \/ next_request

Spec == Init /\ [][Next]_vars

-----------------------------------------------------------------------------
TypeOK ==
  /\ req \in Requests
  /\ stage \in {"idle", "authed", "done"}
  /\ user \in Known \cup {"watch-only", None}
  /\ status \in {0} \cup 100..599
  /\ served = None \/ served \in Existing

\* the token shape spec section 4.2 describes: one role fact, at most one xpub
SpecShaped(t) == Cardinality(t.roles) <= 1 /\ Cardinality(t.xpubs) <= 1

\* a file_id of the form spec section 4.1 gives ids: one plain component
PlainId(id) == Len(id) = 1 /\ id[1] \notin {"/", ".", ".."}

(* The response spec sections 4.2, 4.3.1, 4.3.2, 6 and 7 give a request:  *)
(* 401 or 403 from the gate, 400 for a body that does not parse, a form    *)
(* the spec's rules refuse (InvalidRequest, InvalidOperationType) or a     *)
(* file id the store does not hold (FileNotFound), 200 otherwise.          *)
SpecOutcome(r) ==
  LET t == r.token
      cosigner == t.roles = {"cosigner"} /\ t.xpubs # {} /\ t.xpubs \subseteq Known
      watch == t.roles = {"watch-only"} /\ t.xpubs = {}
      anyRoutes == {"/info", "/getcurrentaddressindices", "/getoperationbyidx", "/getfile"}
  IN CASE t.check # "ok"                                        -> 401
       [] ~cosigner /\ ~watch                                    -> 401
       [] watch /\ r.path \notin anyRoutes                       -> 403
       [] r.body = "malformed"                                   -> 400
       [] r.path = "/getfile" /\ FilesDir \o r.fileId \notin Existing -> 400
       [] r.path = "/postoperation" /\ ~SpecPostAccepts(r.form)       -> 400
       [] r.path = "/respondtooperation" /\ ~SpecRespondAccepts(r.form) -> 400
       [] OTHER                                                  -> 200

(* Every request with a token of the shape the spec describes, a plain     *)
(* file id where there is one, and a one-byte operation_type in its form,  *)
(* gets the status of the spec's middleware contract, form rules and      *)
(* error table: the middleware's AuthErrors, the extractors' rejections in *)
(* argument order, the form loops' first error and the checks after them, *)
(* each mapped by into_response, together implement it; and an admitted    *)
(* cosigner is the one its token's xpub names.  (An empty operation_type  *)
(* panics at op_type[0] and a longer one is read by its first byte: those *)
(* forms are outside the spec's one-byte rule and are listed as hazards.)  *)
AuthMatchesSpec ==
  (/\ stage = "done" /\ SpecShaped(req.token) /\ OneByteTypes(req.form)
   /\ req.path = "/getfile" => PlainId(req.fileId)) =>
    /\ status = SpecOutcome(req)
    /\ user \in Known => req.token.xpubs = {user}

(* get_file serves only files of the content-addressed store: the path it *)
(* streams is a direct child of files_dir (spec section 4.1: files are     *)
(* keyed by their SHA-256 hex id).                                        *)
GetFileConfined ==
  served # None => /\ Len(served) = Len(FilesDir) + 1
                   /\ SubSeq(served, 1, Len(FilesDir)) = FilesDir

=============================================================================
