------------------------------ MODULE Multipart ------------------------------
(***************************************************************************)
(* The multipart form loops of post_operation and respond_to_operation     *)
(* (src/src/routes.rs) and the checks that follow them, as operators over  *)
(* the sequence of fields a client sends, beside the rules spec sections   *)
(* 4.3.1 and 4.3.2 give for the same forms.                                *)
(*                                                                         *)
(* A field is [name, bytes, json].  Names are abstracted to the ones the code     *)
(* tells apart: "operation_type", "request", the four file_<kind> names,   *)
(* "file_invalid" (the file_ prefix with an unknown kind), "other", and    *)
(* "#error" for the point where next_field() (or a chunk read) fails.      *)
(* bytes is the body of an operation_type or file field; json is what     *)
(* the text of a request field parses to ("ack", "nack", or "bad" for      *)
(* text that is not a RespondToOperationRequest), "" elsewhere.            *)
(* The outcome is "ok", an APIError variant, or "panic".                   *)
(***************************************************************************)
EXTENDS Integers, Sequences, FiniteSets, FiniteSetsExt

\* the file_<kind> names post_operation maps to a FileType
FileKindNames == {"file_psbt", "file_media", "file_operation_data", "file_consignment"}

\* the names for which field_name.starts_with("file_") holds
FilePrefixed == FileKindNames \cup {"file_invalid"}

\* OperationType::try_from(u8)
OperationType_try_from(b) == IF b \in 1..7 THEN "ok" ELSE "InvalidOperationType"

(* post_operation: while let Some(field) = next_field()?  The first failing *)
(* field returns its error; op_type[0] of an empty operation_type field    *)
(* indexes out of bounds and panics.  After the loop: no file at all, then *)
(* no operation type, is InvalidRequest.  acc is [type, files, psbt].      *)
\* Variant of post_form that accepts a second file_psbt.
RECURSIVE post_form_psbt_twice(_, _)
post_form_psbt_twice(fs, acc) ==
  IF fs = <<>>
  THEN CASE acc.files = 0 /\ ~acc.psbt -> "InvalidRequest"
         [] acc.type = 0               -> "InvalidRequest"
         [] OTHER                      -> "ok"
  ELSE LET f == Head(fs) IN
       CASE f.name = "#error" -> "InvalidRequest"
         [] f.name = "operation_type" /\ f.bytes = <<>> -> "panic"
         [] f.name = "operation_type" /\ OperationType_try_from(f.bytes[1]) # "ok" ->
              OperationType_try_from(f.bytes[1])
         [] f.name = "operation_type" ->
              post_form_psbt_twice(Tail(fs), [acc EXCEPT !.type = f.bytes[1]])
         [] f.name \in FilePrefixed /\ f.name \notin FileKindNames -> "InvalidRequest"
         [] f.name \in FileKindNames /\ f.bytes = <<>> -> "InvalidRequest"
         [] f.name = "file_psbt" -> post_form_psbt_twice(Tail(fs), [acc EXCEPT !.psbt = TRUE])
         [] f.name \in FileKindNames -> post_form_psbt_twice(Tail(fs), [acc EXCEPT !.files = @ + 1])
         [] OTHER -> "InvalidRequest"

RECURSIVE post_form(_, _)
post_form(fs, acc) ==
  IF fs = <<>>
  THEN CASE acc.files = 0 /\ ~acc.psbt -> "InvalidRequest"
         [] acc.type = 0               -> "InvalidRequest"
         [] OTHER                      -> "ok"
  ELSE LET f == Head(fs) IN
       CASE f.name = "#error" -> "InvalidRequest"
         [] f.name = "operation_type" /\ f.bytes = <<>> -> "panic"
         [] f.name = "operation_type" /\ OperationType_try_from(f.bytes[1]) # "ok" ->
              OperationType_try_from(f.bytes[1])
         [] f.name = "operation_type" ->
              post_form(Tail(fs), [acc EXCEPT !.type = f.bytes[1]])
         [] f.name \in FilePrefixed /\ f.name \notin FileKindNames -> "InvalidRequest"
         [] f.name \in FileKindNames /\ f.bytes = <<>> -> "InvalidRequest"
         [] f.name = "file_psbt" /\ acc.psbt -> "InvalidRequest"
         [] f.name = "file_psbt" -> post_form(Tail(fs), [acc EXCEPT !.psbt = TRUE])
         [] f.name \in FileKindNames -> post_form(Tail(fs), [acc EXCEPT !.files = @ + 1])
         [] OTHER -> "InvalidRequest"

(* respond_to_operation: the request field is parsed as JSON when it       *)
(* arrives (the last one wins); a second file_psbt is refused before its   *)
(* body is read.  After the loop: a missing request, then an ACK without   *)
(* a PSBT, is InvalidRequest.  acc is [req, psbt]; req is "none", "ack"    *)
(* or "nack".                                                              *)
RECURSIVE respond_form(_, _)
respond_form(fs, acc) ==
  IF fs = <<>>
  THEN CASE acc.req = "none"                 -> "InvalidRequest"
         [] acc.req = "ack" /\ ~acc.psbt      -> "InvalidRequest"
         [] OTHER                             -> "ok"
  ELSE LET f == Head(fs) IN
       CASE f.name = "#error" -> "InvalidRequest"
         [] f.name = "request" /\ f.json = "bad" -> "InvalidRequest"
         [] f.name = "request" -> respond_form(Tail(fs), [acc EXCEPT !.req = f.json])
         [] f.name = "file_psbt" /\ acc.psbt -> "InvalidRequest"
         [] f.name = "file_psbt" /\ f.bytes = <<>> -> "InvalidRequest"
         [] f.name = "file_psbt" -> respond_form(Tail(fs), [acc EXCEPT !.psbt = TRUE])
         [] OTHER -> "InvalidRequest"

PostFormOutcome(fs) == post_form(fs, [type |-> 0, files |-> 0, psbt |-> FALSE])
RespondFormOutcome(fs) == respond_form(fs, [req |-> "none", psbt |-> FALSE])

-----------------------------------------------------------------------------
(* The spec's rules, stated over the whole form.                           *)

Named(fs, n) == {j \in DOMAIN fs : fs[j].name = n}
NamedIn(fs, ns) == {j \in DOMAIN fs : fs[j].name \in ns}

(* Section 4.3.1: fields are operation_type (a single byte naming an       *)
(* OperationType 1..7) and file_<kind>; any other name, an empty file or a *)
(* second file_psbt is refused; a file and the operation type must be      *)
(* present.                                                                *)
SpecPostAccepts(fs) ==
  /\ NamedIn(fs, FileKindNames \cup {"operation_type"}) = DOMAIN fs
  /\ \A j \in NamedIn(fs, FileKindNames) : fs[j].bytes # <<>>
  /\ Cardinality(Named(fs, "file_psbt")) <= 1
  /\ NamedIn(fs, FileKindNames) # {}
  /\ Named(fs, "operation_type") # {}
  /\ \A j \in Named(fs, "operation_type") :
       Len(fs[j].bytes) = 1 /\ fs[j].bytes[1] \in 1..7

(* Section 4.3.2: a request field with the JSON {operation_idx, ack} and   *)
(* an optional file_psbt, at most one; an ACK requires the PSBT.  The spec *)
(* does not say which of several request fields counts: the last one, as   *)
(* in the code.                                                            *)
SpecRespondAccepts(fs) ==
  /\ NamedIn(fs, {"request", "file_psbt"}) = DOMAIN fs
  /\ \A j \in Named(fs, "request") : fs[j].json # "bad"
  /\ \A j \in Named(fs, "file_psbt") : fs[j].bytes # <<>>
  /\ Cardinality(Named(fs, "file_psbt")) <= 1
  /\ Named(fs, "request") # {}
  /\ fs[Max(Named(fs, "request"))].json = "ack" => Named(fs, "file_psbt") # {}

\* the bodies the spec's byte rule speaks of: every operation_type is one byte
OneByteTypes(fs) == \A j \in Named(fs, "operation_type") : Len(fs[j].bytes) = 1

=============================================================================
