------------------------------- MODULE MCAuth -------------------------------
(***************************************************************************)
(* Model-checking instance of Auth: one cosigner xpub and one unknown      *)
(* xpub; the app directory holds files/, the database and the config; the *)
(* file ids a client may send are a stored file, a missing one, a relative *)
(* path out of files/ and an absolute path.  The multipart forms are all  *)
(* sequences of up to three fields: an operation_type that is empty, a     *)
(* valid type, an invalid byte or two bytes; a PSBT that is empty or not;  *)
(* a media file; a file_ name of no kind; another name; a stream error;    *)
(* and, for a response, a request whose JSON is an ACK, a NACK or bad.     *)
(* Three fields are needed for a complete form with a second PSBT.         *)
(***************************************************************************)
EXTENDS Auth

CONSTANTS x1, xu

MCKnown == {x1}
MCUnknown == {xu}
MCFilesDir == <<"/", "app", "files">>
MCFileIdInputs == {<<"f1">>, <<"f2">>, <<"..", "rgb_multisig_bridge_db">>,
                   <<"/", "etc", "passwd">>}
MCExisting == {<<"/", "app", "files", "f1">>, <<"/", "app", "rgb_multisig_bridge_db">>,
               <<"/", "app", "config.toml">>, <<"/", "etc", "passwd">>}

Fld(n, b, j) == [name |-> n, bytes |-> b, json |-> j]

MCPostFields ==
  {Fld("operation_type", b, "") : b \in {<<>>, <<3>>, <<9>>, <<3, 9>>}}
    \cup {Fld("file_psbt", b, "") : b \in {<<>>, <<7>>}}
    \cup {Fld("file_media", <<7>>, ""), Fld("file_invalid", <<7>>, ""),
          Fld("other", <<7>>, ""), Fld("#error", <<>>, "")}

MCRespondFields ==
  {Fld("request", <<>>, j) : j \in {"ack", "nack", "bad"}}
    \cup {Fld("file_psbt", b, "") : b \in {<<>>, <<7>>}}
    \cup {Fld("other", <<7>>, ""), Fld("#error", <<>>, "")}

MCPostForms == BoundedSeq(MCPostFields, 3)
MCRespondForms == BoundedSeq(MCRespondFields, 3)

=============================================================================
