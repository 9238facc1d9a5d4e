------------------------------- MODULE Codes -------------------------------
(***************************************************************************)
(* The error codes of the protocol and the three ways they travel: as an   *)
(* HTTP status, as a wire name, and inside the END frame of a stream.      *)
(***************************************************************************)
EXTENDS Integers, Sequences

Code == 0..16

CodeNames ==
  <<"ok", "canceled", "unknown", "invalid_argument", "deadline_exceeded", "not_found",
    "already_exists", "permission_denied", "resource_exhausted", "failed_precondition",
    "aborted", "out_of_range", "unimplemented", "internal", "unavailable", "data_loss",
    "unauthenticated">>

CodeName == {CodeNames[c + 1] : c \in Code}

code_to_string(code) == IF code \in Code THEN CodeNames[code + 1] ELSE "unknown"

code_from_string(name) ==
  IF name \in CodeName THEN CHOOSE c \in Code : CodeNames[c + 1] = name ELSE 2

http_status(code) ==
  CASE code = 1         -> 499
    [] code \in {3, 9, 11} -> 400
    [] code = 4         -> 504
    [] code = 5         -> 404
    [] code \in {6, 10} -> 409
    [] code = 7         -> 403
    [] code = 8         -> 429
    [] code = 12        -> 501
    [] code = 14        -> 503
    [] code = 16        -> 401
    [] OTHER            -> 500

connect_from_status(status) ==
  CASE status = 400 -> 3
    [] status = 404 -> 5
    [] status = 403 -> 7
    [] status = 401 -> 16
    [] status = 429 -> 8
    [] status = 503 -> 14
    [] status = 409 -> 10
    [] status = 504 -> 4
    [] status = 501 -> 12
    [] status = 499 -> 1
    [] OTHER        -> 13

-----------------------------------------------------------------------------
(* The verdict of an END frame: the name of the error, or NoError when its  *)
(* JSON has no "error" object.  An error object without a string "code" is  *)
(* Nameless.                                                                *)

NoError  == "none"
Nameless == "nameless"
Verdict  == CodeName \cup {NoError}

encode_end_stream(code) == IF code = 0 THEN NoError ELSE code_to_string(code)

decode_end_stream(verdict) ==
  CASE verdict = NoError  -> 0
    [] verdict = Nameless -> 2
    [] OTHER              -> code_from_string(verdict)
=============================================================================
