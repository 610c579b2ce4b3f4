------------------------------- MODULE Faults -------------------------------
(***************************************************************************)
(* What can be done to a request: the faults of chaos/faults.py, by where  *)
(* they are applied, and the errors the X-Testnet-Force-Error header       *)
(* forces (chaos/legacy.py).  Used by the market, by the middleware around *)
(* it and by the front of the server.                                      *)
(***************************************************************************)

\* Pre-response faults, with the status apply_pre_response answers.
PreStatus == [http_500 |-> 500, http_502_nginx |-> 502, http_503 |-> 503,
              http_504 |-> 504, rate_limited_429 |-> 429, auth_drop_401 |-> 401,
              unknown_error_code |-> 418, timeout |-> 502,
              connection_drop |-> 502]
PreResponse  == DOMAIN PreStatus
Byzantine    == {"byzantine_missing_field", "byzantine_null",
                 "byzantine_wrong_type"}
PostResponse == {"slow", "malformed_json", "truncated_body"} \cup Byzantine
DomainFaults == {"account_invalid", "already_sold", "retry_storm",
                 "charge_then_fail", "delayed_settlement", "bad_lot_check"}
FaultKind    == PreResponse \cup PostResponse \cup DomainFaults
NoFault      == "no_fault"   \* no fault, or one the handler never sees

\* X-Testnet-Force-Error: the names raise_legacy_forced_error knows, with the
\* status each typed error is rendered with.  Any other value falls through.
ForcedStatus == [rate_limited |-> 429, auth_failed |-> 401,
                 transport_error |-> 500, payment_failed |-> 402,
                 not_found |-> 404]
=============================================================================
