---------------------------- MODULE MCEndpoints -----------------------------
(* Endpoints with what a name may be resolved to. *)
EXTENDS Endpoints

MCResolved == {<<"ipv4">>, <<"ipv6", "ipv4">>, <<"other">>}

=============================================================================
